------------------------- MODULE ScanAssembly_proof -------------------------
(***************************************************************************)
(* The safety properties of ScanAssembly, proved for any number of teeth,  *)
(* any jitter the tests of the angles tolerate, packets of any number of   *)
(* points, buffers of any size, and any number of turns, losses and        *)
(* restarts.                                                               *)
(***************************************************************************)
EXTENDS ScanAssembly, TLAPS

USE TeethAssumption

(* The tooth of the packet that was parsed last. *)
LastTooth == lastStartAngle \div 24

(* The device is as many teeth further as packets were lost since. *)
Further ==
  \/ device.tooth = LastTooth + lost + 1
  \/ device.tooth + Teeth = LastTooth + lost + 1

(* What is stored ends at that tooth, so it is no longer than the turn so  *)
(* far, but for one packet each time the thread was started anew: the      *)
(* first packet that a new thread parses can be of the last tooth again.   *)
CountsMatch ==
  /\ scanCount <= packetCount * widest
  /\ lastStartAngle <= 24 * LastTooth + 7
  /\ packetCount <= LastTooth + 1 + restarts
  /\ Further \/ packetCount <= LastTooth + restarts
  /\ whole => packetCount <= LastTooth + 1

(* The first n cells of a buffer are points of successive teeth, the first *)
(* to the last, all of one turn, and every tooth has some.                 *)
Stretch(buffer, n, first, last, turn) ==
  /\ n > 0 /\ 0 .. n - 1 \subseteq DOMAIN buffer
  /\ buffer[0].tooth = first /\ buffer[n - 1].tooth = last
  /\ \A i \in 0 .. n - 1 : buffer[i].turn = turn
  /\ \A i \in 1 .. n - 1 : buffer[i].tooth - buffer[i - 1].tooth \in {0, 1}

(* The same with the turn: the last tooth was of turn. *)
InStep(turn) ==
  \/ device.turn = turn /\ device.tooth = LastTooth + lost + 1
  \/ device.turn = turn + 1 /\ device.tooth + Teeth = LastTooth + lost + 1

StoredInOrder ==
  whole /\ packetCount > 0 =>
    /\ Stretch(cells[scanBuff], scanCount, LastTooth - packetCount + 1, LastTooth,
               cells[scanBuff][0].turn)
    /\ InStep(cells[scanBuff][0].turn)

(* Packets parsed one after the other are one tooth apart, and when they   *)
(* have passed the start of a turn they are stored, all of them.           *)
GoodRun ==
  /\ good > 0 => lost = 0 /\ Further
  /\ good > LastTooth + 1 => /\ packetCount = LastTooth + 1
                             /\ LastTooth < Teeth - 1
                             /\ good <= Teeth + LastTooth + 1

(* What was returned is in the other buffer. *)
ReturnedApart ==
  /\ returned.how # "nothing" => returned.buffer = Other(scanBuff)
  /\ TurnIsWhole

(* The part of TypeOK about the cells. *)
BuffersTyped ==
  /\ DOMAIN cells = {"left", "right"}
  /\ \A b \in {"left", "right"} :
       CellNumbers \subseteq DOMAIN cells[b] /\ cells[b] \in [DOMAIN cells[b] -> Positions]

(* The inductive invariant. *)
IInv ==
  /\ TypeOK
  /\ CountsMatch
  /\ NoOverrun
  /\ StoredInOrder
  /\ GoodRun
  /\ ReturnedApart

-----------------------------------------------------------------------------
LEMMA ProductGrows ==
  ASSUME NEW a \in Nat, NEW b \in Nat, NEW c \in Nat, NEW d \in Nat, a <= b, c <= d
  PROVE  a * c <= b * d /\ a * c \in Nat /\ b * d \in Nat /\ b * d = d * b
<1>1. a * c <= b * c
  BY SMT
<1>2. b * c <= b * d
  BY SMT
<1>3. a * c \in Nat /\ b * c \in Nat /\ b * d \in Nat /\ b * d = d * b
  BY SMT
<1> QED
  BY <1>1, <1>2, <1>3, SMT

LEMMA RoomGrows ==
  ASSUME NEW p \in Nat, NEW w \in Nat, NEW v \in Nat, NEW n \in Nat, NEW num \in Nat,
         n <= p * w, w <= v, num <= v
  PROVE  n + num <= (p + 1) * v
<1>1. p * w <= p * v
  BY ProductGrows
<1>2. p * w \in Nat /\ p * v \in Nat /\ (p + 1) * v = p * v + v
  BY SMT
<1> QED
  BY <1>1, <1>2, SMT

(* The counters after a packet was stored. *)
LEMMA StoreCounts ==
  ASSUME NEW start, NEW end, NEW num \in Nat \ {0}, Store(start, end, num),
         packetCount \in Nat, scanCount \in Nat, widest \in Nat,
         scanCount <= packetCount * widest
  PROVE  /\ Follows(start)
         /\ packetCount' = (IF Opens(start, end) THEN 0 ELSE packetCount) + 1
         /\ scanCount' = (IF Opens(start, end) THEN 0 ELSE scanCount) + num
         /\ scanCount' \in Nat /\ widest' \in Nat /\ widest <= widest'
         /\ scanCount' <= packetCount' * widest'
<1>1. /\ Follows(start)
      /\ packetCount' = (IF Opens(start, end) THEN 0 ELSE packetCount) + 1
      /\ scanCount' = (IF Opens(start, end) THEN 0 ELSE scanCount) + num
      /\ widest' = IF num > widest THEN num ELSE widest
  BY Zenon DEF Store
<1>2. widest' \in Nat /\ widest <= widest' /\ num <= widest' /\ num \in Nat
  BY <1>1, SMT
<1>3. CASE Opens(start, end)
  <2>1. packetCount' = 0 + 1 /\ scanCount' = 0 + num
    BY <1>1, <1>3, Zenon
  <2>2. 0 + num <= (0 + 1) * widest' /\ 0 + num \in Nat
    <3>1. \A c, n \in Nat : n <= c => 0 + n <= (0 + 1) * c /\ 0 + n \in Nat
      BY SMT
    <3> QED
      BY <1>2, <3>1, Zenon
  <2>3. packetCount' = (IF Opens(start, end) THEN 0 ELSE packetCount) + 1
    BY <1>1
  <2>4. scanCount' = (IF Opens(start, end) THEN 0 ELSE scanCount) + num
    BY <1>1
  <2>5. scanCount' \in Nat /\ scanCount' <= packetCount' * widest'
    BY <2>1, <2>2, Zenon
  <2> QED
    BY <1>1, <1>2, <2>3, <2>4, <2>5, Zenon
<1>4. CASE ~Opens(start, end)
  <2>1. packetCount' = packetCount + 1 /\ scanCount' = scanCount + num
    BY <1>1, <1>4, Zenon
  <2>2. scanCount + num <= (packetCount + 1) * widest'
    BY <1>2, RoomGrows
  <2> QED
    BY <1>1, <1>2, <2>1, <2>2, SMT
<1> QED
  BY <1>3, <1>4

LEMMA StretchBegins ==
  ASSUME NEW buffer, NEW num \in Nat \ {0}, device \in Positions
  PROVE  Stretch(Written(buffer, 0, num), num, device.tooth, device.tooth, device.turn)
<1>1. /\ 0 + num - 1 = num - 1 /\ num > 0
      /\ 0 \in 0 .. num - 1 /\ num - 1 \in 0 .. num - 1
      /\ \A i \in 1 .. num - 1 : i \in 0 .. num - 1 /\ i - 1 \in 0 .. num - 1
  BY SMT
<1> DEFINE b == Written(buffer, 0, num)
<1>2. /\ DOMAIN b = (DOMAIN buffer) \cup (0 .. num - 1)
      /\ \A i \in 0 .. num - 1 : b[i] = device
  <2>1. /\ DOMAIN b = (DOMAIN buffer) \cup (0 .. 0 + num - 1)
        /\ \A i \in 0 .. 0 + num - 1 : b[i] = device
    BY Zenon DEF Written
  <2> HIDE DEF b
  <2> QED
    BY <2>1, <1>1
<1> HIDE DEF b
<1>3. \A i \in 1 .. num - 1 : b[i].tooth - b[i - 1].tooth = device.tooth - device.tooth
  BY <1>1, <1>2
<1>4. device.tooth - device.tooth = 0
  BY SMT DEF Positions, ToothNumbers
<1>5. Stretch(b, num, device.tooth, device.tooth, device.turn)
  BY <1>1, <1>2, <1>3, <1>4 DEF Stretch
<1> QED
  BY <1>5 DEF b

LEMMA StretchGrows ==
  ASSUME NEW buffer, NEW n \in Nat, NEW num \in Nat \ {0}, device \in Positions,
         NEW first, NEW last \in ToothNumbers, device.tooth = last + 1,
         Stretch(buffer, n, first, last, device.turn)
  PROVE  Stretch(Written(buffer, n, num), n + num, first, device.tooth, device.turn)
<1> DEFINE b == Written(buffer, n, num)
           m == n + num
<1>1. /\ n > 0 /\ m > 0 /\ m \in Nat
      /\ 0 \in 0 .. n - 1 /\ n - 1 \in 0 .. n - 1 /\ m - 1 \in n .. m - 1
      /\ \A i \in 0 .. m - 1 : i \in 0 .. n - 1 \/ i \in n .. m - 1
      /\ \A i \in 0 .. n - 1 : i \notin n .. m - 1
      /\ \A i \in 1 .. m - 1 : \/ i \in 1 .. n - 1 /\ i \in 0 .. n - 1 /\ i - 1 \in 0 .. n - 1
                               \/ i = n
                               \/ i \in n .. m - 1 /\ i - 1 \in n .. m - 1
      /\ n \in n .. m - 1
  BY SMT DEF Stretch
<1>2. /\ DOMAIN b = (DOMAIN buffer) \cup (n .. m - 1)
      /\ \A i \in n .. m - 1 : b[i] = device
      /\ \A i \in DOMAIN buffer : i \notin n .. m - 1 => b[i] = buffer[i]
  <2>1. b = [i \in (DOMAIN buffer) \cup (n .. m - 1) |->
               IF i \in n .. m - 1 THEN device ELSE buffer[i]]
    BY DEF Written
  <2> HIDE DEF b, m
  <2> QED
    BY <2>1, Zenon
<1> HIDE DEF b, m
<1>3. \A i \in 0 .. n - 1 : i \in DOMAIN buffer /\ b[i] = buffer[i]
  BY <1>1, <1>2 DEF Stretch
<1>4. /\ 0 .. m - 1 \subseteq DOMAIN b
      /\ b[0].tooth = first /\ b[m - 1].tooth = device.tooth
      /\ \A i \in 0 .. m - 1 : b[i].turn = device.turn
  BY <1>1, <1>2, <1>3 DEF Stretch
<1>5. ASSUME NEW i \in 1 .. m - 1
      PROVE  b[i].tooth - b[i - 1].tooth \in {0, 1}
  <2>1. CASE i \in 1 .. n - 1 /\ i \in 0 .. n - 1 /\ i - 1 \in 0 .. n - 1
    BY <2>1, <1>3 DEF Stretch
  <2>2. CASE i = n
    <3>1. b[i].tooth = last + 1 /\ b[i - 1].tooth = last
      BY <2>2, <1>1, <1>2, <1>3 DEF Stretch
    <3>2. last \in Int
      BY DEF ToothNumbers
    <3> QED
      BY <3>1, <3>2, SMT
  <2>3. CASE i \in n .. m - 1 /\ i - 1 \in n .. m - 1
    <3>1. device.tooth - device.tooth = 0
      BY SMT DEF Positions, ToothNumbers
    <3> QED
      BY <2>3, <3>1, <1>2
  <2> QED
    BY <1>1, <2>1, <2>2, <2>3
<1>6. Stretch(b, m, first, device.tooth, device.turn)
  BY <1>1, <1>4, <1>5 DEF Stretch
<1> QED
  BY <1>6 DEF b, m

(* A packet that was parsed was stored, with some points, or made the      *)
(* parser give up.                                                         *)

LEMMA StoredOrDiscarded ==
  ASSUME device \in Positions, NEW start, NEW end, ParsePacket(start, end)
  PROVE  (\E num \in Nat \ {0} : Store(start, end, num)) \/ Discard(start)
<1>1. device.tooth \in 0 .. Teeth - 1
  BY DEF Positions, ToothNumbers
<1>2. ASSUME NEW paramLen \in ParamLens[device.tooth],
             Store(start, end, ScanNum(paramLen))
      PROVE  \E num \in Nat \ {0} : Store(start, end, num)
  BY <1>1, <1>2, PointsAssumption
<1> QED
  BY <1>2 DEF ParsePacket

LEMMA StartOfTooth ==
  ASSUME NEW k \in ToothNumbers, NEW start \in StartAngles(k)
  PROVE  /\ start \in 0 .. 24 * Teeth - 1
         /\ 24 * k <= start /\ start <= 24 * k + 7
         /\ start \div 24 = k
<1>1. PICK j \in Jitters : start = 24 * k + j
  BY DEF StartAngles
<1>2. j \in 0 .. 7 /\ k \in 0 .. Teeth - 1
  BY <1>1 DEF ToothNumbers, TeethAssumption
<1> QED
  BY <1>1, <1>2, SMT DEF TeethAssumption

LEMMA LastToothIsTooth ==
  ASSUME TypeOK
  PROVE  LastTooth \in ToothNumbers /\ 24 * LastTooth <= lastStartAngle
<1> lastStartAngle \in 0 .. 24 * Teeth - 1
  BY DEF TypeOK
<1> QED
  BY SMT DEF LastTooth, ToothNumbers, TeethAssumption

(* The tests of the angles in terms of teeth: a packet opens a turn when   *)
(* it is of the first tooth, and follows when it is of the next tooth, or  *)
(* of the same tooth with a later start.                                   *)
LEMMA AnglesAreTeeth ==
  ASSUME TypeOK, CountsMatch,
         NEW k \in ToothNumbers, NEW start \in StartAngles(k)
  PROVE  /\ Opens(start, EndAngle(k)) <=> k = 0
         /\ Follows(start) => \/ k = 0 /\ LastTooth = Teeth - 1
                              \/ k > 0 /\ k = LastTooth + 1
                              \/ k > 0 /\ k = LastTooth
         /\ k = 0 /\ LastTooth = Teeth - 1 => Follows(start)
         /\ k > 0 /\ k = LastTooth + 1 => Follows(start)
<1> DEFINE l == LastTooth
<1>1. /\ l \in 0 .. Teeth - 1 /\ k \in 0 .. Teeth - 1
      /\ 24 * l <= lastStartAngle /\ lastStartAngle <= 24 * l + 7
      /\ lastStartAngle \in Nat
  BY LastToothIsTooth DEF CountsMatch, TypeOK, ToothNumbers
<1>2. start \in Nat /\ 24 * k <= start /\ start <= 24 * k + 7
  BY StartOfTooth
<1>3. Opens(start, EndAngle(k)) <=> k = 0
  BY <1>1, <1>2, SMT DEF Opens, EndAngle
<1> HIDE DEF l
<1>4. Follows(start) => \/ k = 0 /\ l = Teeth - 1
                        \/ k > 0 /\ k = l + 1
                        \/ k > 0 /\ k = l
  BY <1>1, <1>2, SMT DEF Follows, LastToothAngle, TeethAssumption
<1>5. k = 0 /\ l = Teeth - 1 => Follows(start)
  BY <1>1, <1>2, SMT DEF Follows, LastToothAngle, TeethAssumption
<1>6. k > 0 /\ k = l + 1 => Follows(start)
  BY <1>1, <1>2, SMT DEF Follows, LastToothAngle, TeethAssumption
<1> QED
  BY <1>3, <1>4, <1>5, <1>6 DEF l

-----------------------------------------------------------------------------
(* What parsing a packet does to the counters, the cells and the stream,   *)
(* whatever happens to the buffers after it.                               *)
ParsedWell(k, opened) ==
  /\ device.tooth = k /\ device \in Positions
  /\ k \in ToothNumbers
  /\ device' \in Positions
  /\ \/ device'.turn = device.turn /\ device'.tooth = k + 1
     \/ device'.turn = device.turn + 1 /\ device'.tooth + Teeth = k + 1
  /\ lost' = 0 /\ restarts' = restarts
  /\ lastStartAngle' \in 0 .. 24 * Teeth - 1
  /\ LastTooth' = k /\ lastStartAngle' <= 24 * k + 7
  /\ packetCount' \in 0 .. Teeth + MaxRestarts
  /\ scanCount' \in Nat /\ widest' \in Nat
  /\ scanCount' <= packetCount' * widest'
  /\ packetCount' <= k + 1 + restarts
  /\ whole \/ opened => packetCount' <= k + 1

CellsWell(k, opened) ==
  /\ BuffersTyped' /\ NoOverrun'
  /\ cells'[Other(scanBuff)] = cells[Other(scanBuff)]
  /\ Inside' => Inside
  /\ (whole \/ opened) /\ packetCount' > 0 =>
       Stretch(cells'[scanBuff], scanCount', k - packetCount' + 1, k, device.turn)

GoodWell(k) ==
  good > k =>
    /\ packetCount' = k + 1
    /\ good + 1 <= Teeth + k + 1

LEMMA ParseCounts ==
  ASSUME IInv, NEW start \in StartAngles(device.tooth),
         ParsePacket(start, EndAngle(device.tooth))
  PROVE  ParsedWell(device.tooth, Resets(start, EndAngle(device.tooth)))
<1> DEFINE k == device.tooth
           end == EndAngle(k)
<1>1. /\ device \in Positions /\ k \in ToothNumbers
      /\ restarts \in 0 .. MaxRestarts /\ packetCount \in Nat
  BY DEF IInv, TypeOK, Positions
<1>2. /\ device' \in Positions
      /\ \/ device'.turn = device.turn /\ device'.tooth = k + 1
         \/ device'.turn = device.turn + 1 /\ device'.tooth + Teeth = k + 1
  <2>1. device.turn \in Nat /\ k \in 0 .. Teeth - 1
    BY <1>1 DEF Positions, ToothNumbers
  <2>2. CASE k = Teeth - 1
    BY <2>1, <2>2, SMT DEF ParsePacket, TurnHead, Positions, ToothNumbers, TeethAssumption
  <2>3. CASE k # Teeth - 1
    <3>1. device' = [turn |-> device.turn, tooth |-> k + 1]
      BY <2>1, <2>3, <1>1 DEF ParsePacket, TurnHead, Positions
    <3> QED
      BY <3>1, <2>1, <2>3, SMT DEF Positions, ToothNumbers, TeethAssumption
  <2> QED
    BY <2>2, <2>3
<1>3. /\ lost' = 0 /\ restarts' = restarts /\ lastStartAngle' = start
      /\ (\E num \in Nat \ {0} : Store(start, end, num)) \/ Discard(start)
  BY <1>1, StoredOrDiscarded DEF ParsePacket
<1>4. /\ lastStartAngle' \in 0 .. 24 * Teeth - 1
      /\ LastTooth' = k /\ lastStartAngle' <= 24 * k + 7
  BY <1>1, <1>3, StartOfTooth DEF LastTooth
<1>7. lost \in 0 .. MaxLoss
  BY DEF IInv, TypeOK
<1>5. /\ packetCount' \in Nat /\ scanCount' \in Nat /\ widest' \in Nat
      /\ scanCount' <= packetCount' * widest'
      /\ packetCount' <= k + 1 + restarts
      /\ whole \/ Resets(start, end) => packetCount' <= k + 1
  <2>1. /\ CountsMatch /\ TypeOK
        /\ scanCount \in Nat /\ widest \in Nat /\ scanCount <= packetCount * widest
    BY DEF IInv, TypeOK, CountsMatch
  <2>2. /\ LastTooth \in ToothNumbers
        /\ Opens(start, end) <=> k = 0
        /\ Follows(start) => \/ k = 0 /\ LastTooth = Teeth - 1
                             \/ k > 0 /\ k = LastTooth + 1
                             \/ k > 0 /\ k = LastTooth
    BY <1>1, <2>1, AnglesAreTeeth, LastToothIsTooth
  <2> HIDE DEF end
  <2>3. ASSUME NEW num \in Nat \ {0}, Store(start, end, num)
        PROVE  /\ packetCount' \in Nat /\ scanCount' \in Nat /\ widest' \in Nat
               /\ scanCount' <= packetCount' * widest'
               /\ packetCount' <= k + 1 + restarts
               /\ whole \/ Resets(start, end) => packetCount' <= k + 1
    <3>1. /\ Follows(start)
          /\ packetCount' = (IF Opens(start, end) THEN 0 ELSE packetCount) + 1
          /\ scanCount' \in Nat /\ widest' \in Nat
          /\ scanCount' <= packetCount' * widest'
      BY <2>1, <2>3, <1>1, StoreCounts
    <3>2. /\ packetCount' \in Nat
          /\ packetCount' <= k + 1 + restarts
          /\ whole \/ Resets(start, end) => packetCount' <= k + 1
      <4>1. CASE Opens(start, end)
        BY <2>2, <3>1, <4>1, <1>1, SMT DEF ToothNumbers
      <4>2. CASE ~Opens(start, end)
        <5>1. /\ packetCount' = packetCount + 1
              /\ ~Resets(start, end)
              /\ LastTooth <= k
          BY <2>2, <3>1, <4>2, <1>1, SMT DEF Resets, ToothNumbers
        <5>2. CASE k = LastTooth + 1
          BY <5>1, <5>2, <2>1, <2>2, <1>1, SMT DEF CountsMatch, ToothNumbers
        <5>3. CASE k = LastTooth
          <6>1. ~Further
            BY <1>1, <1>7, <2>2, <5>3, SMT DEF Further, ToothNumbers, TeethAssumption
          <6>2. whole => packetCount = 0
            BY <1>1, <6>1 DEF IInv, StoredInOrder, InStep, Further
          <6> QED
            BY <5>1, <5>3, <6>1, <6>2, <2>1, <2>2, <1>1, SMT DEF CountsMatch, ToothNumbers
        <5> QED
          BY <5>2, <5>3, <2>2, <3>1, <4>2
      <4> QED
        BY <4>1, <4>2
    <3> QED
      BY <3>1, <3>2
  <2>4. CASE Discard(start)
    <3>1. packetCount' = 0 /\ scanCount' = 0 /\ widest' = widest
      BY <2>4 DEF Discard
    <3>2. 0 * widest = 0
      BY <2>1, SMT
    <3> QED
      BY <3>1, <3>2, <2>1, <1>1, SMT DEF ToothNumbers
  <2> QED
    BY <1>3, <2>3, <2>4
<1>6. packetCount' \in 0 .. Teeth + MaxRestarts
  BY <1>1, <1>5, SMT DEF ToothNumbers, TeethAssumption
<1> QED
  BY <1>1, <1>2, <1>3, <1>4, <1>5, <1>6 DEF ParsedWell

(* What a packet's points do to the two buffers. *)
LEMMA StoreBuffers ==
  ASSUME BuffersTyped, device \in Positions, scanBuff \in {"left", "right"},
         NEW place \in Nat, NEW num \in Nat \ {0},
         cells' = [cells EXCEPT ![scanBuff] = Written(@, place, num)]
  PROVE  /\ BuffersTyped'
         /\ cells'[scanBuff] = Written(cells[scanBuff], place, num)
         /\ cells'[Other(scanBuff)] = cells[Other(scanBuff)]
         /\ Inside' => Inside
         /\ Inside /\ place + num <= Capacity => Inside'
<1>1. Other(scanBuff) # scanBuff /\ Other(scanBuff) \in {"left", "right"}
  BY DEF Other
<1>2. /\ DOMAIN cells' = {"left", "right"}
      /\ cells'[scanBuff] = Written(cells[scanBuff], place, num)
      /\ \A b \in {"left", "right"} : b # scanBuff => cells'[b] = cells[b]
  BY DEF BuffersTyped
<1>3. /\ DOMAIN cells'[scanBuff] = (DOMAIN cells[scanBuff]) \cup (place .. place + num - 1)
      /\ cells'[scanBuff] \in [DOMAIN cells'[scanBuff] -> Positions]
  <2>1. cells[scanBuff] \in [DOMAIN cells[scanBuff] -> Positions]
    BY DEF BuffersTyped
  <2>2. cells'[scanBuff] = [i \in (DOMAIN cells[scanBuff]) \cup (place .. place + num - 1) |->
                              IF i \in place .. place + num - 1
                                THEN device ELSE cells[scanBuff][i]]
    BY <1>2, Zenon DEF Written
  <2> QED
    BY ONLY <2>1, <2>2, device \in Positions
<1>4. BuffersTyped'
  BY <1>2, <1>3 DEF BuffersTyped
<1>5. CellNumbers \subseteq DOMAIN cells[scanBuff]
  BY DEF BuffersTyped
<1>6. Inside' => Inside
  BY <1>2, <1>3, <1>5 DEF Inside
<1>7. ASSUME Inside, place + num <= Capacity
      PROVE  Inside'
  <2>1. place .. place + num - 1 \subseteq CellNumbers
    BY <1>7, PointsAssumption, SMT DEF CellNumbers
  <2> QED
    BY <1>7, <1>2, <1>3, <2>1 DEF Inside
<1> QED
  BY <1>1, <1>2, <1>4, <1>6, <1>7

LEMMA ParseCells ==
  ASSUME IInv, NEW start \in StartAngles(device.tooth),
         ParsePacket(start, EndAngle(device.tooth))
  PROVE  CellsWell(device.tooth, Resets(start, EndAngle(device.tooth)))
<1> DEFINE k == device.tooth
           end == EndAngle(k)
<1>1. /\ device \in Positions /\ k \in 0 .. Teeth - 1
      /\ BuffersTyped
      /\ scanBuff \in {"left", "right"}
      /\ restarts \in 0 .. MaxRestarts /\ packetCount \in Nat
      /\ scanCount \in Nat /\ widest \in Nat /\ scanCount <= packetCount * widest
      /\ lost \in 0 .. MaxLoss /\ restarts' = restarts
  BY DEF IInv, TypeOK, Positions, CountsMatch, ToothNumbers, BuffersTyped, ParsePacket
<1>2. /\ LastTooth \in 0 .. Teeth - 1
      /\ Opens(start, end) <=> k = 0
      /\ Follows(start) => \/ k = 0 /\ LastTooth = Teeth - 1
                           \/ k > 0 /\ k = LastTooth + 1
                           \/ k > 0 /\ k = LastTooth
  BY <1>1, AnglesAreTeeth, LastToothIsTooth DEF IInv, ToothNumbers
<1>3. (\E num \in Nat \ {0} : Store(start, end, num)) \/ Discard(start)
  BY <1>1, StoredOrDiscarded
<1>4. CASE Discard(start)
  <2>1. packetCount' = 0 /\ cells' = cells /\ widest' = widest
    BY <1>4 DEF Discard
  <2>2. BuffersTyped' /\ (Inside' <=> Inside)
    BY <2>1, <1>1 DEF BuffersTyped, Inside
  <2>3. NoOverrun'
    BY <2>1, <2>2, <1>1 DEF IInv, NoOverrun
  <2>4. ~(packetCount' > 0)
    BY <2>1, SMT
  <2> QED
    BY <2>1, <2>2, <2>3, <2>4 DEF CellsWell
<1>5. ASSUME NEW num \in Nat \ {0}, Store(start, end, num)
      PROVE  CellsWell(k, Resets(start, end))
  <2> DEFINE place == IF Opens(start, end) THEN 0 ELSE scanCount
  <2>1. cells' = [cells EXCEPT ![scanBuff] = Written(@, place, num)]
    BY <1>5, Zenon DEF Store
  <2>2. /\ packetCount' = (IF Opens(start, end) THEN 0 ELSE packetCount) + 1
        /\ scanCount' = place + num /\ Follows(start)
        /\ scanCount' \in Nat /\ widest' \in Nat /\ widest <= widest'
        /\ scanCount' <= packetCount' * widest'
    BY <1>1, <1>5, StoreCounts
  <2>3. place \in Nat
    BY <1>1, SMT
  <2>4. /\ packetCount' \in Nat /\ packetCount' <= Teeth + restarts
    <3>1. packetCount' \in 0 .. Teeth + MaxRestarts /\ packetCount' <= k + 1 + restarts
      BY ParseCounts DEF ParsedWell
    <3> HIDE DEF k
    <3> QED
      BY <3>1, <1>1, SMT DEF TeethAssumption
  <2> HIDE DEF place, k, end
  <2>5. /\ BuffersTyped'
        /\ cells'[scanBuff] = Written(cells[scanBuff], place, num)
        /\ cells'[Other(scanBuff)] = cells[Other(scanBuff)]
        /\ Inside' => Inside
        /\ Inside /\ place + num <= Capacity => Inside'
    BY <1>1, <2>1, <2>3, StoreBuffers
  <2>6. NoOverrun'
    <3> SUFFICES ASSUME widest' * (Teeth + restarts') <= Capacity
                 PROVE  Inside'
      BY DEF NoOverrun
    <3>1. /\ Teeth + restarts \in Nat /\ Capacity \in Nat
          /\ widest' * (Teeth + restarts) <= Capacity
      BY <1>1, PointsAssumption, SMT DEF TeethAssumption
    <3> HIDE DEF TeethAssumption
    <3>2. Inside
      <4>1. /\ widest * (Teeth + restarts) <= widest' * (Teeth + restarts)
            /\ widest * (Teeth + restarts) \in Nat
            /\ widest' * (Teeth + restarts) \in Nat
        <5>1. Teeth + restarts <= Teeth + restarts
          BY <3>1, SMT
        <5> QED
          BY <5>1, <3>1, <2>2, <1>1, ProductGrows
      <4>2. widest * (Teeth + restarts) <= Capacity
        BY <4>1, <3>1, SMT
      <4> QED
        BY <4>2 DEF IInv, NoOverrun
    <3>3. place + num <= Capacity
      <4>1. /\ packetCount' * widest' <= (Teeth + restarts) * widest'
            /\ packetCount' * widest' \in Nat
            /\ (Teeth + restarts) * widest' = widest' * (Teeth + restarts)
            /\ (Teeth + restarts) * widest' \in Nat
        <5>1. widest' <= widest'
          BY <2>2, SMT
        <5>2. packetCount' * widest' <= (Teeth + restarts) * widest'
          BY <5>1, <3>1, <2>2, <2>4, ProductGrows
        <5>3. \A a, b \in Nat : a * b \in Nat /\ a * b = b * a
          BY SMT
        <5> QED
          BY <5>2, <5>3, <3>1, <2>2, <2>4, Zenon
      <4>2. place + num <= packetCount' * widest' /\ place + num \in Nat
        BY <2>2, Zenon
      <4>3. ASSUME NEW a \in Nat, NEW b \in Nat, NEW c \in Nat, NEW d \in Nat,
                   a <= b, b <= c, c <= d
            PROVE  a <= d
        BY <4>3, SMT
      <4>4. (Teeth + restarts) * widest' <= Capacity
        BY <4>1, <3>1, Zenon
      <4> QED
        BY <4>1, <4>2, <4>3, <4>4, <3>1, Zenon
    <3> QED
      BY <3>2, <3>3, <2>5
  <2>7. ASSUME whole \/ Resets(start, end)
        PROVE  Stretch(cells'[scanBuff], scanCount', k - packetCount' + 1, k, device.turn)
    <3>1. CASE Opens(start, end) \/ packetCount = 0
      <4>1. place = 0 /\ packetCount' = 1
        <5>1. CASE Opens(start, end)
          BY <5>1, <2>2, SMT DEF place
        <5>2. CASE ~Opens(start, end)
          <6>1. packetCount = 0 /\ packetCount * widest = 0
            BY <5>2, <3>1, <1>1, SMT
          <6> QED
            BY <6>1, <5>2, <2>2, <1>1, SMT DEF place
        <5> QED
          BY <5>1, <5>2
      <4>2. k - packetCount' + 1 = k /\ scanCount' = num
        BY <4>1, <2>2, <1>1, SMT
      <4>3. Stretch(Written(cells[scanBuff], 0, num), num, k, k, device.turn)
        BY <1>1, StretchBegins DEF k
      <4> QED
        BY <4>1, <4>2, <4>3, <2>5
    <3>2. CASE ~Opens(start, end) /\ packetCount # 0
      <4>1. /\ whole /\ packetCount > 0 /\ place = scanCount
            /\ packetCount' = packetCount + 1
        BY <3>2, <2>2, <2>7, <1>1, SMT DEF Resets, place
      <4>2. /\ Stretch(cells[scanBuff], scanCount, LastTooth - packetCount + 1, LastTooth,
                       cells[scanBuff][0].turn)
            /\ InStep(cells[scanBuff][0].turn)
        BY <4>1 DEF IInv, StoredInOrder
      <4>3. k = LastTooth + 1 /\ device.turn = cells[scanBuff][0].turn
        <5>1. k # LastTooth
          BY <4>2, <1>1, <1>2, SMT DEF InStep, TeethAssumption, k
        <5>2. k = LastTooth + 1
          BY <5>1, <2>2, <1>2, <3>2
        <5> QED
          BY <5>2, <4>2, <1>1, <1>2, SMT DEF InStep, TeethAssumption, k
      <4>4. Stretch(Written(cells[scanBuff], scanCount, num), scanCount + num,
                    LastTooth - packetCount + 1, k, device.turn)
        <5>1. LastTooth \in ToothNumbers /\ device.tooth = LastTooth + 1
          BY <1>2, <4>3 DEF ToothNumbers, k
        <5> QED
          BY <5>1, <4>2, <4>3, <1>1, StretchGrows DEF k
      <4>5. k - packetCount' + 1 = LastTooth - packetCount + 1
        BY <4>1, <4>3, <1>1, <1>2, SMT
      <4> QED
        BY <4>1, <4>4, <4>5, <2>2, <2>5
    <3> QED
      BY <3>1, <3>2
  <2> QED
    BY <2>5, <2>6, <2>7 DEF CellsWell
<1> QED
  BY <1>3, <1>4, <1>5

LEMMA ParseGood ==
  ASSUME IInv, NEW start \in StartAngles(device.tooth),
         ParsePacket(start, EndAngle(device.tooth))
  PROVE  GoodWell(device.tooth)
<1> DEFINE k == device.tooth
<1> SUFFICES ASSUME good > k
             PROVE  packetCount' = k + 1 /\ good + 1 <= Teeth + k + 1
  BY DEF GoodWell
<1>1. /\ k \in 0 .. Teeth - 1 /\ LastTooth \in 0 .. Teeth - 1
      /\ good \in Nat /\ packetCount \in Nat
      /\ lost = 0 /\ Further
      /\ good > LastTooth + 1 => /\ packetCount = LastTooth + 1
                                 /\ LastTooth < Teeth - 1
                                 /\ good <= Teeth + LastTooth + 1
  <2>1. k \in 0 .. Teeth - 1 /\ LastTooth \in 0 .. Teeth - 1 /\ good \in Nat
    BY LastToothIsTooth DEF IInv, TypeOK, Positions, ToothNumbers
  <2>2. good > 0
    BY <2>1
  <2> QED
    BY <2>1, <2>2 DEF IInv, GoodRun, TypeOK
<1>2. /\ Opens(start, EndAngle(k)) <=> k = 0
      /\ k = 0 /\ LastTooth = Teeth - 1 => Follows(start)
      /\ k > 0 /\ k = LastTooth + 1 => Follows(start)
  BY <1>1, AnglesAreTeeth DEF IInv, ToothNumbers
<1>3. \/ \E num \in Nat \ {0} : Store(start, EndAngle(k), num)
      \/ Discard(start)
  BY StoredOrDiscarded DEF IInv, TypeOK
<1>4. CASE k = 0
  <2>1. LastTooth = Teeth - 1
    BY <1>1, <1>4, SMT DEF Further
  <2>2. packetCount' = 0 + 1
    BY <1>2, <1>3, <1>4, <2>1, Zenon DEF Store, Discard
  <2> QED
    BY <1>1, <1>4, <2>1, <2>2, SMT
<1>5. CASE k > 0
  <2>1. k = LastTooth + 1
    BY <1>1, <1>5, SMT DEF Further
  <2>2. packetCount' = packetCount + 1
    <3>1. ~(k = 0)
      BY <1>5, <1>1, SMT
    <3> QED
      BY <1>2, <1>3, <1>5, <2>1, <3>1, Zenon DEF Store, Discard
  <2> QED
    BY <1>1, <1>5, <2>1, <2>2, SMT
<1> QED
  BY <1>1, <1>4, <1>5

-----------------------------------------------------------------------------
LEMMA InitIInv == Init => IInv
<1> SUFFICES ASSUME Init PROVE IInv
  OBVIOUS
<1>1. TypeOK
  <2>1. 0 \in 0 .. 24 * Teeth - 1 /\ 0 \in ToothNumbers /\ 0 \in Nat
    BY SMT DEF ToothNumbers, TeethAssumption
  <2>2. Blank \in Positions /\ device \in Positions
    BY <2>1, SMT DEF Init, Blank, Positions
  <2>3. /\ 0 \in 0 .. MaxLoss /\ 0 \in 0 .. Teeth + MaxRestarts
        /\ 0 \in 0 .. MaxRestarts
    BY SMT DEF TeethAssumption
  <2>4. BuffersTyped
    BY <2>2 DEF Init, BuffersTyped
  <2> QED
    BY <2>1, <2>2, <2>3, <2>4 DEF Init, TypeOK, Nothing, BuffersTyped
<1>2. LastTooth = 0
  BY SMT DEF Init, LastTooth
<1>3. CountsMatch /\ StoredInOrder /\ GoodRun
  BY <1>2, SMT DEF Init, CountsMatch, StoredInOrder, GoodRun
<1>4. ReturnedApart
  BY DEF Init, ReturnedApart, TurnIsWhole, Nothing
<1>5. NoOverrun
  BY DEF Init, NoOverrun, Inside
<1> QED
  BY <1>1, <1>3, <1>4, <1>5 DEF IInv

(* The counters after any step that parsed a packet. *)
LEMMA ParsedMatch ==
  ASSUME NEW k, NEW opened, ParsedWell(k, opened),
         restarts \in Nat, whole' => whole \/ opened \/ packetCount' = 0
  PROVE  /\ CountsMatch' /\ LastTooth' = k /\ lost' = 0
         /\ Further'
<1>1. /\ k \in 0 .. Teeth - 1 /\ device'.tooth \in 0 .. Teeth - 1
      /\ packetCount' \in Nat
  BY DEF ParsedWell, Positions, ToothNumbers
<1>2. Further' /\ LastTooth' = k /\ lost' = 0
  BY <1>1, SMT DEF ParsedWell, Further
<1>3. CountsMatch'
  <2>1. scanCount' <= packetCount' * widest'
    BY DEF ParsedWell
  <2>2. /\ restarts' = restarts /\ lastStartAngle' <= 24 * k + 7
        /\ packetCount' <= k + 1 + restarts
        /\ whole \/ opened => packetCount' <= k + 1
    BY DEF ParsedWell
  <2>3. packetCount' = 0 => packetCount' <= k + 1
    BY <1>1, SMT
  <2> QED
    BY <1>2, <2>1, <2>2, <2>3 DEF CountsMatch
<1> QED
  BY <1>2, <1>3

LEMMA ReceiveTurnStep == IInv /\ ReceiveTurn => IInv'
<1> SUFFICES ASSUME IInv, ReceiveTurn PROVE IInv'
  OBVIOUS
<1> DEFINE k == device.tooth
           end == EndAngle(k)
<1>1. PICK start \in StartAngles(k) :
        /\ ParsePacket(start, end)
        /\ packetCount' = Teeth
        /\ HandOver("turn", scanCount', whole \/ Resets(start, end))
  BY DEF ReceiveTurn
<1> DEFINE w == whole \/ Resets(start, end)
<1>2. /\ ParsedWell(k, Resets(start, end))
      /\ CellsWell(k, Resets(start, end))
  BY <1>1, ParseCounts, ParseCells
<1>3. /\ returned' = [how |-> "turn", whole |-> w, buffer |-> scanBuff]
      /\ count' = scanCount' /\ scanBuff' = Other(scanBuff)
      /\ whole' = (packetCount' = 0) /\ good' = 0
  BY <1>1 DEF HandOver
<1>4. /\ restarts \in 0 .. MaxRestarts
      /\ scanBuff \in {"left", "right"} /\ Other(scanBuff) \in {"left", "right"}
      /\ Other(Other(scanBuff)) = scanBuff /\ w \in BOOLEAN
  BY DEF IInv, TypeOK, Other
<1> HIDE DEF end, w
<1>5. TypeOK'
  <2>1. /\ returned' \in [how : {"nothing", "turn", "undefined", "timeout"},
                          whole : BOOLEAN, buffer : {"left", "right"}]
        /\ scanBuff' \in {"left", "right"} /\ whole' \in BOOLEAN /\ good' \in Nat
    BY <1>3, <1>4
  <2>2. lost' \in 0 .. MaxLoss
    BY <1>2, SMT DEF ParsedWell, TeethAssumption
  <2>3. count' \in Nat
    BY <1>2, <1>3 DEF ParsedWell
  <2> QED
    BY <1>2, <1>4, <2>1, <2>2, <2>3 DEF TypeOK, ParsedWell, CellsWell, BuffersTyped
<1>6. ~whole'
  <2>1. packetCount' # 0
    BY <1>1, SMT DEF TeethAssumption
  <2> QED
    BY <2>1, <1>3
<1>7. CountsMatch'
  BY <1>2, <1>4, <1>6, ParsedMatch
<1>8. GoodRun'
  <2>1. LastTooth' \in ToothNumbers
    BY <1>2 DEF ParsedWell
  <2>2. \A n \in ToothNumbers : ~(0 > 0) /\ ~(0 > n + 1)
    BY SMT DEF ToothNumbers
  <2> QED
    BY <2>1, <2>2, <1>3 DEF GoodRun
<1>9. ReturnedApart'
  <2>1. returned'.buffer = Other(scanBuff')
    BY <1>3, <1>4
  <2>2. ASSUME w, Inside'
        PROVE  /\ count' \in 1 .. Capacity
               /\ Stretch(cells'[scanBuff], count', 0, Teeth - 1, device.turn)
    <3>1. k = Teeth - 1 /\ packetCount' > 0 /\ k - packetCount' + 1 = 0
      <4>1. k \in 0 .. Teeth - 1 /\ packetCount' <= k + 1
        BY <1>2, <2>2 DEF ParsedWell, ToothNumbers, w
      <4> HIDE DEF k
      <4> QED
        BY <4>1, <1>1, SMT DEF TeethAssumption
    <3>2. Stretch(cells'[scanBuff], count', 0, Teeth - 1, device.turn)
      BY <1>2, <1>3, <2>2, <3>1 DEF CellsWell, w
    <3>3. count' \in Nat /\ 0 .. count' - 1 \subseteq 0 .. Capacity - 1 /\ count' > 0
      BY <3>2, <2>2, <1>2, <1>3, <1>4 DEF Stretch, Inside, CellNumbers, ParsedWell
    <3>4. \A n, m \in Nat : n > 0 /\ 0 .. n - 1 \subseteq 0 .. m - 1 => n \in 1 .. m
      <4> SUFFICES ASSUME NEW n \in Nat, NEW m \in Nat, n > 0,
                          0 .. n - 1 \subseteq 0 .. m - 1
                   PROVE  n \in 1 .. m
        OBVIOUS
      <4>1. n - 1 \in 0 .. n - 1
        BY SMT
      <4>2. n - 1 \in 0 .. m - 1
        BY <4>1
      <4> QED
        BY <4>2, SMT
    <3> QED
      BY <3>2, <3>3, <3>4, PointsAssumption
  <2>3. returned'.whole = w /\ returned'.buffer = scanBuff
    BY <1>3
  <2>4. TurnIsWhole'
    <3> SUFFICES ASSUME Inside', w
                 PROVE  LET buffer == cells'[scanBuff]
                        IN  /\ count' \in 1 .. Capacity
                            /\ buffer[0].tooth = 0 /\ buffer[count' - 1].tooth = Teeth - 1
                            /\ \A i \in 0 .. count' - 1 : buffer[i].turn = buffer[0].turn
                            /\ \A i \in 1 .. count' - 1 :
                                 buffer[i].tooth - buffer[i - 1].tooth \in {0, 1}
      BY <2>3 DEF TurnIsWhole
    <3>1. 0 \in 0 .. count' - 1
      BY <2>2, SMT
    <3> QED
      BY <2>2, <3>1 DEF Stretch
  <2> QED
    BY <2>1, <2>4 DEF ReturnedApart
<1> QED
  BY <1>2, <1>5, <1>6, <1>7, <1>8, <1>9 DEF IInv, StoredInOrder, CellsWell

LEMMA ReceivePacketStep == IInv /\ ReceivePacket => IInv'
<1> SUFFICES ASSUME IInv, ReceivePacket PROVE IInv'
  OBVIOUS
<1> DEFINE k == device.tooth
           end == EndAngle(k)
<1>1. PICK start \in StartAngles(k) :
        /\ ParsePacket(start, end)
        /\ packetCount' # Teeth
        /\ whole' = (whole \/ Resets(start, end))
        /\ good' = good + 1
        /\ UNCHANGED <<scanBuff, count, returned>>
  BY DEF ReceivePacket
<1>2. /\ ParsedWell(k, Resets(start, end))
      /\ CellsWell(k, Resets(start, end))
      /\ GoodWell(k)
  BY <1>1, ParseCounts, ParseCells, ParseGood
<1>3. /\ restarts \in 0 .. MaxRestarts
      /\ scanBuff \in {"left", "right"} /\ good \in Nat /\ whole \in BOOLEAN
  BY DEF IInv, TypeOK
<1> HIDE DEF end
<1>4. TypeOK'
  <2>1. lost' \in 0 .. MaxLoss
    BY <1>2, SMT DEF ParsedWell, TeethAssumption
  <2>2. good' \in Nat /\ whole' \in BOOLEAN
    BY <1>1, <1>2, <1>3
  <2>3. /\ count' = count /\ scanBuff' = scanBuff /\ returned' = returned
    BY <1>1
  <2> QED
    BY <1>2, <1>3, <2>1, <2>2, <2>3 DEF IInv, TypeOK, ParsedWell, CellsWell, BuffersTyped
<1>5. CountsMatch' /\ LastTooth' = k /\ lost' = 0 /\ Further'
  BY <1>1, <1>2, <1>3, ParsedMatch
<1>6. StoredInOrder'
  <2> SUFFICES ASSUME whole', packetCount' > 0
               PROVE  /\ Stretch(cells'[scanBuff'], scanCount',
                                 LastTooth' - packetCount' + 1, LastTooth',
                                 cells'[scanBuff'][0].turn)
                      /\ InStep(cells[scanBuff][0].turn)'
    BY DEF StoredInOrder
  <2>1. Stretch(cells'[scanBuff'], scanCount', k - packetCount' + 1, k, device.turn)
    BY <1>1, <1>2 DEF CellsWell
  <2>2. cells'[scanBuff'][0].turn = device.turn
    <3>1. \A n \in Nat : n > 0 => 0 \in 0 .. n - 1
      BY SMT
    <3> QED
      BY <2>1, <3>1, <1>2 DEF Stretch, ParsedWell
  <2>3. InStep(cells[scanBuff][0].turn)'
    <3>1. device'.tooth \in 0 .. Teeth - 1 /\ k \in 0 .. Teeth - 1
      BY <1>2 DEF ParsedWell, Positions, ToothNumbers
    <3>2. \/ device'.turn = device.turn /\ device'.tooth = k + 1
          \/ device'.turn = device.turn + 1 /\ device'.tooth + Teeth = k + 1
      BY <1>2 DEF ParsedWell
    <3>3. k + 0 + 1 = k + 1
      BY <3>1, SMT
    <3> QED
      BY <3>2, <3>3, <1>5, <2>2 DEF InStep
  <2> QED
    BY <2>1, <2>2, <2>3, <1>5
<1>7. GoodRun'
  <2>1. k \in 0 .. Teeth - 1 /\ packetCount' \in Nat
    BY <1>2 DEF ParsedWell, ToothNumbers
  <2>2. good + 1 > k + 1 => packetCount' = k + 1 /\ good + 1 <= Teeth + k + 1
    BY <2>1, <1>2, <1>3, SMT DEF GoodWell
  <2>3. good + 1 > k + 1 => k < Teeth - 1
    BY <2>1, <2>2, <1>1, SMT DEF TeethAssumption
  <2> QED
    BY <2>1, <2>2, <2>3, <1>1, <1>5 DEF GoodRun
<1>8. ReturnedApart'
  <2>1. /\ ReturnedApart /\ returned' = returned
        /\ count' = count /\ scanBuff' = scanBuff
        /\ cells'[Other(scanBuff)] = cells[Other(scanBuff)]
        /\ Inside' => Inside
    BY <1>1, <1>2 DEF IInv, CellsWell
  <2>2. returned.how = "turn" => cells'[returned.buffer] = cells[returned.buffer]
    <3>1. "turn" # "nothing"
      OBVIOUS
    <3> QED
      BY <2>1, <3>1, Zenon DEF ReturnedApart
  <2>3. returned.how # "nothing" => returned'.buffer = Other(scanBuff')
    BY <2>1 DEF ReturnedApart
  <2>4. TurnIsWhole'
    <3> SUFFICES ASSUME Inside', returned.how = "turn", returned.whole
                 PROVE  TurnIsWhole'
      BY <2>1 DEF TurnIsWhole
    <3>1. TurnIsWhole /\ Inside /\ cells'[returned.buffer] = cells[returned.buffer]
      BY <2>1, <2>2 DEF ReturnedApart
    <3> QED
      BY <3>1, <2>1 DEF TurnIsWhole
  <2> QED
    BY <2>1, <2>3, <2>4 DEF ReturnedApart
<1> QED
  BY <1>2, <1>4, <1>5, <1>6, <1>7, <1>8 DEF IInv, CellsWell

LEMMA ReceiveUndefinedStep == IInv /\ ReceiveUndefined => IInv'
<1> SUFFICES ASSUME IInv, ReceiveUndefined PROVE IInv'
  OBVIOUS
<1> DEFINE k == device.tooth
           end == EndAngle(k)
<1>1. PICK start \in StartAngles(k) :
        /\ ParsePacket(start, end)
        /\ packetCount' # Teeth
        /\ \E n \in {count, scanCount'} :
             HandOver("undefined", n, whole \/ Resets(start, end))
  BY DEF ReceiveUndefined
<1> DEFINE w == whole \/ Resets(start, end)
<1>2. /\ ParsedWell(k, Resets(start, end))
      /\ CellsWell(k, Resets(start, end))
  BY <1>1, ParseCounts, ParseCells
<1>3. PICK n \in {count, scanCount'} :
        /\ returned' = [how |-> "undefined", whole |-> w, buffer |-> scanBuff]
        /\ count' = n /\ scanBuff' = Other(scanBuff)
        /\ whole' = (packetCount' = 0) /\ good' = 0
  BY <1>1 DEF HandOver
<1>4. /\ restarts \in 0 .. MaxRestarts /\ count \in Nat
      /\ scanBuff \in {"left", "right"} /\ Other(scanBuff) \in {"left", "right"}
      /\ Other(Other(scanBuff)) = scanBuff /\ w \in BOOLEAN
  BY DEF IInv, TypeOK, Other
<1> HIDE DEF end, w
<1>5. TypeOK'
  <2>1. /\ returned' \in [how : {"nothing", "turn", "undefined", "timeout"},
                          whole : BOOLEAN, buffer : {"left", "right"}]
        /\ scanBuff' \in {"left", "right"} /\ whole' \in BOOLEAN /\ good' \in Nat
    BY <1>3, <1>4
  <2>2. lost' \in 0 .. MaxLoss
    BY <1>2, SMT DEF ParsedWell, TeethAssumption
  <2>3. count' \in Nat
    BY <1>2, <1>3, <1>4 DEF ParsedWell
  <2> QED
    BY <1>2, <1>4, <2>1, <2>2, <2>3 DEF TypeOK, ParsedWell, CellsWell, BuffersTyped
<1>6. CountsMatch'
  <2>1. restarts \in Nat
    BY <1>4
  <2>2. whole' => packetCount' = 0
    BY <1>3
  <2> QED
    BY <1>2, <2>1, <2>2, ParsedMatch
<1>7. StoredInOrder'
  <2>1. packetCount' = 0 => ~(packetCount' > 0)
    OBVIOUS
  <2> QED
    BY <1>3, <2>1 DEF StoredInOrder
<1>8. GoodRun'
  <2>1. LastTooth' \in ToothNumbers
    BY <1>2 DEF ParsedWell
  <2>2. \A m \in ToothNumbers : ~(0 > 0) /\ ~(0 > m + 1)
    BY SMT DEF ToothNumbers
  <2> QED
    BY <2>1, <2>2, <1>3 DEF GoodRun
<1>9. ReturnedApart'
  BY <1>3, <1>4 DEF ReturnedApart, TurnIsWhole
<1> QED
  BY <1>2, <1>5, <1>6, <1>7, <1>8, <1>9 DEF IInv, CellsWell

LEMMA LosePacketStep == IInv /\ LosePacket => IInv'
<1> SUFFICES ASSUME IInv, LosePacket PROVE IInv'
  OBVIOUS
<1> DEFINE k == device.tooth
           l == LastTooth
<1>1. /\ lost < MaxLoss /\ lost' = lost + 1 /\ good' = 0
      /\ packetCount' = packetCount /\ scanCount' = scanCount
      /\ lastStartAngle' = lastStartAngle /\ cells' = cells /\ widest' = widest
      /\ scanBuff' = scanBuff /\ count' = count /\ returned' = returned
      /\ whole' = whole /\ restarts' = restarts /\ LastTooth' = l
  BY DEF LosePacket, parser, LastTooth
<1>2. /\ device \in Positions /\ device.turn \in Nat
      /\ k \in 0 .. Teeth - 1 /\ l \in 0 .. Teeth - 1
      /\ lost \in Nat /\ lost < Teeth - 2
      /\ packetCount \in Nat /\ restarts \in Nat
  <2>1. TypeOK /\ l \in ToothNumbers
    BY LastToothIsTooth DEF IInv
  <2>2. lost \in 0 .. MaxLoss
    BY <2>1 DEF TypeOK
  <2>3. lost \in Nat /\ lost < Teeth - 2
    BY <1>1, <2>2, SMT DEF TeethAssumption
  <2> QED
    BY <2>1, <2>3, SMT DEF TypeOK, Positions, ToothNumbers
<1>3. /\ device' \in Positions
      /\ \/ k < Teeth - 1 /\ device'.turn = device.turn /\ device'.tooth = k + 1
         \/ k = Teeth - 1 /\ device'.turn = device.turn + 1 /\ device'.tooth = 0
  <2>1. CASE k = Teeth - 1
    <3>1. device' = [turn |-> device.turn + 1, tooth |-> 0]
      BY <2>1 DEF LosePacket, TurnHead
    <3> QED
      BY <3>1, <2>1, <1>2, SMT DEF Positions, ToothNumbers, TeethAssumption
  <2>2. CASE k # Teeth - 1
    <3>1. device' = [turn |-> device.turn, tooth |-> k + 1]
      BY <2>2, <1>2 DEF LosePacket, TurnHead, Positions
    <3> QED
      BY <3>1, <2>2, <1>2, SMT DEF Positions, ToothNumbers, TeethAssumption
  <2> QED
    BY <2>1, <2>2
<1> HIDE DEF k, l
<1>4. TypeOK'
  <2>1. good' \in Nat
    BY <1>1, SMT
  <2>2. lost \in 0 .. MaxLoss => lost + 1 \in 0 .. MaxLoss
    BY <1>1, <1>2, SMT DEF TeethAssumption
  <2> QED
    BY <1>1, <1>3, <2>1, <2>2 DEF IInv, TypeOK
<1>5. k = l + lost + 1 => \/ device'.tooth = l + (lost + 1) + 1
                          \/ device'.tooth + Teeth = l + (lost + 1) + 1
  BY <1>2, <1>3, SMT
<1>6. k + Teeth = l + lost + 1 =>
        /\ k < Teeth - 1
        /\ device'.tooth + Teeth = l + (lost + 1) + 1
  BY <1>2, <1>3, SMT
<1>7. CountsMatch'
  <2>1. Further => Further'
    BY <1>1, <1>5, <1>6 DEF Further, k, l
  <2> QED
    BY <2>1, <1>1, <1>2 DEF IInv, CountsMatch, l
<1>8. StoredInOrder'
  <2>1. ASSUME NEW turn \in Nat, InStep(turn)
        PROVE  \/ device'.turn = turn /\ device'.tooth = l + (lost + 1) + 1
               \/ device'.turn = turn + 1 /\ device'.tooth + Teeth = l + (lost + 1) + 1
    <3>1. \/ device.turn = turn /\ k = l + lost + 1
          \/ device.turn = turn + 1 /\ k + Teeth = l + lost + 1
      BY <2>1 DEF InStep, k, l
    <3> QED
      BY <3>1, <1>2, <1>3, SMT
  <2>2. ASSUME whole, packetCount > 0
        PROVE  /\ Stretch(cells[scanBuff], scanCount, l - packetCount + 1, l,
                          cells[scanBuff][0].turn)
               /\ InStep(cells[scanBuff][0].turn)'
    <3>1. /\ Stretch(cells[scanBuff], scanCount, l - packetCount + 1, l,
                     cells[scanBuff][0].turn)
          /\ InStep(cells[scanBuff][0].turn)
      BY <2>2 DEF IInv, StoredInOrder, l
    <3>2. cells[scanBuff][0].turn \in Nat
      <4>1. 0 \in CellNumbers
        BY PointsAssumption, SMT DEF CellNumbers
      <4>2. 0 \in DOMAIN cells[scanBuff] /\ cells[scanBuff][0] \in Positions
        BY <4>1 DEF IInv, TypeOK
      <4> QED
        BY <4>2 DEF Positions
    <3>3. InStep(cells[scanBuff][0].turn)'
      BY <3>1, <3>2, <2>1, <1>1 DEF InStep
    <3> QED
      BY <3>1, <3>3
  <2> QED
    BY <2>2, <1>1 DEF StoredInOrder
<1>9. GoodRun'
  <2>1. ~(0 > 0) /\ ~(0 > l + 1)
    BY <1>2, SMT
  <2> QED
    BY <2>1, <1>1 DEF GoodRun
<1>10. ReturnedApart' /\ NoOverrun'
  BY <1>1 DEF IInv, ReturnedApart, TurnIsWhole, NoOverrun, Inside
<1> QED
  BY <1>4, <1>7, <1>8, <1>9, <1>10 DEF IInv

LEMMA ReceiveTimeoutStep == IInv /\ ReceiveTimeout => IInv'
<1> SUFFICES ASSUME IInv, ReceiveTimeout PROVE IInv'
  OBVIOUS
<1>1. /\ device' = device /\ lost' = lost /\ restarts' = restarts
      /\ packetCount' = packetCount /\ scanCount' = scanCount
      /\ lastStartAngle' = lastStartAngle /\ cells' = cells /\ widest' = widest
      /\ LastTooth' = LastTooth
  BY DEF ReceiveTimeout, stream, parser, LastTooth
<1>2. PICK n \in {count, 0} :
        /\ returned' = [how |-> "timeout", whole |-> whole, buffer |-> scanBuff]
        /\ count' = n /\ scanBuff' = Other(scanBuff)
        /\ whole' = (packetCount = 0) /\ good' = 0
  BY <1>1 DEF ReceiveTimeout, HandOver
<1>3. /\ scanBuff \in {"left", "right"} /\ Other(scanBuff) \in {"left", "right"}
      /\ Other(Other(scanBuff)) = scanBuff /\ whole \in BOOLEAN
      /\ restarts \in 0 .. MaxRestarts /\ count \in Nat
      /\ packetCount \in Nat /\ LastTooth \in 0 .. Teeth - 1
  BY LastToothIsTooth DEF IInv, TypeOK, Other, ToothNumbers
<1>4. TypeOK'
  <2>1. 0 \in Nat
    BY SMT
  <2> QED
    BY <2>1, <1>1, <1>2, <1>3 DEF IInv, TypeOK
<1>5. CountsMatch'
  <2>1. Further' <=> Further
    BY <1>1 DEF Further
  <2>2. packetCount = 0 => packetCount <= LastTooth + 1
    BY <1>3, SMT
  <2> QED
    BY <2>1, <2>2, <1>1, <1>2 DEF IInv, CountsMatch
<1>6. StoredInOrder'
  <2>1. packetCount = 0 => ~(packetCount > 0)
    BY SMT
  <2> QED
    BY <1>1, <1>2, <2>1 DEF StoredInOrder
<1>7. GoodRun'
  <2>1. ~(0 > 0) /\ ~(0 > LastTooth + 1)
    BY <1>3, SMT
  <2> QED
    BY <2>1, <1>1, <1>2 DEF GoodRun
<1>8. ReturnedApart'
  BY <1>2, <1>3 DEF ReturnedApart, TurnIsWhole
<1>9. NoOverrun'
  BY <1>1 DEF IInv, NoOverrun, Inside
<1> QED
  BY <1>4, <1>5, <1>6, <1>7, <1>8, <1>9 DEF IInv

LEMMA RestartStep == IInv /\ Restart => IInv'
<1> SUFFICES ASSUME IInv, Restart PROVE IInv'
  OBVIOUS
<1>1. /\ lost' = 0 /\ restarts' = restarts + 1 /\ restarts < MaxRestarts
      /\ packetCount' = packetCount /\ scanCount' = scanCount
      /\ lastStartAngle' = lastStartAngle /\ cells' = cells /\ widest' = widest
      /\ LastTooth' = LastTooth
      /\ scanBuff' = "right" /\ count' = 0 /\ returned' = Nothing
      /\ whole' = (packetCount = 0) /\ good' = 0
      /\ device' \in [turn : {device.turn + 1}, tooth : ToothNumbers]
  BY DEF Restart, parser, LastTooth
<1>2. /\ restarts \in 0 .. MaxRestarts /\ packetCount \in Nat
      /\ LastTooth \in 0 .. Teeth - 1 /\ device.turn \in Nat
  BY LastToothIsTooth DEF IInv, TypeOK, Positions, ToothNumbers
<1>3. TypeOK'
  <2>1. device.turn + 1 \in Nat
    BY <1>2, SMT
  <2>2. device' \in Positions
    BY <1>1, <2>1 DEF Positions
  <2>3. /\ 0 \in Nat /\ 0 \in 0 .. MaxLoss
        /\ restarts + 1 \in 0 .. MaxRestarts
    BY <1>1, <1>2, SMT DEF TeethAssumption
  <2> QED
    BY <2>2, <2>3, <1>1 DEF IInv, TypeOK, Nothing
<1>4. CountsMatch'
  <2>1. packetCount <= LastTooth + 1 + restarts
    BY DEF IInv, CountsMatch
  <2>2. /\ packetCount <= LastTooth + 1 + (restarts + 1)
        /\ packetCount <= LastTooth + (restarts + 1)
        /\ packetCount = 0 => packetCount <= LastTooth + 1
    BY <2>1, <1>2, SMT
  <2> QED
    BY <2>2, <1>1 DEF IInv, CountsMatch
<1>5. StoredInOrder'
  <2>1. packetCount = 0 => ~(packetCount > 0)
    BY SMT
  <2> QED
    BY <1>1, <2>1 DEF StoredInOrder
<1>6. GoodRun'
  <2>1. ~(0 > 0) /\ ~(0 > LastTooth + 1)
    BY <1>2, SMT
  <2> QED
    BY <2>1, <1>1 DEF GoodRun
<1>7. ReturnedApart'
  BY <1>1 DEF ReturnedApart, TurnIsWhole, Nothing
<1>8. NoOverrun'
  <2> SUFFICES ASSUME widest * (Teeth + (restarts + 1)) <= Capacity
               PROVE  Inside
    BY <1>1 DEF NoOverrun, Inside
  <2>1. /\ widest \in Nat /\ Capacity \in Nat
        /\ Teeth + restarts \in Nat /\ Teeth + (restarts + 1) \in Nat
        /\ Teeth + restarts <= Teeth + (restarts + 1)
    BY <1>2, PointsAssumption, SMT DEF IInv, TypeOK, TeethAssumption
  <2>2. widest * (Teeth + restarts) <= widest * (Teeth + (restarts + 1))
    <3>1. widest <= widest
      BY <2>1, SMT
    <3> QED
      BY <2>1, <3>1, ProductGrows
  <2>3. /\ widest * (Teeth + restarts) \in Nat
        /\ widest * (Teeth + (restarts + 1)) \in Nat
    BY <2>1, SMT
  <2>4. widest * (Teeth + restarts) <= Capacity
    BY <2>1, <2>2, <2>3, SMT
  <2> QED
    BY <2>4 DEF IInv, NoOverrun
<1> QED
  BY <1>3, <1>4, <1>5, <1>6, <1>7, <1>8 DEF IInv

LEMMA NextIInv == IInv /\ [Next]_vars => IInv'
<1> SUFFICES ASSUME IInv, [Next]_vars PROVE IInv'
  OBVIOUS
<1>1. CASE UNCHANGED vars
  BY <1>1 DEF vars, stream, parser, thread, IInv, TypeOK, CountsMatch, Further,
     LastTooth, StoredInOrder, InStep, GoodRun, ReturnedApart, TurnIsWhole, NoOverrun, Inside
<1> QED
  BY <1>1, ReceiveTurnStep, ReceivePacketStep, ReceiveUndefinedStep, LosePacketStep,
     ReceiveTimeoutStep, RestartStep DEF Next

LEMMA AlwaysIInv == Spec => []IInv
  BY InitIInv, NextIInv, PTL DEF Spec

(* The variables stay in their ranges whatever the device sends; how far   *)
(* the points reach behind a buffer, it leaves open.                       *)
THEOREM TypeCorrect == Spec => []TypeOK
<1>1. IInv => TypeOK
  BY DEF IInv
<1> QED
  BY <1>1, AlwaysIInv, PTL

(* The tests of the angles stand in for the test of the buffer's end that  *)
(* _parsePacket() does not make, as far as they can: they bound the        *)
(* packets of a buffer, by a turn and one more for every restart, and with *)
(* them the points, by the widest packet that came.  For packets of up to  *)
(* 2048 / (15 + restarts) points, 136 of them without a restart, nothing   *)
(* is written beside a buffer; for wider ones the theorem says nothing.    *)
THEOREM AnglesBoundTheBuffer == Spec => []NoOverrun
<1>1. IInv => NoOverrun
  BY DEF IInv
<1> QED
  BY <1>1, AlwaysIInv, PTL

(* A turn that is handed over is a turn: the points of every tooth, in     *)
(* order, of one revolution, whichever packets were lost, as long as the   *)
(* points stayed inside the buffers.                                       *)
THEOREM TurnsAreWhole == Spec => []TurnIsWhole
<1>1. IInv => TurnIsWhole
  BY DEF IInv, ReturnedApart
<1> QED
  BY <1>1, AlwaysIInv, PTL

(* Fewer than 2 * Teeth packets in a row go by without a hand-over.        *)
THEOREM ScansKeepComing == Spec => []EveryOtherTurn
<1>1. IInv => EveryOtherTurn
  <2> SUFFICES ASSUME IInv PROVE EveryOtherTurn
    OBVIOUS
  <2>1. /\ LastTooth \in 0 .. Teeth - 1 /\ good \in Nat
        /\ good > LastTooth + 1 => /\ LastTooth < Teeth - 1
                                   /\ good <= Teeth + LastTooth + 1
    BY LastToothIsTooth DEF IInv, TypeOK, GoodRun, ToothNumbers
  <2> QED
    BY <2>1, SMT DEF EveryOtherTurn, TeethAssumption
<1> QED
  BY <1>1, AlwaysIInv, PTL
=============================================================================
