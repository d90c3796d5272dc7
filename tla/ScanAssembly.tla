---------------------------- MODULE ScanAssembly ----------------------------
(***************************************************************************)
(* How the scan thread makes a turn of the lidar out of packets:           *)
(* _parsePacket() and _recvScanData().  The head turns past Teeth teeth of *)
(* 24 degrees, and the device sends one packet per tooth with the angle    *)
(* its measurement began and ended at.  Packets get lost, a turn is given  *)
(* up when a packet does not follow the one before it, and a turn is       *)
(* handed over to the clients when Teeth packets have been stored.  The    *)
(* counters and the last angle are static variables: they survive a        *)
(* hand-over, a timeout and the end of the scan thread.                    *)
(*                                                                         *)
(* A cell of a buffer is a point, and holds the tooth it was measured at   *)
(* and the turn it was.  How many points a packet has, its length says; no *)
(* line of the code compares them with the room that is left.              *)
(***************************************************************************)
EXTENDS Integers

CONSTANTS
  Teeth,        (* MAX_TEETH_NUM                                           *)
  Jitters,      (* Degrees after its tooth a measurement can begin.        *)
  ParamLens,    (* What paramLen can be in the packet of a tooth.          *)
  U16,          (* The range of a _u16: 2^16.                              *)
  Capacity,     (* The points of a buffer: 2048.                           *)
  MaxLoss,      (* Assumption: packets lost in a row.                      *)
  MaxTurns,     (* Bound: turns of the head.                               *)
  MaxRestarts   (* Bound: stopScan(), or a failure, and startScan().       *)

ASSUME TeethAssumption ==
  /\ Teeth \in Nat /\ Teeth >= 3
  /\ Jitters \subseteq 0 .. 7
  /\ MaxLoss \in Nat /\ MaxLoss <= Teeth - 2
  /\ MaxTurns \in Nat /\ MaxRestarts \in Nat

(* scanNum: a packet that is too short for its head wraps, to 65533 or so. *)
ScanNum(paramLen) ==
  (IF paramLen >= 7 THEN (paramLen - 7) \div 2 ELSE -((7 - paramLen) \div 2)) % U16

(* A packet has points.  One of 6, 7 or 8 bytes has none, and is counted   *)
(* all the same: its tooth is missing in the turn.                         *)
ASSUME PointsAssumption ==
  /\ Capacity \in Nat \ {0} /\ U16 \in Nat \ {0}
  /\ ParamLens \in [0 .. Teeth - 1 -> SUBSET Nat]
  /\ \A t \in 0 .. Teeth - 1 : \A len \in ParamLens[t] : ScanNum(len) \in Nat \ {0}

VARIABLES
  device,          (* the tooth that comes next, and its turn              *)
  lost,            (* packets lost since the last one that was parsed      *)
  lastStartAngle,  (* static in _parsePacket()                             *)
  packetCount,     (* static in _parsePacket()                             *)
  scanCount,       (* static in _parsePacket()                             *)
  cells,           (* _scan_buff_left and _scan_buff_right                 *)
  scanBuff,        (* the buffer the thread fills                          *)
  count,           (* count in _recvScanDataThreadCallback()               *)
  returned,        (* what the latest _recvScanData() handed over          *)
  restarts,        (* how often the scan thread was started anew           *)
  whole,           (* history: since the counters were reset the thread    *)
                   (* has neither changed its buffer nor been started anew *)
  good,            (* history: packets parsed one after the other since a  *)
                   (* loss, a hand-over or a start                         *)
  widest           (* history: the points of the widest packet that was    *)
                   (* stored                                               *)

stream == <<device, lost>>
parser == <<lastStartAngle, packetCount, scanCount, cells, widest>>
thread == <<scanBuff, count, returned, whole, good>>
vars == <<stream, parser, thread, restarts>>

ToothNumbers == 0 .. Teeth - 1
Positions == [turn : Nat, tooth : ToothNumbers]

CellNumbers == 0 .. Capacity - 1

(* memset() leaves points at angle 0, which no packet measured: the cells  *)
(* hold a turn before the first.                                           *)
Blank == [turn |-> 0, tooth |-> 0]
Nothing == [how |-> "nothing", whole |-> FALSE, buffer |-> "right"]

Other(b) == IF b = "left" THEN "right" ELSE "left"

Init ==
  /\ device \in [turn : {1}, tooth : ToothNumbers]
  /\ lost = 0
  /\ lastStartAngle = 0 /\ packetCount = 0 /\ scanCount = 0
  /\ cells = [b \in {"left", "right"} |-> [i \in CellNumbers |-> Blank]]
  /\ scanBuff = "right" /\ count = 0
  /\ returned = Nothing
  /\ restarts = 0
  /\ whole = TRUE /\ good = 0 /\ widest = 0

-----------------------------------------------------------------------------
(* The device: a packet's measurement starts at its tooth, or a little     *)
(* later, and has ended when the next tooth comes.                         *)
StartAngles(tooth) == {24 * tooth + j : j \in Jitters}
EndAngle(tooth) == 24 * tooth + 24

(* 336 of the source: where the last of 15 teeth begins. *)
LastToothAngle == 24 * (Teeth - 1)

TurnHead ==
  /\ device.turn < MaxTurns
  /\ device' = IF device.tooth = Teeth - 1
                 THEN [turn |-> device.turn + 1, tooth |-> 0]
                 ELSE [device EXCEPT !.tooth = @ + 1]

-----------------------------------------------------------------------------
(* Fault: the test for the first packet of a turn takes < for <=. *)
OpensStrictly(start, end) == start >= 0 /\ end < 24

(* The packet is the first of a turn: the counters are reset. *)
Opens(start, end) == start >= 0 /\ end <= 24

(* Fault: a packet of the next turn passes for a follower. *)
FollowsAnyTurn(start) ==
  IF start < 24
    THEN lastStartAngle >= LastToothAngle
    ELSE start - lastStartAngle <= 40

(* Fault: the angle of the last tooth itself is not accepted. *)
FollowsTooLate(start) ==
  IF start < 24
    THEN lastStartAngle > LastToothAngle
    ELSE start >= lastStartAngle /\ start - lastStartAngle <= 40

(* newPacketFlag: the packet continues what is stored. *)
Follows(start) ==
  IF start < 24
    THEN lastStartAngle >= LastToothAngle
    ELSE start >= lastStartAngle /\ start - lastStartAngle <= 40

Resets(start, end) == Opens(start, end) \/ ~Follows(start)

(* num points of the packet are written from a place of the buffer on.     *)
(* What lies behind the buffer is written as if it were more of it.        *)
Written(buffer, from, num) ==
  [i \in (DOMAIN buffer) \cup (from .. from + num - 1) |->
     IF i \in from .. from + num - 1 THEN device ELSE buffer[i]]

(* A packet that follows is stored behind what is stored. *)
Store(start, end, num) ==
  LET kept(n) == IF Opens(start, end) THEN 0 ELSE n
  IN  /\ Follows(start)
      /\ packetCount' = kept(packetCount) + 1
      /\ scanCount' = kept(scanCount) + num
      /\ cells' = [cells EXCEPT ![scanBuff] = Written(@, kept(scanCount), num)]
      /\ widest' = IF num > widest THEN num ELSE widest

(* Fault: giving a turn up forgets the points that were stored. *)
DiscardPackets(start) ==
  /\ ~Follows(start)
  /\ packetCount' = 0
  /\ UNCHANGED <<scanCount, cells, widest>>

(* A packet that does not follow is dropped with all that was stored. *)
Discard(start) ==
  /\ ~Follows(start)
  /\ packetCount' = 0 /\ scanCount' = 0
  /\ UNCHANGED <<cells, widest>>

(* A packet with the right checksum.  (The angles of one that is too short *)
(* for its head are those the device would have sent.)                     *)
ParsePacket(start, end) ==
  /\ TurnHead
  /\ lost' = 0
  /\ lastStartAngle' = start
  /\ \/ \E paramLen \in ParamLens[device.tooth] : Store(start, end, ScanNum(paramLen))
     \/ Discard(start)
  /\ UNCHANGED restarts

(* _recvScanData() has returned: the thread publishes the buffer with the  *)
(* count it was left with and goes on with the other one.                  *)
HandOver(how, n, isWhole) ==
  /\ returned' = [how |-> how, whole |-> isWhole, buffer |-> scanBuff]
  /\ count' = n
  /\ scanBuff' = Other(scanBuff)
  /\ whole' = (packetCount' = 0)
  /\ good' = 0

(* The packet completes a turn. *)
ReceiveTurn ==
  \E start \in StartAngles(device.tooth) : LET end == EndAngle(device.tooth) IN
    /\ ParsePacket(start, end)
    /\ packetCount' = Teeth
    /\ HandOver("turn", scanCount', whole \/ Resets(start, end))

(* It does not, and _recvScanData() goes on. *)
ReceivePacket ==
  \E start \in StartAngles(device.tooth) : LET end == EndAngle(device.tooth) IN
    /\ ParsePacket(start, end)
    /\ packetCount' # Teeth
    /\ whole' = (whole \/ Resets(start, end))
    /\ good' = good + 1
    /\ UNCHANGED <<scanBuff, count, returned>>

(* It does not, and _parsePacket() ends without a return statement.  What  *)
(* its caller reads can be RESULT_OK, with the count as it was, or as if   *)
(* the turn were complete when the compiler drops the test.                *)
ReceiveUndefined ==
  \E start \in StartAngles(device.tooth) : LET end == EndAngle(device.tooth) IN
    /\ ParsePacket(start, end)
    /\ packetCount' # Teeth
    /\ \E n \in {count, scanCount'} :
         HandOver("undefined", n, whole \/ Resets(start, end))

(* A packet whose checksum is wrong, or that was never framed. *)
LosePacket ==
  /\ lost < MaxLoss
  /\ TurnHead
  /\ lost' = lost + 1
  /\ good' = 0
  /\ UNCHANGED <<parser, scanBuff, count, returned, whole, restarts>>

(* The time is up: _recvPacket() leaves the count as it was, the loop of   *)
(* _recvScanData() clears it.                                              *)
ReceiveTimeout ==
  /\ UNCHANGED <<stream, parser, restarts>>
  /\ \E n \in {count, 0} : HandOver("timeout", n, whole)

(* The scan thread ends, by stopScan() or because the port failed, and a   *)
(* new one begins, at whatever tooth the head has reached.                 *)
Restart ==
  /\ restarts < MaxRestarts
  /\ restarts' = restarts + 1
  /\ device.turn < MaxTurns
  /\ device' \in [turn : {device.turn + 1}, tooth : ToothNumbers]
  /\ lost' = 0
  /\ scanBuff' = "right" /\ count' = 0
  /\ returned' = Nothing
  /\ whole' = (packetCount = 0)
  /\ good' = 0
  /\ UNCHANGED parser

Next ==
  \/ ReceiveTurn
  \/ ReceivePacket
  \/ ReceiveUndefined
  \/ LosePacket
  \/ ReceiveTimeout
  \/ Restart

Spec == Init /\ [][Next]_vars
-----------------------------------------------------------------------------
TypeOK ==
  /\ device \in Positions
  /\ lost \in 0 .. MaxLoss
  /\ lastStartAngle \in 0 .. 24 * Teeth - 1
  /\ packetCount \in 0 .. Teeth + MaxRestarts
  /\ scanCount \in Nat
  /\ DOMAIN cells = {"left", "right"}
  /\ \A b \in {"left", "right"} :
       CellNumbers \subseteq DOMAIN cells[b] /\ cells[b] \in [DOMAIN cells[b] -> Positions]
  /\ scanBuff \in {"left", "right"}
  /\ count \in Nat
  /\ returned \in [how : {"nothing", "turn", "undefined", "timeout"},
                   whole : BOOLEAN, buffer : {"left", "right"}]
  /\ restarts \in 0 .. MaxRestarts
  /\ whole \in BOOLEAN
  /\ good \in Nat
  /\ widest \in Nat

(* No point was written beside a buffer. *)
Inside == \A b \in {"left", "right"} : DOMAIN cells[b] = CellNumbers

(* No packet is written beside the buffer as long as a turn of the widest  *)
(* packets, and one packet for every time the thread was started anew, fit *)
(* into it.  Nothing but the angles bounds the number of packets, and      *)
(* nothing at all the points of one: packets of 137 points, or one that is *)
(* too short for its head, do leave the buffer.                            *)
NoOverrun == widest * (Teeth + restarts) <= Capacity => Inside

(* A buffer that _recvScanData() returned with RESULT_OK because Teeth     *)
(* packets were stored holds the points of every tooth, in order, all from *)
(* the same turn, however many packets were lost before; provided the      *)
(* counters were reset in this buffer and by this thread, and nothing was  *)
(* written beside a buffer.  Where they were not, the first cells hold     *)
(* what an earlier turn left there.                                        *)
TurnIsWhole ==
  Inside /\ returned.how = "turn" /\ returned.whole =>
    LET buffer == cells[returned.buffer]
    IN  /\ count \in 1 .. Capacity
        /\ buffer[0].tooth = 0 /\ buffer[count - 1].tooth = Teeth - 1
        /\ \A i \in 0 .. count - 1 : buffer[i].turn = buffer[0].turn
        /\ \A i \in 1 .. count - 1 : buffer[i].tooth - buffer[i - 1].tooth \in {0, 1}

(* As long as no packet is lost the thread has a scan to hand over at the  *)
(* latest every other turn, wherever the head was when the packets began   *)
(* to come: no legal order of angles makes _parsePacket() give up turn     *)
(* after turn.                                                             *)
EveryOtherTurn == good < 2 * Teeth
=============================================================================
