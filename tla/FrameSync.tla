------------------------------ MODULE FrameSync ------------------------------
(***************************************************************************)
(* _recvPacket(): the hunt for a frame in the bytes of the port.  A frame  *)
(* is a head of eight bytes, two flags, the length of the parameters, a    *)
(* checksum and a command, and the parameters.  The function never asks    *)
(* the port for more than the frame still needs, looks at what it got byte *)
(* by byte, and begins anew where a byte does not fit.  It keeps nothing   *)
(* from one call to the next but what it left unread in the port.          *)
(***************************************************************************)
EXTENDS Integers, Sequences

CONSTANTS
  Streams,     (* What the port may deliver from startScan() on.           *)
  MaxParam     (* The longest parameters that are accepted: 300.           *)

Byte == 0 .. 255

ASSUME FrameAssumption ==
  /\ Streams \subseteq Seq(Byte)
  /\ MaxParam \in Nat

FRAME_HEAD1_FLAG == 165
FRAME_HEAD2_FLAG == 90
CMD_REPORT_DIST == 9

(* sizeof(FRAME_T) *)
HeadSize == 8

VARIABLES
  stream,            (* the bytes of this session                          *)
  read,              (* how many were read from the port                   *)
  looked,            (* how many of them the loop has looked at            *)
  began,             (* where the latest call began                        *)
  scanBuff,          (* scanBuff                                           *)
  recvPos,           (* recvPos: bytes in scanBuff                         *)
  paramLen,          (* paramLen                                           *)
  frameDataRcvFlag,  (* frameDataRcvFlag                                   *)
  result             (* what the call returned, or that it goes on         *)

port == <<stream, read, began>>
frame == <<scanBuff, recvPos, paramLen, frameDataRcvFlag>>
vars == <<port, looked, frame, result>>

(* The bytes counted from 0. *)
At(p) == stream[p + 1]

(* Fault: the position outlives the call. *)
StartStale ==
  /\ paramLen' = 0 /\ frameDataRcvFlag' = FALSE
  /\ UNCHANGED recvPos

Start ==
  /\ recvPos' = 0 /\ paramLen' = 0 /\ frameDataRcvFlag' = FALSE

Init ==
  /\ stream \in Streams
  /\ read = 0 /\ looked = 0 /\ began = 0
  /\ scanBuff = [i \in 0 .. MaxParam + HeadSize - 1 |-> 0]
  /\ recvPos = 0 /\ paramLen = 0 /\ frameDataRcvFlag = FALSE
  /\ result = "none"

-----------------------------------------------------------------------------
(* startScan() discards what is in the port. *)
Flush ==
  /\ result # "receiving"
  /\ \E p \in read .. Len(stream) : read' = p /\ looked' = p /\ began' = p
  /\ Start
  /\ result' = "none"
  /\ UNCHANGED <<stream, scanBuff>>

(* A call begins.  Bytes that the last one read and did not look at are    *)
(* gone.                                                                   *)
RecvPacket ==
  /\ result # "receiving"
  /\ looked' = read /\ began' = read
  /\ Start
  /\ result' = "receiving"
  /\ UNCHANGED <<stream, read, scanBuff>>

(* Fault: the head of the frame is waited for once more. *)
FrameSize ==
  IF frameDataRcvFlag THEN paramLen + HeadSize - recvPos ELSE HeadSize

(* The bytes that the frame still needs. *)
RemainSize ==
  IF frameDataRcvFlag THEN paramLen + HeadSize - recvPos ELSE HeadSize - recvPos

(* waitfordata() and recvdata(): all of them have come. *)
WaitForData ==
  /\ result = "receiving" /\ looked = read
  /\ read + RemainSize <= Len(stream)
  /\ read' = read + RemainSize
  /\ UNCHANGED <<stream, began, looked, frame, result>>

(* They have not come when the time is up, or the port fails. *)
GiveUp ==
  /\ result = "receiving" /\ looked = read
  /\ result' \in {"TIMEOUT", "FAIL"}
  /\ UNCHANGED <<port, looked, frame>>

-----------------------------------------------------------------------------
(* Byte b of the loop.                                                     *)

ParamLen(b) == 256 * b + scanBuff[2]

(* Fault: parameters may be one byte longer than the buffer is made for. *)
UnfitTooLong(b) ==
  \/ recvPos = 0 /\ b # FRAME_HEAD1_FLAG
  \/ recvPos = 1 /\ b # FRAME_HEAD2_FLAG
  \/ recvPos = 3 /\ ParamLen(b) > MaxParam + 1
  \/ recvPos = 6 /\ b # CMD_REPORT_DIST

(* Fault: the second flag is not tested. *)
UnfitOneFlag(b) ==
  \/ recvPos = 0 /\ b # FRAME_HEAD1_FLAG
  \/ recvPos = 3 /\ ParamLen(b) > MaxParam
  \/ recvPos = 6 /\ b # CMD_REPORT_DIST

Unfit(b) ==
  \/ recvPos = 0 /\ b # FRAME_HEAD1_FLAG
  \/ recvPos = 1 /\ b # FRAME_HEAD2_FLAG
  \/ recvPos = 3 /\ ParamLen(b) > MaxParam
  \/ recvPos = 6 /\ b # CMD_REPORT_DIST

(* A byte that does not fit: the hunt begins anew, behind it. *)
BeginAnew ==
  /\ recvPos' = 0 /\ frameDataRcvFlag' = FALSE
  /\ paramLen' = IF recvPos < 2 THEN paramLen ELSE 0

SkipByte(b) ==
  /\ Unfit(b)
  /\ BeginAnew
  /\ UNCHANGED <<scanBuff, result>>

(* A byte that fits is stored; the frame may be complete. *)
StoreByte(b) ==
  /\ ~Unfit(b)
  /\ paramLen' = IF recvPos = 3 THEN ParamLen(b) ELSE paramLen
  /\ frameDataRcvFlag' = (frameDataRcvFlag \/ recvPos = 6)
  /\ scanBuff' = [scanBuff EXCEPT ![recvPos] = b]
  /\ recvPos' = recvPos + 1
  /\ result' = IF recvPos' >= paramLen' + HeadSize /\ recvPos' > HeadSize THEN "OK" ELSE result

LookAtByte ==
  /\ result = "receiving" /\ looked < read
  /\ looked' = looked + 1
  /\ SkipByte(At(looked)) \/ StoreByte(At(looked))
  /\ UNCHANGED port

Next == Flush \/ RecvPacket \/ WaitForData \/ GiveUp \/ LookAtByte

Spec == Init /\ [][Next]_vars
-----------------------------------------------------------------------------
TypeOK ==
  /\ stream \in Seq(Byte)
  /\ read \in 0 .. Len(stream) /\ looked \in 0 .. Len(stream) /\ began \in 0 .. Len(stream)
  /\ scanBuff \in [0 .. MaxParam + HeadSize - 1 -> Byte]
  /\ recvPos \in 0 .. MaxParam + HeadSize
  /\ paramLen \in 0 .. MaxParam
  /\ frameDataRcvFlag \in BOOLEAN
  /\ result \in {"none", "receiving", "OK", "TIMEOUT", "FAIL"}

(* A frame of the device with parameters begins at p and is all there. *)
FrameAt(p) ==
  /\ p + HeadSize < Len(stream)
  /\ At(p) = FRAME_HEAD1_FLAG /\ At(p + 1) = FRAME_HEAD2_FLAG
  /\ 256 * At(p + 3) + At(p + 2) \in 1 .. MaxParam
  /\ At(p + 6) = CMD_REPORT_DIST
  /\ p + HeadSize + 256 * At(p + 3) + At(p + 2) <= Len(stream)

FrameEnd(p) == p + HeadSize + 256 * At(p + 3) + At(p + 2)

(* What is returned with RESULT_OK is one frame: bytes that followed each  *)
(* other in the stream, as many as its length says, however often the hunt *)
(* began anew before, wherever the pieces that were read ended, and        *)
(* whatever the buffer held from an earlier call.                          *)
FrameIsWhole ==
  result = "OK" =>
    LET p == looked - recvPos IN
      /\ p >= began /\ FrameAt(p) /\ looked = FrameEnd(p)
      /\ \A i \in 0 .. recvPos - 1 : scanBuff[i] = At(p + i)

(* A call that returns has looked at all it has read: the return in the    *)
(* middle of the loop never drops the beginning of the next frame.         *)
NothingDropped == result # "receiving" => looked = read

(* A frame in front of which the call finds nothing that could be the      *)
(* first byte of a head is found, and the call returns with it: after one  *)
(* frame the next is found that follows it, or follows such noise, and     *)
(* parameters that look like heads do not bring the hunt out of step.      *)
NextFrameIsFound ==
  \A p \in began .. Len(stream) - 1 :
    FrameAt(p) /\ (\A q \in began .. p - 1 : At(q) # FRAME_HEAD1_FLAG) =>
      /\ looked > p => looked - recvPos = p
      /\ looked <= FrameEnd(p)
      /\ looked = FrameEnd(p) => result = "OK"
=============================================================================
