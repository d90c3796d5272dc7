-------------------------- MODULE FrameSync_proof --------------------------
(***************************************************************************)
(* The properties of FrameSync, proved for every stream of bytes and every *)
(* limit of the parameters.                                                *)
(***************************************************************************)
EXTENDS FrameSync, TLAPS

(* The call is between its beginning and what it has read. *)
InOrder ==
  /\ began + recvPos <= looked
  /\ looked <= read

(* The length is known with its second byte, the command with the seventh. *)
HeadKnown ==
  /\ recvPos < 4 => paramLen = 0
  /\ recvPos >= 4 => paramLen = 256 * scanBuff[3] + scanBuff[2]
  /\ frameDataRcvFlag <=> recvPos >= 7

HeadFits ==
  /\ recvPos > 0 => scanBuff[0] = FRAME_HEAD1_FLAG
  /\ recvPos > 1 => scanBuff[1] = FRAME_HEAD2_FLAG
  /\ recvPos > 6 => scanBuff[6] = CMD_REPORT_DIST

(* scanBuff holds the bytes that were looked at last. *)
Window == \A i \in 0 .. recvPos - 1 : scanBuff[i] = At(looked - recvPos + i)

(* No more was read than what the frame needs. *)
NoneTooMany ==
  /\ result = "receiving" => read - looked <= RemainSize
  /\ result # "OK" /\ recvPos > HeadSize => recvPos < paramLen + HeadSize
  /\ result # "receiving" => looked = read
  /\ result = "OK" => recvPos = paramLen + HeadSize /\ recvPos > HeadSize

(* Nothing before p, since the call began, can be taken for a frame.       *)
Clear(p) == FrameAt(p) /\ \A q \in began .. p - 1 : At(q) # FRAME_HEAD1_FLAG

InStep ==
  \A p \in began .. Len(stream) - 1 : Clear(p) =>
    IF looked <= p THEN recvPos = 0 ELSE looked - recvPos = p

IInv ==
  /\ TypeOK
  /\ InOrder
  /\ HeadKnown
  /\ HeadFits
  /\ Window
  /\ NoneTooMany
  /\ InStep

-----------------------------------------------------------------------------
LEMMA ZeroFits ==
  MaxParam \in Nat /\ 0 \in 0 .. MaxParam /\ 0 \in 0 .. MaxParam + HeadSize
<1>1. \A n \in Nat : 0 \in 0 .. n /\ 0 \in 0 .. n + 8
  BY SMT
<1> QED
  BY <1>1, FrameAssumption DEF FrameAssumption, HeadSize

(* The frame buffer has room for the length field. *)
LEMMA TwoFits == 2 \in 0 .. MaxParam + HeadSize - 1
<1>1. \A n \in Nat : 2 \in 0 .. n + 8 - 1
  BY SMT
<1> QED
  BY <1>1, FrameAssumption DEF FrameAssumption, HeadSize

(* Two bytes make a number.                                                *)
LEMMA WordIsNat == \A lo, hi \in Byte : 256 * hi + lo \in Nat
  BY SMT DEF Byte

(* The byte that the loop looks at, and the room there is for it.          *)
LEMMA NextByte ==
  ASSUME IInv, LookAtByte
  PROVE  /\ At(looked) \in Byte
         /\ recvPos \in Nat /\ paramLen \in Nat /\ looked \in Nat /\ read \in Nat
         /\ began \in Nat /\ MaxParam \in Nat
         /\ recvPos < MaxParam + HeadSize
         /\ RemainSize > 0
         /\ looked + 1 <= read /\ read <= Len(stream)
         /\ Len(stream) \in Nat
         /\ looked' = looked + 1
<1>1. /\ stream \in Seq(Byte) /\ looked \in Nat /\ read \in Nat /\ read <= Len(stream)
      /\ began \in Nat
      /\ recvPos \in Nat /\ paramLen \in 0 .. MaxParam /\ MaxParam \in Nat
      /\ Len(stream) \in Nat
  BY FrameAssumption DEF IInv, TypeOK
<1>2. looked < read /\ looked' = looked + 1 /\ result = "receiving"
  BY DEF LookAtByte
<1>3. At(looked) \in Byte
  BY <1>1, <1>2 DEF At
<1>4. read - looked <= RemainSize
  BY <1>2 DEF IInv, NoneTooMany
<1>5. RemainSize > 0
  BY <1>1, <1>2, <1>4, SMT DEF RemainSize, HeadSize
<1>6. recvPos < MaxParam + HeadSize
  BY <1>1, <1>5, SMT DEF RemainSize, HeadSize
<1> QED
  BY <1>1, <1>2, <1>3, <1>5, <1>6, SMT

(* A byte that does not fit leaves nothing in the window.                  *)
LEMMA SkipStep ==
  ASSUME IInv, LookAtByte, SkipByte(At(looked))
  PROVE  IInv'
<1>1. /\ recvPos' = 0 /\ paramLen' = 0 /\ frameDataRcvFlag' = FALSE
      /\ scanBuff' = scanBuff /\ result' = result /\ result = "receiving"
      /\ stream' = stream /\ read' = read /\ began' = began
      /\ Unfit(At(looked))
  <2>1. recvPos < 2 => paramLen = 0
    BY NextByte, SMT DEF IInv, HeadKnown
  <2> QED
    BY <2>1 DEF SkipByte, BeginAnew, LookAtByte, port
<1>2. TypeOK'
  <2>1. looked' \in 0 .. Len(stream)
    BY NextByte, SMT
  <2> QED
    BY <1>1, <2>1, ZeroFits DEF IInv, TypeOK
<1>3. InOrder'
  BY <1>1, NextByte, SMT DEF IInv, InOrder
<1>4. HeadKnown' /\ HeadFits' /\ Window'
  BY <1>1, SMT DEF HeadKnown, HeadFits, Window
<1>5. NoneTooMany'
  <2>1. read - looked <= RemainSize
    BY <1>1 DEF IInv, NoneTooMany
  <2>2. ~frameDataRcvFlag
    BY <1>1, NextByte, SMT DEF IInv, HeadKnown, Unfit
  <2>3. read - (looked + 1) <= 8
    BY <2>1, <2>2, NextByte, SMT DEF RemainSize, HeadSize
  <2> QED
    BY <1>1, <2>3, NextByte, SMT DEF NoneTooMany, RemainSize, HeadSize
<1>6. InStep'
  <2> SUFFICES ASSUME NEW p \in began .. Len(stream) - 1, Clear(p)'
               PROVE  looked' <= p
    BY <1>1, SMT DEF InStep
  <2>1. Clear(p)
    BY <1>1 DEF Clear, FrameAt, At
  <2>2. p \in Nat /\ (IF looked <= p THEN recvPos = 0 ELSE looked - recvPos = p)
    BY <2>1, NextByte DEF IInv, InStep
  <2>3. ASSUME looked = p PROVE FALSE
    <3>1. recvPos = 0 /\ At(looked) = FRAME_HEAD1_FLAG
      BY <2>1, <2>2, <2>3, SMT DEF Clear, FrameAt
    <3> QED
      BY <3>1, <1>1, SMT DEF Unfit
  <2>4. ASSUME looked > p PROVE FALSE
    <3>1. looked - recvPos = p /\ recvPos > 0
      BY <2>2, <2>4, NextByte, SMT
    <3>2. /\ At(p + 1) = FRAME_HEAD2_FLAG
          /\ At(p + 6) = CMD_REPORT_DIST
          /\ 256 * At(p + 3) + At(p + 2) \in 1 .. MaxParam
      BY <2>1 DEF Clear, FrameAt
    <3>3. recvPos = 1 => At(looked) = FRAME_HEAD2_FLAG
      <4>1. recvPos = 1 => looked = p + 1
        BY <3>1, <2>2, NextByte, SMT
      <4> QED
        BY <4>1, <3>2
    <3>4. recvPos = 6 => At(looked) = CMD_REPORT_DIST
      <4>1. recvPos = 6 => looked = p + 6
        BY <3>1, <2>2, NextByte, SMT
      <4> QED
        BY <4>1, <3>2
    <3>5. recvPos = 3 => ParamLen(At(looked)) <= MaxParam
      <4>1. ASSUME recvPos = 3 PROVE looked = p + 3 /\ looked - recvPos + 2 = p + 2
        BY <4>1, <3>1, <2>2, NextByte, SMT
      <4>2. recvPos = 3 => scanBuff[2] = At(looked - recvPos + 2)
        BY SMT DEF IInv, Window
      <4>3. recvPos = 3 => 256 * At(looked) + scanBuff[2] = 256 * At(p + 3) + At(p + 2)
        BY <4>1, <4>2
      <4> QED
        BY <4>3, <3>2, NextByte, SMT DEF ParamLen
    <3>6. ~(recvPos = 3 /\ ParamLen(At(looked)) > MaxParam)
      <4>1. ASSUME recvPos = 3 PROVE ParamLen(At(looked)) \in Int
        <5>1. scanBuff[2] \in Byte
          BY TwoFits DEF IInv, TypeOK
        <5> QED
          BY <5>1, NextByte, WordIsNat DEF ParamLen
      <4> QED
        BY <4>1, <3>5, NextByte, SMT
    <3> QED
      BY <3>1, <3>3, <3>4, <3>6, <1>1, SMT DEF Unfit
  <2> QED
    BY <2>2, <2>3, <2>4, NextByte, SMT
<1> QED
  BY <1>2, <1>3, <1>4, <1>5, <1>6 DEF IInv

(* A byte that fits joins the window.                                      *)
LEMMA StoreStep ==
  ASSUME IInv, LookAtByte, StoreByte(At(looked))
  PROVE  IInv'
<1> DEFINE b == At(looked)
<1>1. /\ paramLen' = (IF recvPos = 3 THEN ParamLen(b) ELSE paramLen)
      /\ frameDataRcvFlag' = (frameDataRcvFlag \/ recvPos = 6)
      /\ scanBuff' = [scanBuff EXCEPT ![recvPos] = b]
      /\ recvPos' = recvPos + 1
      /\ result' = (IF recvPos' >= paramLen' + HeadSize /\ recvPos' > HeadSize THEN "OK"
                                                                             ELSE result)
      /\ result = "receiving"
      /\ stream' = stream /\ read' = read /\ began' = began
      /\ ~Unfit(b)
  BY DEF StoreByte, LookAtByte, port
<1>2. /\ b \in Byte /\ recvPos \in Nat /\ paramLen \in Nat /\ looked \in Nat /\ read \in Nat
      /\ began \in Nat /\ MaxParam \in Nat
      /\ recvPos < MaxParam + HeadSize /\ RemainSize > 0
      /\ looked + 1 <= read /\ read <= Len(stream) /\ Len(stream) \in Nat
      /\ looked' = looked + 1
  BY NextByte
<1> HIDE DEF b
<1>3. scanBuff \in [0 .. MaxParam + HeadSize - 1 -> Byte]
  BY DEF IInv, TypeOK
<1>4. recvPos \in 0 .. MaxParam + HeadSize - 1
  BY <1>2, SMT DEF HeadSize
<1>5. /\ scanBuff' \in [0 .. MaxParam + HeadSize - 1 -> Byte]
      /\ scanBuff'[recvPos] = b
      /\ \A i \in 0 .. MaxParam + HeadSize - 1 : i # recvPos => scanBuff'[i] = scanBuff[i]
  BY <1>1, <1>2, <1>3, <1>4
<1>6. \A i \in Nat : i < recvPos => scanBuff'[i] = scanBuff[i] /\ scanBuff[i] \in Byte
  <2>1. \A i \in Nat : i < recvPos => i \in 0 .. MaxParam + HeadSize - 1 /\ i # recvPos
    BY <1>2, SMT DEF HeadSize
  <2> QED
    BY <1>3, <1>5, <2>1
<1>7. recvPos = 3 => ParamLen(b) \in 0 .. MaxParam
  <2>1. recvPos = 3 => scanBuff[2] \in Byte
    BY <1>6, SMT
  <2> QED
    <3>1. recvPos = 3 => ParamLen(b) \in Nat
      BY <2>1, <1>2, WordIsNat DEF ParamLen
    <3>2. recvPos = 3 => ~(ParamLen(b) > MaxParam)
      BY <1>1 DEF Unfit
    <3> QED
      BY <3>1, <3>2, <1>2, SMT
<1>8. paramLen' \in 0 .. MaxParam
  BY <1>1, <1>7 DEF IInv, TypeOK
<1>9. frameDataRcvFlag' <=> recvPos' >= 7
  <2>1. frameDataRcvFlag <=> recvPos >= 7
    BY DEF IInv, HeadKnown
  <2>2. recvPos >= 7 \/ recvPos = 6 <=> recvPos + 1 >= 7
    BY <1>2, SMT
  <2> QED
    BY <1>1, <2>1, <2>2
<1>10. TypeOK'
  <2>1. /\ read' \in 0 .. Len(stream) /\ began' \in 0 .. Len(stream)
        /\ stream' \in Seq(Byte)
    BY <1>1 DEF IInv, TypeOK
  <2>2. looked' \in 0 .. Len(stream) /\ recvPos' \in 0 .. MaxParam + HeadSize
    BY <1>1, <1>2, SMT DEF HeadSize
  <2>3. frameDataRcvFlag' \in BOOLEAN
    BY <1>1
  <2>4. result' \in {"none", "receiving", "OK", "TIMEOUT", "FAIL"}
    BY <1>1
  <2> QED
    BY <1>1, <1>5, <1>8, <2>1, <2>2, <2>3, <2>4 DEF TypeOK
<1>11. InOrder'
  BY <1>1, <1>2, SMT DEF IInv, InOrder
<1>12. HeadKnown'
  <2>1. recvPos' < 4 => paramLen' = 0
    BY <1>1, <1>2, SMT DEF IInv, HeadKnown
  <2>2. ASSUME recvPos = 3
        PROVE  paramLen' = 256 * scanBuff'[3] + scanBuff'[2]
    <3>1. scanBuff'[3] = b /\ scanBuff'[2] = scanBuff[2]
      BY <2>2, <1>5, <1>6, SMT
    <3> QED
      BY <1>1, <2>2, <3>1 DEF ParamLen
  <2>3. ASSUME recvPos >= 4
        PROVE  paramLen' = 256 * scanBuff'[3] + scanBuff'[2]
    <3>1. scanBuff'[3] = scanBuff[3] /\ scanBuff'[2] = scanBuff[2]
      BY <2>3, <1>2, <1>6, SMT
    <3>2. paramLen' = paramLen /\ paramLen = 256 * scanBuff[3] + scanBuff[2]
      BY <1>1, <1>2, <2>3, SMT DEF IInv, HeadKnown
    <3> QED
      BY <3>1, <3>2
  <2>4. recvPos' >= 4 => recvPos = 3 \/ recvPos >= 4
    BY <1>1, <1>2, SMT
  <2> QED
    BY <1>9, <2>1, <2>2, <2>3, <2>4 DEF HeadKnown
<1>13. HeadFits'
  <2>1. recvPos' > 0 => scanBuff'[0] = FRAME_HEAD1_FLAG
    <3>1. CASE recvPos = 0
      BY <3>1, <1>1, <1>5 DEF Unfit
    <3>2. CASE recvPos > 0
      BY <3>2, <1>6, SMT DEF IInv, HeadFits
    <3> QED
      BY <3>1, <3>2, <1>2, SMT
  <2>2. recvPos' > 1 => scanBuff'[1] = FRAME_HEAD2_FLAG
    <3>1. CASE recvPos = 1
      BY <3>1, <1>1, <1>5 DEF Unfit
    <3>2. CASE recvPos > 1
      BY <3>2, <1>6, SMT DEF IInv, HeadFits
    <3> QED
      BY <3>1, <3>2, <1>1, <1>2, SMT
  <2>3. recvPos' > 6 => scanBuff'[6] = CMD_REPORT_DIST
    <3>1. CASE recvPos = 6
      BY <3>1, <1>1, <1>5 DEF Unfit
    <3>2. CASE recvPos > 6
      BY <3>2, <1>6, SMT DEF IInv, HeadFits
    <3> QED
      BY <3>1, <3>2, <1>1, <1>2, SMT
  <2> QED
    BY <2>1, <2>2, <2>3 DEF HeadFits
<1>14. Window'
  <2> SUFFICES ASSUME NEW i \in 0 .. recvPos' - 1
               PROVE  scanBuff'[i] = stream'[looked' - recvPos' + i + 1]
    BY DEF Window, At
  <2>1. looked' - recvPos' = looked - recvPos
    BY <1>1, <1>2, SMT
  <2>2. i \in Nat /\ (i < recvPos \/ i = recvPos)
    <3>1. recvPos' - 1 = recvPos
      BY <1>1, <1>2, SMT
    <3> QED
      BY <3>1, <1>2, SMT
  <2>3. CASE i < recvPos
    <3>1. scanBuff'[i] = scanBuff[i] /\ i \in 0 .. recvPos - 1
      BY <2>2, <2>3, <1>2, <1>6, SMT
    <3> QED
      BY <3>1, <2>1, <1>1 DEF IInv, Window, At
  <2>4. CASE i = recvPos
    <3>1. looked - recvPos + i = looked
      BY <2>4, <1>2, SMT
    <3> QED
      BY <3>1, <2>1, <2>4, <1>1, <1>5 DEF At, b
  <2> QED
    BY <2>2, <2>3, <2>4
<1>15. NoneTooMany'
  <2>1. read - looked <= RemainSize
    BY <1>1 DEF IInv, NoneTooMany
  <2>2. (frameDataRcvFlag <=> recvPos >= 7) /\ (recvPos >= 4 => paramLen' = paramLen)
    BY <1>1, <1>2, SMT DEF IInv, HeadKnown
  <2>3. paramLen' \in Nat
    BY <1>8, <1>2, SMT
  <2>4. CASE frameDataRcvFlag
    <3>1. /\ read - looked <= paramLen' + 8 - recvPos /\ recvPos >= 7
          /\ recvPos < paramLen' + 8 /\ frameDataRcvFlag' = TRUE
      <4>1. recvPos >= 7 /\ paramLen' = paramLen /\ frameDataRcvFlag' = TRUE
        <5>1. recvPos >= 7 /\ recvPos >= 4
          BY <2>2, <2>4, <1>2, SMT
        <5> QED
          BY <5>1, <2>2, <2>4, <1>1
      <4>2. RemainSize = paramLen + 8 - recvPos
        BY <2>4 DEF RemainSize, HeadSize
      <4> QED
        BY <4>1, <4>2, <2>1, <2>3, <1>2, SMT
    <3>2. recvPos' >= paramLen' + 8 => looked' = read' /\ recvPos' = paramLen' + 8
      BY <3>1, <2>3, <1>1, <1>2, SMT
    <3>3. read' - looked' <= paramLen' + 8 - recvPos'
      BY <3>1, <2>3, <1>1, <1>2, SMT
    <3> QED
      BY <3>1, <3>2, <3>3, <2>3, <1>1, <1>2, SMT DEF NoneTooMany, RemainSize, HeadSize
  <2>5. CASE ~frameDataRcvFlag
    <3>1. recvPos < 7 /\ read - looked <= 8 - recvPos
      BY <2>1, <2>2, <2>5, <1>2, SMT DEF RemainSize, HeadSize
    <3>2. result' = "receiving" /\ recvPos' <= 7 /\ read' - looked' <= 8 - recvPos'
      BY <3>1, <1>1, <1>2, SMT DEF HeadSize
    <3>3. read' - looked' <= RemainSize'
      BY <3>1, <3>2, <2>3, <1>1, <1>2, SMT DEF RemainSize, HeadSize
    <3> QED
      BY <3>2, <3>3, <2>3, <1>1, <1>2, SMT DEF NoneTooMany, HeadSize
  <2> QED
    BY <2>4, <2>5
<1>16. InStep'
  <2> SUFFICES ASSUME NEW p \in began .. Len(stream) - 1, Clear(p)'
               PROVE  IF looked' <= p THEN recvPos' = 0 ELSE looked' - recvPos' = p
    BY <1>1 DEF InStep
  <2>1. Clear(p)
    BY <1>1 DEF Clear, FrameAt, At
  <2>2. p \in Nat /\ (IF looked <= p THEN recvPos = 0 ELSE looked - recvPos = p)
    BY <2>1, <1>2 DEF IInv, InStep
  <2>3. ASSUME looked < p PROVE FALSE
    <3>1. recvPos = 0
      BY <2>2, <2>3, <1>2, SMT
    <3>2. looked \in began .. p - 1
      BY <2>2, <2>3, <1>2, SMT DEF IInv, InOrder
    <3>3. b # FRAME_HEAD1_FLAG
      BY <2>1, <3>2 DEF Clear, b
    <3> QED
      BY <3>1, <3>3, <1>1 DEF Unfit
  <2>4. looked >= p
    BY <2>2, <2>3, <1>2, SMT
  <2>5. looked - recvPos = p
    BY <2>2, <2>4, <1>2, SMT
  <2> QED
    BY <2>2, <2>5, <2>4, <1>1, <1>2, SMT
<1> QED
  BY <1>10, <1>11, <1>12, <1>13, <1>14, <1>15, <1>16 DEF IInv

-----------------------------------------------------------------------------
(* A call begins, or the port is emptied between two calls.                *)
LEMMA StartStep ==
  ASSUME IInv, Flush \/ RecvPacket
  PROVE  IInv'
<1>1. /\ recvPos' = 0 /\ paramLen' = 0 /\ frameDataRcvFlag' = FALSE
      /\ looked' = read' /\ began' = read'
      /\ stream' = stream /\ scanBuff' = scanBuff
      /\ result' \in {"none", "receiving"}
      /\ read' = read \/ read' \in read .. Len(stream)
  BY DEF Flush, RecvPacket, Start
<1>2. read \in Nat /\ Len(stream) \in Nat /\ MaxParam \in Nat /\ read <= Len(stream)
  BY FrameAssumption, SMT DEF IInv, TypeOK
<1>3. read' \in 0 .. Len(stream)
  BY <1>1, <1>2, SMT
<1>4. TypeOK'
  BY <1>1, <1>3, ZeroFits DEF IInv, TypeOK
<1>5. read' \in Nat
  BY <1>3, SMT
<1>6. InOrder' /\ HeadKnown' /\ HeadFits' /\ Window'
  <2>1. InOrder'
    <3>1. \A n \in Nat : n + 0 <= n /\ n <= n
      BY SMT
    <3> QED
      BY <1>1, <1>5, <3>1 DEF InOrder
  <2>2. HeadKnown' /\ HeadFits'
    BY <1>1, SMT DEF HeadKnown, HeadFits
  <2>3. Window'
    <3>1. 0 .. 0 - 1 = {}
      BY SMT
    <3> QED
      BY <1>1, <3>1 DEF Window
  <2> QED
    BY <2>1, <2>2, <2>3
<1>7. NoneTooMany'
  <2>1. read' - looked' <= 8 - 0 /\ looked' = read'
    <3>1. \A n \in Nat : n - n <= 8 - 0
      BY SMT
    <3> QED
      BY <1>1, <1>5, <3>1
  <2>2. RemainSize' = 8 - 0
    BY <1>1 DEF RemainSize, HeadSize
  <2>3. ~(0 > 8)
    BY SMT
  <2> QED
    BY <1>1, <2>1, <2>2, <2>3 DEF NoneTooMany, HeadSize
<1>8. InStep'
  BY <1>1, <1>5, SMT DEF InStep
<1> QED
  BY <1>4, <1>6, <1>7, <1>8 DEF IInv

(* The port gives what is asked for, or nothing.                           *)
LEMMA ReadStep ==
  ASSUME IInv, WaitForData \/ GiveUp
  PROVE  IInv'
<1>1. /\ stream' = stream /\ began' = began /\ looked' = looked
      /\ scanBuff' = scanBuff /\ recvPos' = recvPos /\ paramLen' = paramLen
      /\ frameDataRcvFlag' = frameDataRcvFlag
      /\ result = "receiving" /\ looked = read
      /\ \/ read' = read + RemainSize /\ read' <= Len(stream) /\ result' = result
         \/ read' = read /\ result' \in {"TIMEOUT", "FAIL"}
  BY DEF WaitForData, GiveUp, port, frame
<1>2. /\ read \in Nat /\ recvPos \in Nat /\ paramLen \in Nat /\ Len(stream) \in Nat
      /\ looked \in Nat /\ began \in Nat
      /\ frameDataRcvFlag \in BOOLEAN
      /\ read <= Len(stream)
  BY FrameAssumption, SMT DEF IInv, TypeOK
<1>3. RemainSize \in Nat
  BY <1>1, <1>2, SMT DEF IInv, HeadKnown, NoneTooMany, RemainSize, HeadSize
<1>4. read' \in 0 .. Len(stream) /\ read <= read'
  BY <1>1, <1>2, <1>3, SMT
<1>5. result' \in {"none", "receiving", "OK", "TIMEOUT", "FAIL"}
  BY <1>1
<1>6. TypeOK'
  BY <1>1, <1>4, <1>5 DEF IInv, TypeOK
<1>7. InOrder'
  BY <1>1, <1>2, <1>4, SMT DEF IInv, InOrder
<1>8. HeadKnown' /\ HeadFits' /\ Window' /\ InStep'
  BY <1>1 DEF IInv, HeadKnown, HeadFits, Window, InStep, Clear, FrameAt, At
<1>9. NoneTooMany'
  <2>1. RemainSize' = RemainSize
    BY <1>1 DEF RemainSize
  <2>2. recvPos > HeadSize => recvPos < paramLen + HeadSize
    BY <1>1, SMT DEF IInv, NoneTooMany
  <2>3. CASE read' = read + RemainSize /\ result' = result
    <3>1. read' - looked' <= RemainSize'
      BY <2>1, <2>3, <1>1, <1>2, <1>3, SMT
    <3> QED
      BY <3>1, <2>2, <2>3, <1>1 DEF NoneTooMany
  <2>4. CASE read' = read /\ result' \in {"TIMEOUT", "FAIL"}
    BY <2>2, <2>4, <1>1 DEF NoneTooMany
  <2> QED
    BY <2>3, <2>4, <1>1
<1> QED
  BY <1>6, <1>7, <1>8, <1>9 DEF IInv

LEMMA InitIInv == Init => IInv
<1> SUFFICES ASSUME Init PROVE IInv
  OBVIOUS
<1>1. stream \in Seq(Byte) /\ MaxParam \in Nat /\ Len(stream) \in Nat
  BY FrameAssumption DEF Init
<1>2. TypeOK
  BY <1>1, SMT DEF Init, TypeOK, HeadSize, Byte
<1>3. InOrder /\ HeadKnown /\ HeadFits
  BY SMT DEF Init, InOrder, HeadKnown, HeadFits
<1>4. Window /\ NoneTooMany
  BY SMT DEF Init, Window, NoneTooMany, HeadSize
<1>5. InStep
  BY <1>1, SMT DEF Init, InStep
<1> QED
  BY <1>2, <1>3, <1>4, <1>5 DEF IInv

LEMMA AlwaysIInv == Spec => []IInv
<1>1. IInv /\ [Next]_vars => IInv'
  <2> SUFFICES ASSUME IInv, [Next]_vars PROVE IInv'
    OBVIOUS
  <2>1. CASE UNCHANGED vars
    BY <2>1 DEF vars, port, frame, IInv, TypeOK, InOrder, HeadKnown, HeadFits, Window,
       NoneTooMany, InStep, Clear, FrameAt, At, RemainSize
  <2>2. CASE LookAtByte
    BY <2>2, SkipStep, StoreStep DEF LookAtByte
  <2> QED
    BY <2>1, <2>2, StartStep, ReadStep DEF Next
<1> QED
  BY <1>1, InitIInv, PTL DEF Spec

-----------------------------------------------------------------------------
(* In particular no write goes beyond a buffer for the longest frame.      *)
THEOREM TypeCorrect == Spec => []TypeOK
<1>1. IInv => TypeOK
  BY DEF IInv
<1> QED
  BY <1>1, AlwaysIInv, PTL

(* _recvPacket() drops no byte that it has read when it returns.           *)
THEOREM BytesAreKept == Spec => []NothingDropped
<1>1. IInv => NothingDropped
  BY DEF IInv, NoneTooMany, NothingDropped
<1> QED
  BY <1>1, AlwaysIInv, PTL

(* What _recvPacket() returns is one frame of the stream.                  *)
THEOREM FramesAreWhole == Spec => []FrameIsWhole
<1>1. IInv => FrameIsWhole
  <2> SUFFICES ASSUME IInv, result = "OK"
               PROVE  LET p == looked - recvPos IN
                        /\ p >= began /\ FrameAt(p) /\ looked = FrameEnd(p)
                        /\ \A i \in 0 .. recvPos - 1 : scanBuff[i] = At(p + i)
    BY DEF FrameIsWhole
  <2> DEFINE p == looked - recvPos
  <2>1. /\ recvPos = paramLen + 8 /\ recvPos > 8 /\ paramLen \in 0 .. MaxParam
        /\ looked \in Nat /\ read \in Nat /\ began \in Nat /\ Len(stream) \in Nat
        /\ MaxParam \in Nat /\ read <= Len(stream) /\ looked = read
    BY FrameAssumption, SMT DEF IInv, TypeOK, NoneTooMany, HeadSize
  <2>2. p \in Nat /\ p >= began /\ looked = p + 8 + paramLen /\ paramLen \in 1 .. MaxParam
    BY <2>1, SMT DEF IInv, InOrder
  <2>3. \A i \in 0 .. recvPos - 1 : scanBuff[i] = At(p + i)
    BY DEF IInv, Window
  <2> HIDE DEF p
  <2>4. /\ scanBuff[0] = At(p) /\ scanBuff[1] = At(p + 1) /\ scanBuff[2] = At(p + 2)
        /\ scanBuff[3] = At(p + 3) /\ scanBuff[6] = At(p + 6)
    <3>1. 0 \in 0 .. recvPos - 1 /\ 1 \in 0 .. recvPos - 1 /\ 2 \in 0 .. recvPos - 1
          /\ 3 \in 0 .. recvPos - 1 /\ 6 \in 0 .. recvPos - 1
      BY <2>1, SMT
    <3>2. p + 0 = p
      BY <2>2, SMT
    <3> QED
      BY <2>3, <3>1, <3>2
  <2>5. /\ At(p) = FRAME_HEAD1_FLAG /\ At(p + 1) = FRAME_HEAD2_FLAG
        /\ At(p + 6) = CMD_REPORT_DIST
        /\ 256 * At(p + 3) + At(p + 2) = paramLen
    <3>1. /\ scanBuff[0] = FRAME_HEAD1_FLAG /\ scanBuff[1] = FRAME_HEAD2_FLAG
          /\ scanBuff[6] = CMD_REPORT_DIST
          /\ 256 * scanBuff[3] + scanBuff[2] = paramLen
      BY <2>1, SMT DEF IInv, HeadFits, HeadKnown
    <3> QED
      BY <3>1, <2>4
  <2>6. p + 8 + paramLen <= Len(stream) /\ p + 8 < Len(stream)
    BY <2>1, <2>2, SMT
  <2>9. At(p + 2) \in Int /\ At(p + 3) \in Int
    <3>1. 2 \in 0 .. MaxParam + 8 - 1 /\ 3 \in 0 .. MaxParam + 8 - 1
      BY <2>1, SMT
    <3>2. scanBuff[2] \in Byte /\ scanBuff[3] \in Byte
      BY <3>1 DEF IInv, TypeOK, HeadSize
    <3>3. \A i \in Byte : i \in Int
      BY SMT DEF Byte
    <3> QED
      BY <3>2, <3>3, <2>4
  <2>7. FrameAt(p)
    <3>1. p + 8 + 256 * At(p + 3) + At(p + 2) = p + 8 + paramLen
      <4> QED
        BY <2>9, <2>5, <2>2, SMT
    <3> QED
      BY <3>1, <2>2, <2>5, <2>6 DEF FrameAt, HeadSize
  <2>8. looked = FrameEnd(p)
    BY <2>9, <2>5, <2>2, SMT DEF FrameEnd, HeadSize
  <2> QED
    BY <2>2, <2>3, <2>7, <2>8 DEF p
<1> QED
  BY <1>1, AlwaysIInv, PTL

(* A frame behind harmless noise, or behind the frame before it, is found. *)
THEOREM StaysInStep == Spec => []NextFrameIsFound
<1>1. IInv => NextFrameIsFound
  <2> SUFFICES ASSUME IInv, NEW p \in began .. Len(stream) - 1, Clear(p)
               PROVE  /\ looked > p => looked - recvPos = p
                      /\ looked <= FrameEnd(p)
                      /\ looked = FrameEnd(p) => result = "OK"
    BY DEF NextFrameIsFound, Clear
  <2>1. /\ looked \in Nat /\ read \in Nat /\ began \in Nat /\ Len(stream) \in Nat /\ p \in Nat
        /\ recvPos \in Nat /\ paramLen \in Nat /\ MaxParam \in Nat
    BY FrameAssumption, SMT DEF IInv, TypeOK
  <2>2. IF looked <= p THEN recvPos = 0 ELSE looked - recvPos = p
    BY DEF IInv, InStep
  <2> DEFINE n == 256 * At(p + 3) + At(p + 2)
  <2>3. n \in 1 .. MaxParam /\ FrameAt(p)
    BY DEF Clear, FrameAt
  <2>4. FrameEnd(p) = p + 8 + n
    <3>1. At(p + 3) \in Int /\ At(p + 2) \in Int
      <4>1. p + 8 < Len(stream)
        BY <2>3 DEF FrameAt, HeadSize
      <4>2. p + 4 \in 1 .. Len(stream) /\ p + 3 \in 1 .. Len(stream)
        BY <4>1, <2>1, SMT
      <4>3. stream \in Seq(Byte)
        BY DEF IInv, TypeOK
      <4>4. stream[p + 4] \in Byte /\ stream[p + 3] \in Byte
        BY <4>2, <4>3
      <4>5. p + 3 + 1 = p + 4 /\ p + 2 + 1 = p + 3
        BY <2>1, SMT
      <4>6. \A i \in Byte : i \in Int
        BY SMT DEF Byte
      <4> QED
        BY <4>4, <4>5, <4>6 DEF At
    <3> QED
      BY <3>1, <2>1, SMT DEF FrameEnd, HeadSize
  <2>5. recvPos >= 4 /\ looked > p => paramLen = n
    <3> SUFFICES ASSUME recvPos >= 4, looked > p PROVE paramLen = n
      OBVIOUS
    <3>1. looked - recvPos = p
      BY <2>1, <2>2, SMT
    <3>2. 2 \in 0 .. recvPos - 1 /\ 3 \in 0 .. recvPos - 1
      BY <2>1, SMT
    <3>3. scanBuff[2] = At(p + 2) /\ scanBuff[3] = At(p + 3)
      BY <3>1, <3>2 DEF IInv, Window
    <3> QED
      BY <3>3 DEF IInv, HeadKnown
  <2> HIDE DEF n
  <2>6. recvPos <= HeadSize \/ recvPos <= paramLen + HeadSize
    BY <2>1, SMT DEF IInv, NoneTooMany, HeadSize, TypeOK
  <2>7. n \in Nat /\ n > 0
    BY <2>3, <2>1, SMT
  <2>8. CASE looked <= p
    BY <2>1, <2>4, <2>7, <2>8, SMT
  <2>9. CASE looked > p
    <3>1. looked - recvPos = p /\ recvPos <= n + 8
      BY <2>1, <2>2, <2>5, <2>6, <2>7, <2>9, SMT DEF HeadSize
    <3>2. looked = p + 8 + n => result = "OK"
      <4> SUFFICES ASSUME looked = p + 8 + n PROVE result = "OK"
        OBVIOUS
      <4>1. recvPos = n + 8 /\ recvPos > 8 /\ paramLen = n
        BY <3>1, <2>1, <2>5, <2>7, <2>9, SMT
      <4>2. ~(n + 8 < n + 8)
        BY <2>7, SMT
      <4>3. ~(recvPos < paramLen + HeadSize)
        BY <4>1, <4>2 DEF HeadSize
      <4> QED
        BY <4>1, <4>3 DEF IInv, NoneTooMany, HeadSize
    <3> QED
      BY <3>1, <3>2, <2>1, <2>4, <2>7, <2>9, SMT
  <2> QED
    BY <2>1, <2>8, <2>9, SMT
<1> QED
  BY <1>1, AlwaysIInv, PTL
=============================================================================
