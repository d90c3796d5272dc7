------------------------------ MODULE Response ------------------------------
(***************************************************************************)
(* A command and its answer.  _sendCommand() puts a frame together and     *)
(* senddata() writes it to the port, in as many parts as the port takes.   *)
(* _waitforResponse() then reads the port in pieces into a ring, looks in  *)
(* the ring for an answer to the command, and gives up when the time is    *)
(* over.  The ring is not initialised, and the search looks at bytes that  *)
(* have not come yet.                                                      *)
(***************************************************************************)
EXTENDS Integers, Sequences

CONSTANTS
  Calls,     (* The commands: what they send and what they wait for.       *)
  Streams,   (* What the port may deliver while an answer is awaited.      *)
  Stacks,    (* What the ring may hold before anything is stored: Data.    *)
  Ring,      (* sizeof(Data): 512.                                         *)
  MaxLen,    (* The longest answer that is looked for: 100.                *)
  MaxPiece,  (* The most bytes that are in the port when a wait ends.      *)
  Wrap,      (* The range of getms(): 2^32.                                *)
  MaxLag,    (* How much later than asked for a wait may end.              *)
  MaxStall   (* How long a wait holds on to a part of what it waits for.   *)

Byte == 0 .. 255

FRAME_HEAD1_FLAG == 165
FRAME_HEAD2_FLAG == 90
FRAME_ERROR == 128
CMD_READ_DEV_VER == 13

(* x & COMM_MASK *)
Masked(x) == x % 64

(* sizeof(FRAME_T) *)
HeadSize == 8

(* answer is the payloadsize of _waitforResponse(), or none. *)
CallType ==
  [cmd : Byte, payload : Seq(Byte), waits : BOOLEAN, answer : Nat, timeout : Nat]

ASSUME ResponseAssumption ==
  /\ Calls \subseteq CallType
  /\ Streams \subseteq Seq(Byte)
  /\ Ring \in Nat \ {0} /\ MaxLen \in 0 .. 255 /\ MaxPiece \in Nat
  /\ Wrap \in Nat \ {0} /\ MaxLag \in Nat /\ MaxStall \in Nat
  /\ Stacks \subseteq [0 .. Ring - 1 -> Byte]

(* A command word is not 0 and fits the mask. *)
ASSUME CommandAssumption == \A c \in Calls : c.cmd \in 1 .. 63

(* The frame, and the eight bytes behind it that _checksum() adds as well, *)
(* fit commBuf.  The length is tested nowhere; the callers send ten bytes  *)
(* at most.                                                                *)
ASSUME PayloadAssumption == \A c \in Calls : HeadSize + Len(c.payload) + 8 <= 1024

(* Between two looks at the port no more comes than the ring has room for  *)
(* beside a frame that is not complete.  The code does not test this: a    *)
(* longer piece runs over what the search has not done with, and one that  *)
(* is longer still leaves the ring (StoredInside in Response_proof).       *)
ASSUME RoomAssumption == MaxPiece + MaxLen + 1 <= Ring

(* No wait is so long that getms() comes round, in 49 days.  Nothing in    *)
(* the code bounds a wait that holds on to a part.                         *)
ASSUME ClockAssumption == \A c \in Calls : c.timeout + MaxLag + MaxStall < Wrap

VARIABLES
  at,         (* where the call is                                         *)
  call,       (* the command                                               *)
  sent,       (* the bytes of the frame that were written                  *)
  stream,     (* the bytes that come from the port                         *)
  Data,       (* Data                                                      *)
  recvPos,    (* recvPos: bytes that were read from the port               *)
  readPos,    (* readPos: bytes that the search has done with              *)
  ends,       (* history: where the pieces ended                           *)
  clock,      (* getms()                                                   *)
  starttime,  (* starttime                                                 *)
  elapsed,    (* history: how long ago starttime was read                  *)
  stalled,    (* history: how long the latest wait held on to a part       *)
  result,     (* what the call returned                                    *)
  response,   (* _resp_buff: what the answer was copied to                 *)
  info        (* how many bytes getDeviceInfo() copied to its caller       *)

ring == <<stream, Data, recvPos, readPos, ends>>
time == <<clock, starttime, elapsed, stalled>>
vars == <<at, call, sent, ring, time, result, response, info>>

(* The bytes counted from 0. *)
S(p) == stream[p + 1]

-----------------------------------------------------------------------------
(* The frame of a command.                                                 *)

(* A sum of the first n bytes of f, 16 bits wide. *)
CheckSum(f, n) ==
  LET sum[k \in Nat] == IF k = 0 THEN 0 ELSE (sum[k - 1] + f[k - 1]) % 65536
  IN  sum[n]

(* Fault: the buffer is not cleared. *)
CommBufDirty(c) ==
  [i \in 0 .. 1023 |->
     CASE i = 0 -> FRAME_HEAD1_FLAG [] i = 1 -> FRAME_HEAD2_FLAG
       [] i = 2 -> Len(c.payload) % 256 [] i = 3 -> (Len(c.payload) \div 256) % 256
       [] i = 6 -> c.cmd
       [] i \in HeadSize .. HeadSize + Len(c.payload) - 1 -> c.payload[i - HeadSize + 1]
       [] OTHER -> 1]

(* commBuf before the checksum is put in: 1024 bytes, cleared. *)
CommBuf(c) ==
  [i \in 0 .. 1023 |->
     CASE i = 0 -> FRAME_HEAD1_FLAG [] i = 1 -> FRAME_HEAD2_FLAG
       [] i = 2 -> Len(c.payload) % 256 [] i = 3 -> (Len(c.payload) \div 256) % 256
       [] i = 6 -> c.cmd
       [] i \in HeadSize .. HeadSize + Len(c.payload) - 1 -> c.payload[i - HeadSize + 1]
       [] OTHER -> 0]

(* _checksum(): it leaves the checksum's own place out, and goes on for    *)
(* numBytes bytes behind the head although they count the head as well.    *)
CommCheckSum(buf, numBytes) ==
  CheckSum([i \in 0 .. 5 + numBytes |-> buf[IF i < 4 THEN i ELSE i + 2]], 6 + numBytes)

FrameSize(c) == HeadSize + Len(c.payload)

(* What is to be written to the port. *)
Frame(c) ==
  LET buf == CommBuf(c)
      checksum == CommCheckSum(buf, FrameSize(c))
  IN  [i \in 1 .. FrameSize(c) |->
         CASE i = 5 -> checksum % 256 [] i = 6 -> checksum \div 256 [] OTHER -> buf[i - 1]]

-----------------------------------------------------------------------------
(* Time.                                                                   *)

(* getms() a while later. *)
Later(d) == IF clock + d >= Wrap THEN clock + d - Wrap ELSE clock + d

(* getms() - starttime, unsigned. *)
WaitTime == IF clock >= starttime THEN clock - starttime ELSE clock + Wrap - starttime

(* Fault: every wait is given the whole time. *)
RemainingAll == call.timeout

(* timeout - waitTime *)
Remaining == call.timeout - WaitTime

TimeLeft == WaitTime <= call.timeout

Init ==
  /\ at = "idle" /\ call \in Calls /\ sent = 0
  /\ stream = <<>> /\ Data = [i \in 0 .. Ring - 1 |-> 0]
  /\ recvPos = 0 /\ readPos = 0 /\ ends = {}
  /\ clock = 0 /\ starttime = 0 /\ elapsed = 0 /\ stalled = 0
  /\ result = "none"
  /\ response = <<>> /\ info = 0

-----------------------------------------------------------------------------
(* _sendCommand() and senddata().                                          *)

(* The locals of _waitforResponse() do not exist yet, what an earlier      *)
(* answer left in _resp_buff is read by nobody, and what time it is does   *)
(* not matter.                                                             *)
SendCommand ==
  /\ at = "idle"
  /\ call' \in Calls
  /\ sent' = 0
  /\ at' = "sending"
  /\ result' = "none"
  /\ stream' = <<>> /\ Data' = [i \in 0 .. Ring - 1 |-> 0]
  /\ recvPos' = 0 /\ readPos' = 0 /\ ends' = {}
  /\ clock' = 0 /\ starttime' = 0 /\ elapsed' = 0 /\ stalled' = 0
  /\ response' = <<>> /\ info' = 0

(* write() takes a part of what is left. *)
SendSome ==
  /\ at = "sending" /\ sent < FrameSize(call)
  /\ \E k \in 1 .. FrameSize(call) - sent : sent' = sent + k
  /\ UNCHANGED <<at, call, ring, time, result, response, info>>

(* _sendCommand() returns RESULT_OK; startScan() waits for no answer.  A   *)
(* write that failed, or a port that is closed, is not noticed.            *)
Sent ==
  /\ at = "sending"
  /\ ~call.waits
  /\ at' = "idle"
  /\ result' = "OK"
  /\ UNCHANGED <<call, sent, ring, time, response, info>>

(* _waitforResponse() begins: the ring is what it is. *)
WaitForResponse ==
  /\ at = "sending"
  /\ call.waits
  /\ at' = "waiting"
  /\ stream' \in Streams /\ Data' \in Stacks
  /\ recvPos' = 0 /\ readPos' = 0 /\ ends' = {}
  /\ clock' \in 0 .. Wrap - 1 /\ starttime' = clock' /\ elapsed' = 0 /\ stalled' = 0
  /\ UNCHANGED <<call, sent, result, response, info>>

-----------------------------------------------------------------------------
(* _waitforResponse().                                                     *)

Return(r) == at' = "idle" /\ result' = r

RemainSize == HeadSize + call.answer + 2

(* recvdata() of k bytes of the stream, from its byte b, to the places     *)
(* from q on, in the ring or not.                                          *)
Into(data, q, k, b) ==
  [i \in (DOMAIN data) \cup (q .. q + k - 1) |->
     IF i \in q .. q + k - 1 THEN S(b + i - q) ELSE data[i]]

(* Fault: the end of the ring is not looked for. *)
StoredInOne(n) == Into(Data, (recvPos % Ring), n, recvPos)

(* Fault: what does not fit before the end of the ring is lost. *)
StoredAtEnd(n) ==
  LET p == (recvPos % Ring)
  IN  Into(Data, p, IF n > Ring - p THEN Ring - p ELSE n, recvPos)

(* n bytes are read into the ring, in two parts when they reach its end.   *)
(* The second part is as long as it is.                                    *)
Stored(n) ==
  LET p == (recvPos % Ring)
  IN  IF n > Ring - p
        THEN Into(Into(Data, p, Ring - p, recvPos), 0, n - (Ring - p), recvPos + (Ring - p))
        ELSE Into(Data, p, n, recvPos)

TimePasses(d) == clock' = Later(d) /\ elapsed' = elapsed + d /\ UNCHANGED starttime

(* waitfordata() is called, and no later than it was asked for, and the    *)
(* lag, something has happened at the port.                                *)
WaitOnce ==
  /\ at = "waiting" /\ TimeLeft
  /\ \E d \in 0 .. Remaining + MaxLag : TimePasses(d)
  /\ stalled' = 0

(* Some bytes come, and not RemainSize: from here on select() returns at   *)
(* once, and the wait has no end of its own.                               *)
PartComes ==
  /\ WaitOnce
  /\ at' = "stalled"
  /\ UNCHANGED <<call, sent, ring, result, response, info>>

(* Time passes, and the rest does not come. *)
Stall ==
  /\ at = "stalled"
  /\ \E d \in 1 .. MaxStall - stalled : TimePasses(d) /\ stalled' = stalled + d
  /\ UNCHANGED <<at, call, sent, ring, result, response, info>>

(* What else ends a wait, at once or after some of the bytes had come. *)
WaitIsOver == WaitOnce \/ (at = "stalled" /\ UNCHANGED time)

(* The port has RemainSize bytes or more, and all it has is read.          *)
(* (readPos + remainSize > recvPos is never so: the piece alone is that    *)
(* long.)                                                                  *)
WaitForData ==
  /\ WaitIsOver
  /\ \E n \in RemainSize .. MaxPiece :
       /\ recvPos + n <= Len(stream)
       /\ Data' = Stored(n)
       /\ recvPos' = recvPos + n
       /\ ends' = ends \cup {recvPos + n}
  /\ at' = "searching"
  /\ UNCHANGED <<call, sent, stream, readPos, result, response, info>>

(* waitfordata() gives up when nothing came in the time it was given. *)
WaitTimesOut ==
  /\ WaitOnce /\ elapsed' >= elapsed + Remaining
  /\ Return("TIMEOUT")
  /\ UNCHANGED <<call, sent, ring, response, info>>

(* The port fails or is closed. *)
WaitFails ==
  /\ WaitIsOver
  /\ Return("FAIL")
  /\ UNCHANGED <<call, sent, ring, response, info>>

(* The time is over when the search comes back empty-handed. *)
TimeIsUp ==
  /\ at = "waiting" /\ ~TimeLeft
  /\ Return("TIMEOUT")
  /\ UNCHANGED <<call, sent, ring, time, response, info>>

-----------------------------------------------------------------------------
(* The search.                                                             *)

(* The byte of the ring at a distance from readPos. *)
Seen(i) == Data[((readPos + i) % Ring)]

framelen == 256 * Seen(2) + Seen(1)

Searching == at = "searching" /\ readPos < recvPos

(* A frame may begin here. *)
Candidate == Seen(0) = FRAME_HEAD1_FLAG /\ framelen <= MaxLen

(* Fault: the checksum behind the frame is not waited for. *)
CompleteShort == framelen <= recvPos - readPos

(* Fault: one byte more is waited for. *)
CompleteLate == framelen + 2 < recvPos - readPos

(* As far as its length says it is all there. *)
Complete == framelen + 2 <= recvPos - readPos

ForThisCommand == Masked(Seen(4)) = call.cmd

(* Fault: the command is tested before the frame is complete. *)
SkipByteEarly ==
  /\ Searching
  /\ ~Candidate \/ ~ForThisCommand
  /\ readPos' = readPos + 1
  /\ UNCHANGED <<at, call, sent, stream, Data, recvPos, ends, time, result, response, info>>

SkipByte ==
  /\ Searching
  /\ ~Candidate \/ (Complete /\ ~ForThisCommand)
  /\ readPos' = readPos + 1
  /\ UNCHANGED <<at, call, sent, stream, Data, recvPos, ends, time, result, response, info>>

(* The search ends, at the last byte or at a frame that is not complete. *)
WaitForMore ==
  /\ at = "searching"
  /\ readPos = recvPos \/ (readPos < recvPos /\ Candidate /\ ~Complete)
  /\ at' = "waiting"
  /\ UNCHANGED <<call, sent, ring, time, result, response, info>>

(* _cyclechecksum() against the two bytes behind the frame. *)
ChecksumAgrees ==
  CheckSum([i \in 0 .. framelen - 1 |-> Seen(i)], framelen)
    = 256 * Seen(framelen + 1) + Seen(framelen)

(* As many bytes as the caller waits for, however long the frame is. *)
Copied == [i \in 0 .. HeadSize + call.answer - 1 |-> Seen(i)]

(* What the caller makes of the answer: a code of the device, the byte     *)
(* *(response->paramBuff), when response->command has FRAME_ERROR set.     *)
(* IS_OK() holds of every such code.                                       *)
Verdict(r) == IF r[6] >= FRAME_ERROR THEN "CODE" ELSE "OK"

(* What getDeviceInfo() makes of it: response->paramLen bytes are copied   *)
(* to a LIDAR_DEV_INFO_T, whatever paramLen is.  It lies where the search  *)
(* has the high byte of the frame's length, and the byte behind that.      *)
InfoSize(r) ==
  IF call.cmd = CMD_READ_DEV_VER /\ Verdict(r) = "OK" THEN 256 * r[3] + r[2] ELSE 0

Accept ==
  /\ Searching
  /\ Candidate /\ Complete /\ ForThisCommand /\ ChecksumAgrees
  /\ response' = Copied
  /\ Return(Verdict(Copied))
  /\ info' = InfoSize(Copied)
  /\ UNCHANGED <<call, sent, ring, time>>

Reject ==
  /\ Searching
  /\ Candidate /\ Complete /\ ForThisCommand /\ ~ChecksumAgrees
  /\ Return("INVALID")
  /\ UNCHANGED <<call, sent, ring, time, response, info>>

Next ==
  \/ SendCommand \/ SendSome \/ Sent \/ WaitForResponse
  \/ PartComes \/ Stall \/ WaitForData \/ WaitTimesOut \/ WaitFails \/ TimeIsUp
  \/ SkipByte \/ WaitForMore \/ Accept \/ Reject

Spec == Init /\ [][Next]_vars
-----------------------------------------------------------------------------
(* Properties.                                                             *)

Blocks == {256 * b : b \in Byte}

(* Every variable keeps its type: recvdata() writes no byte beside the     *)
(* ring, an answer fits what its caller waits for, and the bytes that      *)
(* getDeviceInfo() copies are none or whole blocks of 256, never the 41 of *)
(* a LIDAR_DEV_INFO_T.                                                     *)
TypeOK ==
  /\ at \in {"idle", "sending", "waiting", "stalled", "searching"}
  /\ call \in Calls
  /\ sent \in 0 .. FrameSize(call)
  /\ stream \in Seq(Byte)
  /\ Data \in [0 .. Ring - 1 -> Byte]
  /\ recvPos \in 0 .. Len(stream) /\ readPos \in 0 .. recvPos
  /\ ends \subseteq 1 .. Len(stream)
  /\ clock \in 0 .. Wrap - 1 /\ starttime \in 0 .. Wrap - 1 /\ elapsed \in Nat
  /\ stalled \in 0 .. MaxStall
  /\ result \in {"none", "OK", "CODE", "INVALID", "TIMEOUT", "FAIL"}
  /\ \/ response = <<>>
     \/ \E c \in Calls : response \in [0 .. HeadSize + c.answer - 1 -> Byte]
  /\ info \in Blocks

(* The frame that is sent is the one the device expects: the length and    *)
(* the payload are the command's, and the checksum is the sum of all other *)
(* bytes of the frame, although _checksum() adds eight bytes too many.     *)
CommandIsFrame ==
  LET f == Frame(call)
      body == SubSeq(f, 1, 4) \o SubSeq(f, 7, Len(f))
  IN  /\ Len(f) = HeadSize + 256 * f[4] + f[3]
      /\ SubSeq(f, HeadSize + 1, Len(f)) = call.payload
      /\ 256 * f[6] + f[5] = CheckSum([i \in 0 .. Len(body) - 1 |-> body[i + 1]], Len(body))

(* The ring holds every byte that the search has not done with, whatever   *)
(* was stored before and wherever the pieces met the end of the ring.      *)
RingHolds == \A i \in readPos .. recvPos - 1 : Data[(i % Ring)] = S(i)

Length(p) == 256 * S(p + 2) + S(p + 1)

(* An answer to the command begins at p and is all there. *)
AnswerAt(p) ==
  /\ p + 4 < Len(stream)
  /\ S(p) = FRAME_HEAD1_FLAG
  /\ Length(p) \in 3 .. MaxLen
  /\ p + Length(p) + 2 <= Len(stream)
  /\ Masked(S(p + 4)) = call.cmd
  /\ CheckSum([i \in 0 .. Length(p) - 1 |-> S(p + i)], Length(p))
       = 256 * S(p + Length(p) + 1) + S(p + Length(p))

Answered == at = "idle" /\ call.waits /\ result \in {"OK", "CODE"}

(* A call that reports an answer has received one to its command, and the  *)
(* caller gets its bytes: although the search tests bytes of the ring that *)
(* have not come yet, what lies there never makes an answer.               *)
AcceptsOnlyAnswers ==
  Answered =>
    /\ AnswerAt(readPos) /\ readPos + Length(readPos) + 2 <= recvPos
    /\ \A i \in 0 .. HeadSize + call.answer - 1 :
         i < Length(readPos) + 2 => response[i] = S(readPos + i)

(* The search is past p, or gave up there. *)
Passed(p) == readPos > p \/ (readPos = p /\ at = "idle" /\ result = "INVALID")

(* An answer is passed over only when a piece ended within its first three *)
(* bytes: the length is looked at before it is there, and what the ring    *)
(* holds in its place decides.                                             *)
AnswersAreSeen ==
  call.waits /\ at # "sending" =>
    \A p \in 0 .. Len(stream) - 1 :
      AnswerAt(p) /\ Passed(p) => p + 1 \in ends \/ p + 2 \in ends

(* A frame begins at q, as far as it has come, and the rest of it has not. *)
Unfinished(q) ==
  S(q) = FRAME_HEAD1_FLAG /\ Length(q) <= MaxLen /\ q + Length(q) + 2 > recvPos

(* A frame to this command begins at q, has come, and is damaged. *)
Damaged(q) ==
  /\ S(q) = FRAME_HEAD1_FLAG /\ Length(q) <= MaxLen /\ q + Length(q) + 2 <= recvPos
  /\ Masked(S(q + 4)) = call.cmd
  /\ CheckSum([i \in 0 .. Length(q) - 1 |-> S(q + i)], Length(q))
       # 256 * S(q + Length(q) + 1) + S(q + Length(q))

(* When a call waits for more, or returns without an answer, and an answer *)
(* to it lies in the ring, then the search stands before the answer and at *)
(* one of two things: at a byte that looks like the beginning of a frame   *)
(* that is not complete, and if the call returns INVALID, at a complete    *)
(* frame to this command with a wrong checksum.  In both cases the code    *)
(* does not look behind it.                                                *)
NoAnswerLeftBehind ==
  LET gaveUp == at = "idle" /\ result \in {"TIMEOUT", "FAIL", "INVALID"}
  IN  call.waits /\ (at \in {"waiting", "stalled"} \/ gaveUp) =>
        \A p \in readPos .. recvPos - 1 :
          AnswerAt(p) /\ p + Length(p) + 2 <= recvPos =>
            /\ readPos < p
            /\ IF gaveUp /\ result = "INVALID" THEN Damaged(readPos) ELSE Unfinished(readPos)

(* A call takes no longer than its timeout, the delay of one wait, and     *)
(* what its last wait held on to a part of the bytes it waits for: no time *)
(* is lost between the waits, however many pieces come, and also when      *)
(* getms() comes round.  How long the last wait holds on, nothing bounds.  *)
ResponseInTime ==
  call.waits /\ at # "sending" => elapsed <= call.timeout + MaxLag + stalled

(* A frame as FRAME_T lays it out, and as _recvPacket() reads it: two      *)
(* flags, the length of the parameters, a checksum of all other bytes, the *)
(* command.                                                                *)
FrameTAt(p) ==
  LET size == HeadSize + 256 * S(p + 3) + S(p + 2)
      other(i) == S(p + (IF i < 4 THEN i ELSE i + 2))
  IN  /\ p + HeadSize <= Len(stream)
      /\ S(p) = FRAME_HEAD1_FLAG /\ S(p + 1) = FRAME_HEAD2_FLAG
      /\ p + size <= Len(stream)
      /\ Masked(S(p + 6)) = call.cmd
      /\ CheckSum([i \in 0 .. size - 3 |-> other(i)], size - 2) = 256 * S(p + 5) + S(p + 4)

(* An answer that is laid out as FRAME_T is not passed over.  The code     *)
(* does not keep this: it looks for the length where the second flag is,   *)
(* and for the command where the checksum is.                              *)
FrameTFound ==
  call.waits /\ at # "sending" => \A p \in 0 .. Len(stream) - 1 : FrameTAt(p) => ~Passed(p)
=============================================================================
