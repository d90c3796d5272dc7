----------------------------- MODULE MCResponse -----------------------------
(***************************************************************************)
(* The commands and streams TLC tries: some bytes, an answer or what looks *)
(* like one, an answer, and some bytes.  The ring is that of the code made *)
(* small: lengths of up to 14 and a ring of 28.                             *)
(***************************************************************************)
EXTENDS Response, SequencesExt

CMD_SET_WORK_MODE == 1

(* stopScan(), getDeviceInfo() and startScan(). *)
MCCalls ==
  {[cmd |-> CMD_SET_WORK_MODE, payload |-> <<0>>, waits |-> TRUE, answer |-> 1, timeout |-> 1],
   [cmd |-> CMD_READ_DEV_VER, payload |-> <<>>, waits |-> TRUE, answer |-> 3, timeout |-> 1],
   [cmd |-> CMD_SET_WORK_MODE, payload |-> <<1>>, waits |-> FALSE, answer |-> 0, timeout |-> 0]}

Zeros(n) == [i \in 1 .. n |-> 0]

(* An answer as the search expects it, with its checksum off by some; more *)
(* is the byte behind the length.                                          *)
Answer(cmd, more, word, params, off) ==
  LET body == <<FRAME_HEAD1_FLAG, HeadSize + Len(params), 0, more, cmd, 0, word, 0>> \o params
      sum == CheckSum([i \in 0 .. Len(body) - 1 |-> body[i + 1]], Len(body)) + off
  IN  body \o <<sum % 256, sum \div 256>>

Status == Answer(64 + CMD_SET_WORK_MODE, 0, 0, <<7>>, 0)
Refused == Answer(64 + CMD_READ_DEV_VER, 0, FRAME_ERROR, <<1, 2, 3>>, 0)
Version == Answer(64 + CMD_READ_DEV_VER, 1, 0, <<1, 2, 3>>, 0)

(* So many that the answer begins around the end of a piece, and what      *)
(* promises more than comes.                                               *)
Noises == {<<>>, <<FRAME_HEAD1_FLAG>>, Zeros(8) \o <<FRAME_HEAD1_FLAG, 14, 0>>,
           Zeros(10), Zeros(12), Answer(CMD_SET_WORK_MODE, 0, 0, <<7>>, 1)}

MCStreams ==
  {n \o a \o Zeros(11) : n \in Noises, a \in {Status, Refused, Status \o Version}}

(* Nothing, and what makes the length too long. *)
MCStacks == {[i \in 0 .. Ring - 1 |-> x] : x \in {0, 255}}

(* An answer as FRAME_T has it, to stopScan(); the sum of its other bytes  *)
(* is 328.                                                                 *)
FrameTStreams ==
  {<<FRAME_HEAD1_FLAG, FRAME_HEAD2_FLAG, 1, 0, 72, 1, 64 + CMD_SET_WORK_MODE, 0, 7>> \o Zeros(2)}

FrameTCalls == {c \in MCCalls : c.waits /\ c.cmd = CMD_SET_WORK_MODE}
=============================================================================
