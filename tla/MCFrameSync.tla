----------------------------- MODULE MCFrameSync -----------------------------
(***************************************************************************)
(* The streams TLC tries: some noise, a frame, some noise, and a frame.    *)
(***************************************************************************)
EXTENDS FrameSync, SequencesExt

(* Nothing, a few bytes, the end or the beginning of a frame, and frames   *)
(* that a byte was changed in: the second flag, the length, the command.   *)
Noises == {<<>>, <<0, FRAME_HEAD2_FLAG>>, <<FRAME_HEAD1_FLAG>>,
           <<FRAME_HEAD1_FLAG, 0, 1, 0, 0, 0, CMD_REPORT_DIST, 0, 0>>,
           <<FRAME_HEAD1_FLAG, FRAME_HEAD2_FLAG, 1, 2>>,
           <<FRAME_HEAD1_FLAG, FRAME_HEAD2_FLAG, 1, 0, 0, 0, 7>>}

(* A frame with these parameters, as the device sends it. *)
Frame(params, sum) ==
  <<FRAME_HEAD1_FLAG, FRAME_HEAD2_FLAG, Len(params), 0, sum, 0, CMD_REPORT_DIST, 0>> \o params

(* Among them some that look like a frame, and some that are too long. *)
Params == {<<>>, <<0, FRAME_HEAD1_FLAG>>,
           Frame(<<0>>, 0), Frame(<<0, 0>>, 0)}

MCStreams ==
  {n1 \o Frame(p1, s) \o n2 \o Frame(p2, 0) :
     n1 \in Noises, p1 \in Params, n2 \in {<<>>, <<0>>}, p2 \in Params, s \in {0, FRAME_HEAD1_FLAG}}
=============================================================================
