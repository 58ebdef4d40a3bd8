-------------------------- MODULE MCFramePipeline --------------------------
(* Values for TLC.  The sizes: empty ones, one whose rows need no padding   *)
(* and each remainder by four.  The JPEGs: every one of up to three bytes   *)
(* out of four, and longer ones that push set bits through bit 31 of val.   *)
EXTENDS FramePipeline

MCSizes == {<<0, 0>>, <<0, 2>>, <<1, 2>>, <<2, 1>>, <<3, 3>>, <<4, 2>>, <<5, 2>>, <<6, 3>>, <<7, 1>>}

MCJpegs == UNION {[1 .. n -> {0, 107, 216, 255}] : n \in 1 .. 3}
           \cup UNION {[1 .. n -> {107, 216}] : n \in 4 .. 7}
=============================================================================
