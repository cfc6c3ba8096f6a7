----------------------------- MODULE MCPlayback -----------------------------
(* Two clips of different lengths; the second one leads to the first. *)
EXTENDS Playback

CONSTANTS stand, walk

TheAnims  == {stand, walk}
TheLength == [a \in TheAnims |-> IF a = stand THEN 12 ELSE 18]
TheNext   == [a \in TheAnims |-> IF a = stand THEN walk ELSE stand]
TheRanges == {<<3, 17>>}
=============================================================================
