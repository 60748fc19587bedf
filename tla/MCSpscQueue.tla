---------------------------- MODULE MCSpscQueue ----------------------------
(* A ring of twelve bytes with positions that wrap after two laps.  The    *)
(* payloads are empty, of one byte, so that a frame may start at any byte  *)
(* of the ring, of the maximum length, which fills it, and one byte longer *)
(* than that.  The bytes make another length if taken for a header.        *)
EXTENDS SpscQueue

MCPayloads == {<<>>, <<3>>, <<2, 0, 0, 0, 1, 0, 0, 0>>,
               <<1, 2, 3, 4, 5, 6, 7, 8, 9>>}
MCLens == {0, 8}
=============================================================================
