---------------------------- MODULE MCMergeCases ----------------------------
(* Window 1 and Skew 2 around Now = 2: 3 lies in the window and in the skew *)
(* of 2, 1 and 3 are further apart than the window, 5 and 6 are clamped.    *)
EXTENDS MergeCases
MCTimes == {Unparsable, 1, 2, 3, 5, 6}
=============================================================================
