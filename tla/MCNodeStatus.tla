---------------------------- MODULE MCNodeStatus ----------------------------
(* The board and another one, which may fall silent at any time.           *)
EXTENDS NodeStatus

CONSTANTS a

MCNode == {Self, a}
=============================================================================
