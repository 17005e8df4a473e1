-------------------------- MODULE MCMessageRouter --------------------------
(* Instances of MessageRouter: two frames of one browser, whose contexts   *)
(* are in one renderer process or in two.                                  *)
EXTENDS MessageRouter, TLC

CONSTANTS c1, c2, b1, p1, p2, h1, h2

Frames == {c1, c2}
OneBrowser == [c \in Frames |-> b1]
OneProcess == [c \in Frames |-> p1]
TwoProcesses == c1 :> p1 @@ c2 :> p2

\* The handlers, and frames in one process, are alike.
HandlerSymmetry == Permutations({h1, h2})
FrameSymmetry == Permutations(Frames) \union HandlerSymmetry
=============================================================================
