-------------------------- MODULE MC_SandboxPods --------------------------
(***************************************************************************)
(* Instances of SandboxPods for TLC: two calls of one project and one of    *)
(* another.                                                                 *)
(***************************************************************************)
EXTENDS SandboxPods, TLC

CONSTANTS p1, p2, c1, c2, c3

TwoProjects == {p1, p2}
TwoCalls == {c1, c3}
TwoCallsOf == c1 :> p1 @@ c3 :> p2
ThreeCalls == {c1, c2, c3}
ThreeCallsOf == c1 :> p1 @@ c2 :> p1 @@ c3 :> p2
=============================================================================
