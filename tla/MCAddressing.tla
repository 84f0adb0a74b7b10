----------------------------- MODULE MCAddressing -----------------------------
(* Sixteen addresses: the tunnel has 0 to 3, the pool 8 to 11.              *)
EXTENDS Addressing, TLC

P(base, bits) == [base |-> base, bits |-> bits]
AsIs(p) == [real |-> p, virtual |-> None]
As(p, v) == [real |-> p, virtual |-> v]

MCTunnel == P(0, 2)
MCPool == P(8, 2)
MCOwn == (1 :> 1) @@ (2 :> 2)
MCClient == 3

(* Networks the sites have in common, one inside another, one in the pool,     *)
(* one in the tunnel, one too wide for the pool, a list twice the same,       *)
(* prefixes chosen by hand, with host bits set in one of them, and two lists   *)
(* parseAgentRoutes refuses.                                               *)
MCForms ==
  { <<>>,
    <<AsIs(P(4, 3))>>,
    <<AsIs(P(4, 2))>>,
    <<AsIs(P(4, 3)), AsIs(P(4, 2))>>,
    <<AsIs(P(4, 2)), AsIs(P(12, 3))>>,
    <<AsIs(P(8, 3))>>,
    <<AsIs(P(0, 2))>>,
    <<AsIs(P(8, 1))>>,
    <<AsIs(P(4, 4)), AsIs(P(4, 4))>>,
    <<As(P(5, 3), P(11, 3))>>,
    <<As(P(4, 3), P(14, 3)), AsIs(P(14, 3))>>,
    <<As(P(12, 3), P(4, 3))>>,
    <<As(P(4, 3), P(12, 2))>>,
    <<AsIs(P(0, 0))>> }

(* What nobody checks: nothing, the tunnel's own, somebody else's, host bits    *)
(* set, different lengths.                                                 *)
MCPresets ==
  { <<>>,
    <<AsIs(P(0, 2))>>,
    <<AsIs(P(4, 3))>>,
    <<As(P(5, 3), P(11, 3))>>,
    <<As(P(4, 3), P(12, 2))>> }

=============================================================================
