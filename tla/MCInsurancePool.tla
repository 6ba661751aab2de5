-------------------------- MODULE MCInsurancePool --------------------------
(* A small pool for TLC: one provider beside the resolver, who may provide as
   well and owns the pool or does not. *)
EXTENDS InsurancePool

MCAmounts == {1, 2}
MCDeficits == {2, 3}

=============================================================================
