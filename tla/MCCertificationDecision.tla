------------------------ MODULE MCCertificationDecision ------------------------
(***************************************************************************)
(* An instance of CertificationDecision for TLC: two hosts that share one  *)
(* store, two releases of one issuer.                                      *)
(***************************************************************************)
EXTENDS CertificationDecision, TLC

CONSTANTS i1, r1, r2

BothOfOne == r1 :> i1 @@ r2 :> i1

Key(purpose, until) ==
    [issuer |-> i1, purpose |-> purpose, notBefore |-> 0, notAfter |-> until]

\* The revocation key ends one tick before the certification key.
Keys == {Key("certification", 3), Key("revocation", 2)}

\* Hosts are interchangeable.
HostSymmetry == Permutations(Verifiers)
===============================================================================
