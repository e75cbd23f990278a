-------------------------- MODULE MCReleaseToolchain --------------------------
(***************************************************************************)
(* An instance of ReleaseToolchain for TLC.                                *)
(***************************************************************************)
EXTENDS ReleaseToolchain, TLC

CONSTANTS p2, v1, v2

Plain == [build |-> 0, manifest |-> [version |-> v1, seal |-> {}, breaks |-> None],
          record |-> NoRecord, tree |-> None]
Sealed == [Plain EXCEPT !.manifest.seal = {0},
                        !.record = [about |-> {v1}, breaks |-> None]]

\* One directory for every rule it may break.
NearlyGood ==
    {[Plain EXCEPT !.manifest.breaks = rule] : rule \in ManifestRules \union LoadRules}
    \union {[Sealed EXCEPT !.record.breaks = rule] : rule \in RecordRules}
    \union {[Plain EXCEPT !.tree = rule] : rule \in TreeRules}

\* The first build conforms, and the second one may.
Case(d, downloaded, second) ==
    [directory |-> d, downloaded |-> {[version |-> v, platform |-> p2] : v \in downloaded}, left |-> {},
     conforms |-> [b \in Builds |-> b = 0 \/ second], form |-> "inDirectory"]

\* A good directory beside a package of another platform, of this release or of
\* another one, or of the remains of earlier calls; one packaged under a bare name; the
\* others.
Cases ==
    {Case(Plain, {v1}, TRUE), Case(Plain, {v2}, FALSE),
     [Case(Sealed, {}, TRUE) EXCEPT !.left = Packagers],
     [Case(Sealed, {}, TRUE) EXCEPT !.form = "bare"]}
    \union {Case(d, {}, TRUE) : d \in NearlyGood}
===============================================================================
