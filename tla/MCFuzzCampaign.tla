---------------------------- MODULE MCFuzzCampaign ----------------------------
(***************************************************************************)
(* The corpus of FuzzCampaign's runs: one case of each class.              *)
(***************************************************************************)
EXTENDS FuzzCampaign

AlternatingCorpus == <<"malformed", "valid">>
===============================================================================
