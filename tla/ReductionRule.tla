----------------------------- MODULE ReductionRule -----------------------------
(***************************************************************************)
(* The 20 percent rule, which the workbench and the certification pipeline *)
(* each compute.  parse_optimize_response rejects a reply in the host's    *)
(* exchange; bench then reports its byte counts, and validate_benchmark    *)
(* checks the report again before it becomes certification evidence.       *)
(* Both compare a fixed multiple of two lengths that the frame and fixture *)
(* limits keep far from overflow.                                          *)
(***************************************************************************)
EXTENDS Naturals

\* Fault: the factors are swapped.
SwappedFactors(raw, content) == content * 80 < raw * 100

\* The test of parse_optimize_response: empty content, then the reduction.
HostAccepts(raw, content) == content # 0 /\ content * 100 < raw * 80

\* The tests of validate_benchmark_report on the sizes of an optimize case.
CaseIsValid(raw, content) ==
    /\ raw # 0 /\ content <= raw
    /\ content # 0 /\ content * 100 <= raw * 80
===============================================================================
