----------------------------- MODULE MCScoreRun -----------------------------
(* Two commits that differ in both files, so that a reader can see a mix   *)
(* of the two that belongs to neither.  Three images: a bare development   *)
(* environment, production with a collector, and production whose exporter *)
(* cannot be constructed.                                                  *)
EXTENDS ScoreRun

MCCommits == {"c1", "c2"}
MCSources == <<"python", "typescript">>
MCValues == 0..3
MCTree == [c \in MCCommits |-> IF c = "c1" THEN <<1, 3>> ELSE <<2, 0>>]

Image(production, sdk, traces, generic) ==
    [production |-> production, sdk |-> sdk, traces_endpoint |-> traces,
     generic_endpoint |-> generic, prometheus |-> production]
MCEnvironments ==
    {Image(FALSE, "absent", FALSE, FALSE), Image(TRUE, "ok", TRUE, TRUE),
     Image(TRUE, "broken", FALSE, TRUE)}
=============================================================================
