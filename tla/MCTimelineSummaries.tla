------------------------ MODULE MCTimelineSummaries ------------------------
(* Instance of TimelineSummaries for TLC: two nodes whose sources switch    *)
(* between two contents, and two jobs.                                      *)
EXTENDS TimelineSummaries, TLC

CONSTANTS n1, n2, a, b, j1, j2

MCNodes == {n1, n2}
MCHashes == {a, b}
MCJobs == {j1, j2}

=============================================================================
