--------------------------- MODULE MCJobTreeWait ----------------------------
(***************************************************************************)
(* Two synchronous requests: a pipeline of two steps and a single job.     *)
(***************************************************************************)
EXTENDS JobTreeWait, TLC

CONSTANTS r1, r2, j1, s1

MCParent == r1 :> NoJob @@ r2 :> NoJob @@ j1 :> r1

\* Two requests for one slot; one request disturbed by a retry, a cancel or a
\* write that fails; and a stream on requests that do not wait.
MCScenarios ==
    {[online |-> {}, requests |-> {r1, r2}, async |-> {}, events |-> 0],
     [online |-> {}, requests |-> {r1}, async |-> {}, events |-> 2],
     [online |-> {s1}, requests |-> {r1, r2}, async |-> {r1, r2}, events |-> 0]}
=============================================================================
