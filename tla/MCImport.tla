------------------------------ MODULE MCImport ------------------------------
(***************************************************************************)
(* Instances of ImportPipeline small enough for TLC.                       *)
(***************************************************************************)
EXTENDS ImportPipeline, TLC

CONSTANTS d1, d2, Crashes, Stalls, Faults, Outages, LostRequests, Rollbacks

\* A file with one deposit, one that repeats it next to another (a genuine
\* same-day duplicate), and one that is not a report.
MCFiles ==
    {[header |-> TRUE, rows |-> (d1 :> 1) @@ (d2 :> 0)],
     [header |-> TRUE, rows |-> (d1 :> 2) @@ (d2 :> 1)],
     [header |-> FALSE, rows |-> (d1 :> 1) @@ (d2 :> 0)]}

\* Pulls of the whole range and of its first day.
MCWindows == {{d1, d2}, {d1}}
MCWholeRange == {{d1, d2}}

MCBudget ==
    [crash |-> Crashes, stall |-> Stalls, fault |-> Faults, outage |-> Outages,
     lostRequest |-> LostRequests, rollback |-> Rollbacks]

Symmetry == Permutations(Batches) \cup Permutations(Workers)

=============================================================================
