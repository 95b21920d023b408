---------------------------- MODULE MCPayrollRun ----------------------------
(* Instance of PayrollRun.  Runs whose names differ in the last letter only *)
(* compete for the same employee-period; b2 is the second employee of the   *)
(* batch whose first employee is b1.                                        *)
EXTENDS PayrollRun

CONSTANTS e1, e2, p1, p2, b1, b2, k1, k2, batch

MCKeyOf == [r \in Runs |-> IF r = b2 THEN k2 ELSE k1]
MCBatchOf == [r \in Batched |-> batch]
MCRank == [r \in Batched |-> IF r = b1 THEN 1 ELSE 2]

=============================================================================
