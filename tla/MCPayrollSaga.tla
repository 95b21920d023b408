---------------------------- MODULE MCPayrollSaga ----------------------------
(* Instance of PayrollSaga: two records, one unknown id, one bad message.    *)
EXTENDS PayrollSaga

CONSTANTS r1, r2, ghost, blank, l1, l2, p1

=============================================================================
