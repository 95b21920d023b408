--------------------------- MODULE MCPayrollOutbox ---------------------------
(* Instance of PayrollOutbox: two replicas, few rows, two attempts per row. *)
EXTENDS PayrollOutbox

CONSTANTS x1, x2, x3, r1, r2

=============================================================================
