---------------------------- MODULE MCPayrollBank ----------------------------
(* Instance of PayrollBank: three creates, two of them for one line.        *)
EXTENDS PayrollBank

CONSTANTS c1, c2, c3, s1, s2, s3, a, b

MCLineOf == [c \in Creators |-> IF c = c3 THEN b ELSE a]

=============================================================================
