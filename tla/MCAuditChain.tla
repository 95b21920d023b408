---------------------------- MODULE MCAuditChain ----------------------------
(* Instance of AuditChain: eraser x forgets the author of a and c.        *)
EXTENDS AuditChain

CONSTANTS a, b, c, d, x, v

MCSubject == [e \in Erasers |-> {a, c}]

=============================================================================
