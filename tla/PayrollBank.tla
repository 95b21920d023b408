----------------------------- MODULE PayrollBank -----------------------------
(***************************************************************************)
(* Direct deposits of payroll-java-service: createBankTransaction and      *)
(* processBankTransaction as concurrent transactions.  A create looks its  *)
(* deterministic reference up and inserts; the unique index on (tenant,    *)
(* reference) orders the inserts.  A settle locks the row, reads its       *)
(* status under the lock and moves PENDING to PROCESSED.  A transfer is    *)
(* named after the create call that inserted it.                           *)
(***************************************************************************)
EXTENDS Naturals, FiniteSets

CONSTANTS Creators,  \* calls of createBankTransaction
          Settlers,  \* calls of processBankTransaction
          Lines,     \* payroll lines: a payroll id and its employee
          LineOf,    \* LineOf[c]: the line create call c is about
          Nobody     \* no transfer

ASSUME BankAssumption ==
  /\ LineOf \in [Creators -> Lines]
  /\ Creators \intersect Settlers = {}
  /\ Nobody \notin Creators \union Settlers

VARIABLES
  at,         \* where each call is
  transfers,  \* committed rows of bank_transactions
  inserted,   \* inserted, uncommitted rows
  status,     \* committed status of each transfer
  moved,      \* moved[t]: times t went from PENDING to PROCESSED
  answer,     \* answer[c]: transfer a call works on or returned
  lockedBy    \* lockedBy[t]: settle call holding the lock of row t, if any

bankVars == <<at, transfers, inserted, status, moved, answer, lockedBy>>

Calls == Creators \union Settlers
MoveTo(x, l) == at' = [at EXCEPT ![x] = l]
SameReference(c, d) == LineOf[c] = LineOf[d]

BankInit ==
  /\ at = [x \in Calls |-> "start"]
  /\ transfers = {} /\ inserted = {}
  /\ status = [t \in Creators |-> "PENDING"]
  /\ moved = [t \in Creators |-> 0]
  /\ answer = [x \in Calls |-> Nobody]
  /\ lockedBy = [t \in Creators |-> Nobody]

\* findByTenantIdAndReference: a committed transfer of the line is returned.
FindTransfer(c) ==
  /\ at[c] = "start"
  /\ \/ \E t \in transfers :
           /\ SameReference(c, t)
           /\ answer' = [answer EXCEPT ![c] = t]
           /\ MoveTo(c, "answered")
     \/ /\ \A t \in transfers : ~SameReference(c, t)
        /\ MoveTo(c, "insert")
        /\ UNCHANGED answer
  /\ UNCHANGED <<transfers, inserted, status, moved, lockedBy>>

\* Mutant of ReferenceTaken: a reference with a clock stamp never collides.
ClockedReference(c, S) == FALSE

ReferenceTaken(c, S) == \E t \in S : SameReference(c, t)

\* The insert waits for an uncommitted rival; a committed one is an error
\* that nobody catches.
InsertTransfer(c) ==
  /\ at[c] = "insert"
  /\ ~ReferenceTaken(c, inserted)
  /\ IF ReferenceTaken(c, transfers)
       THEN MoveTo(c, "error") /\ UNCHANGED inserted
       ELSE MoveTo(c, "commit") /\ inserted' = inserted \union {c}
  /\ UNCHANGED <<transfers, status, moved, answer, lockedBy>>

CommitTransfer(c) ==
  /\ at[c] = "commit"
  /\ inserted' = inserted \ {c}
  /\ transfers' = transfers \union {c}
  /\ answer' = [answer EXCEPT ![c] = c]
  /\ MoveTo(c, "answered")
  /\ UNCHANGED <<status, moved, lockedBy>>

\* Mutant of RowFree: findByIdAndTenantId without the lock mode.
NoLockMode(t) == TRUE

RowFree(t) == lockedBy[t] = Nobody

Replay(t) == status[t] = "PROCESSED"

\* findByIdAndTenantIdForUpdate, and the status it reads under the lock.
LockTransfer(s, t) ==
  /\ at[s] = "start"
  /\ t \in transfers
  /\ RowFree(t)
  /\ answer' = [answer EXCEPT ![s] = t]
  /\ IF Replay(t)
       THEN UNCHANGED lockedBy /\ MoveTo(s, "answered")
       ELSE lockedBy' = [lockedBy EXCEPT ![t] = s] /\ MoveTo(s, "settle")
  /\ UNCHANGED <<transfers, inserted, status, moved>>

\* PENDING to PROCESSED, committed; the lock goes with the transaction.
Settle(s) ==
  /\ at[s] = "settle"
  /\ status' = [status EXCEPT ![answer[s]] = "PROCESSED"]
  /\ moved' = [moved EXCEPT ![answer[s]] = @ + 1]
  /\ lockedBy' = [lockedBy EXCEPT ![answer[s]] = Nobody]
  /\ MoveTo(s, "answered")
  /\ UNCHANGED <<transfers, inserted, answer>>

\* A call dies or its commit fails: rollback, locks and rows released.
Die(x) ==
  /\ at[x] \in {"insert", "commit", "settle"}
  /\ inserted' = inserted \ {x}
  /\ lockedBy' = [t \in Creators |-> IF lockedBy[t] = x THEN Nobody ELSE lockedBy[t]]
  /\ MoveTo(x, "error")
  /\ UNCHANGED <<transfers, status, moved, answer>>

BankNext ==
  \/ \E c \in Creators : FindTransfer(c) \/ InsertTransfer(c) \/ CommitTransfer(c)
  \/ \E s \in Settlers : Settle(s) \/ \E t \in Creators : LockTransfer(s, t)
  \/ \E x \in Calls : Die(x)

BankSpec == BankInit /\ [][BankNext]_bankVars

-----------------------------------------------------------------------------
BankTypeOK ==
  /\ at \in [Calls -> {"start", "insert", "commit", "settle", "answered", "error"}]
  /\ transfers \subseteq Creators /\ inserted \subseteq Creators
  /\ status \in [Creators -> {"PENDING", "PROCESSED"}]
  /\ moved \in [Creators -> Nat]
  /\ answer \in [Calls -> Creators \union {Nobody}]
  /\ lockedBy \in [Creators -> Settlers \union {Nobody}]
  /\ inserted = {c \in Creators : at[c] = "commit"}
  /\ \A s \in Settlers : at[s] = "settle" => lockedBy[answer[s]] = s

\* The money of a payroll line moves at most once, over all transfers made
\* for the line and all concurrent or replayed settles of them
\* (createBankTransaction's reference and processBankTransaction's lock).
LinePaidOnce ==
  \A c, d \in Creators :
     SameReference(c, d) /\ moved[c] > 0 /\ moved[d] > 0 => c = d /\ moved[c] = 1

\* Every create call for a line that is answered is answered with the same
\* transfer (comment in createBankTransaction).
RetriesAgree ==
  \A c, d \in Creators :
     /\ at[c] = "answered" /\ at[d] = "answered" /\ SameReference(c, d)
     => answer[c] = answer[d] /\ answer[c] \in transfers

Deposits == INSTANCE DepositContract
              WITH opened <- transfers, paid <- moved,
                   told <- [c \in Creators |-> IF at[c] = "answered" THEN answer[c] ELSE Nobody]

\* The calls implement the contract of deposits: whatever is looked up,
\* inserted, rolled back and repeated, a line has one transfer, paid once.
ImplementsDeposits == Deposits!Spec

=============================================================================
