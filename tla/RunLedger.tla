------------------------------ MODULE RunLedger ------------------------------
(***************************************************************************)
(* What dbo.collection_run promises its readers, without connections,      *)
(* transactions or processes.  A row is opened as "running" for a batch of *)
(* rows to be landed; data lands only under an open row; the row is closed *)
(* once: as "success" when the whole batch has landed, as "failed" when    *)
(* some of it has not.  A crash or a lost reply leaves it "running".       *)
(***************************************************************************)

CONSTANTS
    Id,     \* values of the IDENTITY column run_id
    Row     \* rows a collector may want to land

VARIABLE
    ledger  \* run_id -> [status, wanted, landed], for the rows that exist

LedgerInit == ledger = [r \in {} |-> {}]

\* start_run: a row of its own for the batch, nothing landed yet.
Open(r, wanted) ==
    /\ r \notin DOMAIN ledger
    /\ ledger' = [x \in DOMAIN ledger \cup {r} |->
                    IF x = r
                    THEN [status |-> "running", wanted |-> wanted, landed |-> {}]
                    ELSE ledger[x]]

\* A commit under an open row that keeps it open, or closes it in the same
\* transaction; the final status says whether the batch is complete.
Land(r, rows, status) ==
    /\ r \in DOMAIN ledger
    /\ ledger[r].status = "running"
    /\ LET landed == ledger[r].landed \cup rows
       IN  /\ landed \subseteq ledger[r].wanted
           /\ status = "success" => landed = ledger[r].wanted
           /\ status = "failed"  => landed # ledger[r].wanted
           /\ ledger' = [ledger EXCEPT
                 ![r] = [status |-> status, wanted |-> ledger[r].wanted, landed |-> landed]]

LedgerNext ==
    \/ \E r \in Id : \E wanted \in SUBSET Row : Open(r, wanted)
    \/ \E r \in DOMAIN ledger : \E rows \in SUBSET Row :
         \E status \in {"running", "success", "failed"} : Land(r, rows, status)

LedgerSpec == LedgerInit /\ [][LedgerNext]_ledger

=============================================================================
