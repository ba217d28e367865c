------------------------ MODULE MCApplicationRecovery ------------------------
(* An instance of ApplicationRecovery for TLC: the archive that is kept     *)
(* leaves the database out, the others are of the database alone.           *)
EXTENDS ApplicationRecovery

MCSelections == [b \in Backups |-> {IF b \in Kept THEN Declared \ {"sql"} ELSE {"sql"}}]
=============================================================================
