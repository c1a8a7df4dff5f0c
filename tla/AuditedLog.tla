----------------------------- MODULE AuditedLog -----------------------------
(***************************************************************************)
(* What the vault promises its callers about the event log, and nothing    *)
(* about files: entries are committed one at a time at the end of the log, *)
(* a caller is told "ok" only about the entry committed last, and a log    *)
(* that has been sealed (the audit chain no longer verifies) never takes   *)
(* an entry again.  Vault implements this specification.                   *)
(***************************************************************************)
EXTENDS Naturals, Sequences

CONSTANT Entries

VARIABLES
  log,      \* the committed entries, oldest first
  sealed,   \* the audit chain is broken for good
  told      \* the entries some caller was answered "ok" about

avars == <<log, sealed, told>>

Init == /\ log = <<>>
        /\ sealed = FALSE
        /\ told = {}

Commit == /\ ~sealed
          /\ \E e \in Entries : log' = Append(log, e)
          /\ UNCHANGED <<sealed, told>>

Answer == /\ ~sealed
          /\ log # <<>>
          /\ told' = told \cup {log[Len(log)]}
          /\ UNCHANGED <<log, sealed>>

Seal == /\ ~sealed
        /\ sealed' = TRUE
        /\ UNCHANGED <<log, told>>

Next == Commit \/ Answer \/ Seal

Spec == Init /\ [][Next]_avars
=============================================================================
