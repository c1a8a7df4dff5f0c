------------------------------- MODULE Vault -------------------------------
(***************************************************************************)
(* The collab vault (collab/vault.py) behind the handlers of server.py     *)
(* that write to it.  The server is one asyncio thread and a vault call    *)
(* never awaits, so one call is in flight at a time; but a call writes     *)
(* several files one after the other, and the process may die, or a write  *)
(* may raise OSError, between any two of them.  One action per write.      *)
(*                                                                         *)
(* Hashes are ideal: the hash of an entry is the entry, the hash of a link *)
(* is the sequence of what it covers.                                      *)
(***************************************************************************)
EXTENDS Naturals, Sequences, FiniteSets

CONSTANTS
  Nodes,       \* mesh node ids
  TaskIds,     \* ids of shared tasks
  KeepLast,    \* 200 in the code: messages, and tasks per bucket, in the state
  MaxId,       \* bound: entries ever built
  MaxFaults    \* bound: crashes and failed writes

ASSUME KeepLastAssumption == KeepLast \in Nat \ {0}
ASSUME BoundsAssumption == MaxId \in Nat /\ MaxFaults \in Nat

Ids == 1 .. MaxId

Statuses == {"pending", "processing", "done"}          \* TASK_STATUSES

\* The op and the payload of a signed event, as far as the vault looks at them.
Messages == [op : {"message"}]
TaskEvents == [op : {"task"}, task : TaskIds, status : Statuses \cup {"invalid"}]
Joins == [op : {"join"}, node : Nodes]
Others == [op : {"file_update"}]
Events == Messages \cup TaskEvents \cup Joins \cup Others

\* Lines of ledger.jsonl: an entry, or what an interrupted write left of one.
Entries == [id : Ids, ev : Events]
Torn == [id |-> 0, ev |-> [op |-> "torn"]]
Lines == Entries \cup {Torn}

\* Lines of .auth/audit.jsonl.
Genesis == <<>>
LinkHashes == Seq(Ids \X Entries)
LinkHash(lid, prev, eh) == Append(prev, <<lid, eh>>)
TornRow == [ledger_id |-> 0, prev_hash |-> Genesis, entry_hash |-> Torn, hash |-> Genesis]
Rows == [ledger_id : Ids, prev_hash : LinkHashes, entry_hash : Entries,
         hash : LinkHashes]

States == [tasks : [Statuses -> Seq(TaskIds)],
           messages : Seq(Ids),
           nodes : [Nodes -> {"absent", "active", "revoked"}],
           audit_tampered : BOOLEAN]

VARIABLES
  ledger,      \* ledger.jsonl, a sequence of lines
  audit,       \* audit.jsonl, a sequence of rows
  mem,         \* self._state
  disk,        \* state.json
  files,       \* files[t]: the statuses s for which tasks/s/t.json exists
  pc,          \* what the call in flight does next; "idle" between calls
  then,        \* what follows the _save_state the call is about to do
  cur,         \* the entry of the call in flight
  nextId,      \* uuid4: the ids not given yet
  acked,       \* history: the entries answered "ok"
  cut,         \* history: tasks whose last upsert was interrupted
  faults,      \* crashes and failed writes so far
  damaged      \* a line of the ledger was changed behind the vault's back

files_vars == <<ledger, audit, disk, files>>
call_vars == <<pc, then, cur, nextId>>
vars == <<ledger, audit, mem, disk, files, pc, then, cur, nextId, acked, cut,
          faults, damaged>>

DefaultState == [tasks |-> [s \in Statuses |-> <<>>],
                 messages |-> <<>>,
                 nodes |-> [n \in Nodes |-> "absent"],
                 audit_tampered |-> FALSE]

NoEntry == Torn

Init ==
  /\ ledger = <<>> /\ audit = <<>>
  /\ mem = DefaultState /\ disk = DefaultState
  /\ files = [t \in TaskIds |-> {}]
  /\ pc = "idle" /\ then = "idle" /\ cur = NoEntry
  /\ nextId = 1
  /\ acked = {} /\ cut = {}
  /\ faults = 0 /\ damaged = FALSE

-----------------------------------------------------------------------------
(* The audit chain.                                                        *)

\* _audit_lines: one malformed row and the caller sees none.
AuditLines == IF \E i \in DOMAIN audit : audit[i] = TornRow THEN <<>> ELSE audit

\* `previous` of the loop of verify_audit_chain, and of append_event.
HashBefore(rows, i) == IF i = 1 THEN Genesis ELSE rows[i - 1].hash

\* Mutant: the lines are counted and their ids compared, their contents are not.
VerifyAuditChain_IdsOnly ==
  LET rows == AuditLines IN
  /\ Len(ledger) = Len(rows)
  /\ \A i \in 1 .. Len(rows) : rows[i].ledger_id = ledger[i].id


VerifyAuditChain ==
  LET rows == AuditLines IN
  /\ Len(ledger) = Len(rows)
  /\ \A i \in 1 .. Len(rows) :
       /\ ledger[i] # Torn
       /\ rows[i].ledger_id = ledger[i].id
       /\ rows[i].prev_hash = HashBefore(rows, i)
       /\ rows[i].entry_hash = ledger[i]
       /\ rows[i].hash = LinkHash(ledger[i].id, HashBefore(rows, i), ledger[i])

\* Mutant: every row starts a chain of its own.
AuditRow_Unchained(e) ==
  [ledger_id |-> e.id, prev_hash |-> Genesis, entry_hash |-> e,
   hash |-> LinkHash(e.id, Genesis, e)]


AuditRow(e) ==
  LET prev == HashBefore(audit, Len(audit) + 1) IN
  [ledger_id |-> e.id, prev_hash |-> prev, entry_hash |-> e,
   hash |-> LinkHash(e.id, prev, e)]

-----------------------------------------------------------------------------
(* What the calls do to the state in memory.                               *)

Newest(s) == IF Len(s) > KeepLast THEN SubSeq(s, Len(s) - KeepLast + 1, Len(s)) ELSE s

\* The code filters the bucket; an id is in it at most once, so this is the same.
Without(s, t) ==
  IF \E i \in 1 .. Len(s) : s[i] = t
  THEN LET i == CHOOSE j \in 1 .. Len(s) : s[j] = t
       IN SubSeq(s, 1, i - 1) \o SubSeq(s, i + 1, Len(s))
  ELSE s

WithTask(st, t, status) ==
  [st EXCEPT !.tasks =
     [s \in Statuses |-> IF s = status
                         THEN Newest(Append(Without(st.tasks[s], t), t))
                         ELSE Without(st.tasks[s], t)]]

WithMessage(st, id) == [st EXCEPT !.messages = Newest(Append(@, id))]

WithNode(st, n, status) == [st EXCEPT !.nodes[n] = status]

-----------------------------------------------------------------------------
(* Every write to state.json is the last thing of some step: the step      *)
(* leaves the vault about to save, and says what follows.                  *)

SaveThen(next) == pc' = "save" /\ then' = next

\* Mutant: an entry goes to the ledger whether or not the chain verifies.
EnsureAuditClean_NoCheck(ev) ==
  /\ pc' = "ledger" /\ then' = "idle"
  /\ cur' = [id |-> nextId, ev |-> ev]
  /\ nextId' = nextId + 1
  /\ UNCHANGED mem

\* ensure_audit_clean: on a chain that does not verify the flag is saved and
\* the caller gets VaultError; else an entry is built, to go to the ledger.
EnsureAuditClean(ev) ==
  \/ /\ VerifyAuditChain
     /\ pc' = "ledger" /\ then' = "idle"
     /\ cur' = [id |-> nextId, ev |-> ev]
     /\ nextId' = nextId + 1
     /\ UNCHANGED mem
  \/ /\ ~VerifyAuditChain
     /\ mem' = [mem EXCEPT !.audit_tampered = TRUE]
     /\ SaveThen("idle")
     /\ UNCHANGED <<cur, nextId>>

\* api_relay and api_ws_relay: a verified envelope goes to append_event.
Relay(ev) ==
  /\ pc = "idle" /\ nextId <= MaxId
  /\ EnsureAuditClean(ev)
  /\ UNCHANGED <<files_vars, acked, cut, faults, damaged>>

\* api_collab_task and api_collab_export: the task is stored first, and
\* append_event records it (and stores it again).
PutTask(t, status) ==
  /\ pc = "idle" /\ nextId <= MaxId
  /\ \/ /\ VerifyAuditChain
        /\ mem' = WithTask(mem, t, status)
        /\ cur' = [id |-> nextId, ev |-> [op |-> "task", task |-> t, status |-> status]]
        /\ pc' = "put" /\ then' = "check"
     \/ /\ ~VerifyAuditChain
        /\ mem' = [mem EXCEPT !.audit_tampered = TRUE]
        /\ SaveThen("idle")
        /\ UNCHANGED cur
  /\ UNCHANGED <<files_vars, nextId, acked, cut, faults, damaged>>

\* The ensure_audit_clean of the append_event that PutTask comes to.
Check ==
  /\ pc = "check"
  /\ EnsureAuditClean(cur.ev)
  /\ UNCHANGED <<files_vars, acked, cut, faults, damaged>>

LedgerAppend ==
  /\ pc = "ledger"
  /\ ledger' = Append(ledger, cur)
  /\ pc' = "audit"
  /\ UNCHANGED <<audit, mem, disk, files, then, cur, nextId, acked, cut, faults, damaged>>

AuditAppend ==
  /\ pc = "audit"
  /\ audit' = Append(audit, AuditRow(cur))
  /\ pc' = "apply"
  /\ UNCHANGED <<ledger, mem, disk, files, then, cur, nextId, acked, cut, faults, damaged>>

\* _apply_event, one action per kind of event.  An unknown task status and a
\* join of a revoked node raise VaultError: the entry stays in the ledger.
ApplyMessage ==
  /\ pc = "apply" /\ cur.ev.op = "message"
  /\ mem' = WithMessage(mem, cur.id)
  /\ pc' = "finish"
  /\ UNCHANGED <<files_vars, then, cur, nextId, acked, cut, faults, damaged>>

\* Mutant: a task event is recorded and not stored.
ApplyTask_NotStored ==
  /\ pc = "apply" /\ cur.ev.op = "task"
  /\ pc' = "finish"
  /\ UNCHANGED <<files_vars, mem, then, cur, nextId, acked, cut, faults, damaged>>


ApplyTask ==
  /\ pc = "apply" /\ cur.ev.op = "task"
  /\ IF cur.ev.status \in Statuses
     THEN /\ mem' = WithTask(mem, cur.ev.task, cur.ev.status)
          /\ pc' = "put" /\ then' = "finish"
     ELSE /\ pc' = "idle"
          /\ UNCHANGED <<mem, then>>
  /\ UNCHANGED <<files_vars, cur, nextId, acked, cut, faults, damaged>>

\* Mutant: a join event brings a revoked node back.
ApplyJoin_NoCheck ==
  /\ pc = "apply" /\ cur.ev.op = "join"
  /\ mem' = WithNode(mem, cur.ev.node, "active")
  /\ SaveThen("finish")
  /\ UNCHANGED <<files_vars, cur, nextId, acked, cut, faults, damaged>>


ApplyJoin ==
  /\ pc = "apply" /\ cur.ev.op = "join"
  /\ IF mem.nodes[cur.ev.node] # "revoked"
     THEN /\ mem' = WithNode(mem, cur.ev.node, "active")
          /\ SaveThen("finish")
     ELSE /\ pc' = "idle"
          /\ UNCHANGED <<mem, then>>
  /\ UNCHANGED <<files_vars, cur, nextId, acked, cut, faults, damaged>>

\* An op without an effect on the state (file_update).
ApplyOther ==
  /\ pc = "apply" /\ cur.ev.op = "file_update"
  /\ pc' = "finish"
  /\ UNCHANGED <<files_vars, mem, then, cur, nextId, acked, cut, faults, damaged>>

\* Mutant: the old files go before the new one is written.
PutFile_UnlinksFirst ==
  /\ pc = "put"
  /\ IF files[cur.ev.task] \subseteq {cur.ev.status}
     THEN /\ files' = [files EXCEPT ![cur.ev.task] = {cur.ev.status}]
          /\ pc' = "unlink"
     ELSE /\ files' = [files EXCEPT ![cur.ev.task] = {}]
          /\ UNCHANGED pc
  /\ UNCHANGED <<ledger, audit, mem, disk, then, cur, nextId, acked, cut, faults, damaged>>

\* upsert_task: the task's file in its bucket, then the others removed one by
\* one, then the state.
PutFile ==
  /\ pc = "put"
  /\ files' = [files EXCEPT ![cur.ev.task] = @ \cup {cur.ev.status}]
  /\ pc' = "unlink"
  /\ UNCHANGED <<ledger, audit, mem, disk, then, cur, nextId, acked, cut, faults, damaged>>

\* Mutant: the files in the other buckets stay.
UnlinkOthers_Keeps ==
  /\ pc = "unlink"
  /\ pc' = "save"
  /\ UNCHANGED <<files_vars, mem, then, cur, nextId, acked, cut, faults, damaged>>


UnlinkOthers ==
  /\ pc = "unlink"
  /\ \/ /\ \E s \in files[cur.ev.task] \ {cur.ev.status} :
             files' = [files EXCEPT ![cur.ev.task] = @ \ {s}]
        /\ UNCHANGED pc
     \/ /\ files[cur.ev.task] = {cur.ev.status}
        /\ pc' = "save"
        /\ UNCHANGED files
  /\ UNCHANGED <<ledger, audit, mem, disk, then, cur, nextId, acked, cut, faults, damaged>>

\* Mutant: the caller is answered before the state is saved.
Finish_AnswersFirst ==
  /\ pc = "finish"
  /\ mem' = [mem EXCEPT !.audit_tampered = FALSE]
  /\ SaveThen("idle")
  /\ acked' = acked \cup {cur}
  /\ UNCHANGED <<files_vars, cur, nextId, cut, faults, damaged>>

\* The end of append_event, up to its _save_state.
Finish ==
  /\ pc = "finish"
  /\ mem' = [mem EXCEPT !.audit_tampered = FALSE]
  /\ SaveThen("answer")
  /\ UNCHANGED <<files_vars, cur, nextId, acked, cut, faults, damaged>>

\* Whether the save in progress ends an upsert_task.
EndsUpsert == then \in {"check", "finish"} /\ cur.ev.op = "task"

\* _save_state: os.replace makes it one step.
SaveState ==
  /\ pc = "save"
  /\ disk' = mem
  /\ pc' = IF then = "answer" THEN "idle" ELSE then
  /\ acked' = IF then = "answer" THEN acked \cup {cur} ELSE acked
  /\ cut' = IF EndsUpsert THEN cut \ {cur.ev.task} ELSE cut
  /\ UNCHANGED <<ledger, audit, mem, files, then, cur, nextId, faults, damaged>>

-----------------------------------------------------------------------------
(* Calls that do not go through the ledger.                                *)

\* register_node, from MeshAuth.join.
RegisterNode(n) ==
  /\ pc = "idle" /\ mem.nodes[n] # "revoked"
  /\ mem' = WithNode(mem, n, "active")
  /\ SaveThen("idle")
  /\ UNCHANGED <<files_vars, cur, nextId, acked, cut, faults, damaged>>

\* revoke_node, from MeshAuth.revoke_node.
RevokeNode(n) ==
  /\ pc = "idle" /\ mem.nodes[n] # "absent"
  /\ mem' = WithNode(mem, n, "revoked")
  /\ SaveThen("idle")
  /\ UNCHANGED <<files_vars, cur, nextId, acked, cut, faults, damaged>>

\* touch_node, from MeshAuth.verify_token: last_seen is not modelled, the save is.
TouchNode ==
  /\ pc = "idle" /\ \E n \in Nodes : mem.nodes[n] = "active"
  /\ SaveThen("idle")
  /\ UNCHANGED <<files_vars, mem, cur, nextId, acked, cut, faults, damaged>>

\* Mutant: an audit without rows counts as tampered.
AuditStatus_EmptyIsTampered ==
  /\ pc = "idle"
  /\ mem' = [mem EXCEPT !.audit_tampered = ~VerifyAuditChain \/ AuditLines = <<>>]
  /\ UNCHANGED <<files_vars, call_vars, acked, cut, faults, damaged>>

\* audit_status, from collab_state: the flag in memory only.
AuditStatus ==
  /\ pc = "idle"
  /\ mem' = [mem EXCEPT !.audit_tampered = ~VerifyAuditChain]
  /\ UNCHANGED <<files_vars, call_vars, acked, cut, faults, damaged>>

-----------------------------------------------------------------------------
(* Faults.                                                                 *)

\* What an interrupted call leaves in the file it was writing.
LeavesTornLine ==
  \/ UNCHANGED <<ledger, audit>>
  \/ pc = "ledger" /\ ledger' = Append(ledger, Torn) /\ UNCHANGED audit
  \/ pc = "audit" /\ audit' = Append(audit, TornRow) /\ UNCHANGED ledger

Interrupted ==
  /\ faults < MaxFaults
  /\ faults' = faults + 1
  /\ LeavesTornLine
  /\ pc' = "idle" /\ then' = "idle"
  /\ cut' = IF pc \in {"put", "unlink"} \/ (pc = "save" /\ EndsUpsert)
            THEN cut \cup {cur.ev.task} ELSE cut
  /\ UNCHANGED <<disk, files, cur, nextId, acked, damaged>>

\* The process dies and is started again: _load_state.
Restart ==
  /\ Interrupted
  /\ mem' = disk

\* A write raises OSError: the request fails, the server goes on.
WriteFails ==
  /\ pc \in {"ledger", "audit", "put", "unlink", "save"}
  /\ Interrupted
  /\ UNCHANGED mem

\* One line of the ledger that has been audited is edited, cut or removed by
\* something other than the vault.
DamageLedger ==
  /\ pc = "idle" /\ ~damaged
  /\ \E i \in 1 .. Len(ledger) :
       /\ i <= Len(AuditLines)
       /\ \/ ledger' = [ledger EXCEPT ![i] = Torn]
          \/ \E ev \in Events \ {ledger[i].ev} : ledger' = [ledger EXCEPT ![i].ev = ev]
          \/ ledger' = SubSeq(ledger, 1, i - 1) \o SubSeq(ledger, i + 1, Len(ledger))
  /\ damaged' = TRUE
  /\ UNCHANGED <<audit, mem, disk, files, call_vars, acked, cut, faults>>

-----------------------------------------------------------------------------
Calls ==
  \/ \E ev \in Events : Relay(ev)
  \/ \E t \in TaskIds, s \in Statuses : PutTask(t, s)
  \/ \E n \in Nodes : RegisterNode(n) \/ RevokeNode(n)
  \/ TouchNode
  \/ AuditStatus

Steps ==
  \/ Check \/ LedgerAppend \/ AuditAppend
  \/ ApplyMessage \/ ApplyTask \/ ApplyJoin \/ ApplyOther
  \/ PutFile \/ UnlinkOthers \/ Finish \/ SaveState

Next == Calls \/ Steps \/ Restart \/ WriteFails \/ DamageLedger

Spec == Init /\ [][Next]_vars

-----------------------------------------------------------------------------
(* Properties.                                                             *)

PCs == {"idle", "check", "ledger", "audit", "apply", "put", "unlink", "finish", "save"}

\* The types of the vault's files, memory and control.
TypeOK ==
  /\ ledger \in Seq(Lines)
  /\ audit \in Seq(Rows \cup {TornRow})
  /\ mem \in States /\ disk \in States
  /\ files \in [TaskIds -> SUBSET Statuses]
  /\ pc \in PCs /\ then \in {"idle", "check", "finish", "answer"}
  /\ cur \in Lines
  /\ nextId \in 1 .. MaxId + 1
  /\ acked \subseteq Entries /\ cut \subseteq TaskIds
  /\ faults \in 0 .. MaxFaults /\ damaged \in BOOLEAN

\* How many rows of audit.jsonl are whole, and the entries they cover.
Covered == IF audit # <<>> /\ audit[Len(audit)] = TornRow THEN Len(audit) - 1 ELSE Len(audit)
AuditedEntries == [i \in 1 .. Covered |-> audit[i].entry_hash]

\* append_event writes the ledger line first and the audit row second: as long
\* as nobody else edits the ledger, the audited entries are its beginning and
\* at most one line is not audited, whatever call was interrupted and wherever.
AuditIsPrefix ==
  ~damaged => /\ Covered <= Len(ledger) /\ Len(ledger) <= Covered + 1
              /\ \A i \in 1 .. Covered : ledger[i] = AuditedEntries[i]

\* An entry answered "ok" by append_event is in the audit chain, in the ledger
\* unless a line of it was damaged, and its effect is in state.json and the
\* task files, whatever crash or failed write came later.
AckedDurable ==
  \A e \in acked :
    /\ \E i \in 1 .. Covered : AuditedEntries[i] = e
    /\ ~damaged => \E i \in 1 .. Len(ledger) : ledger[i] = e
    /\ e.ev.op = "message" =>
         LET shown == {disk.messages[i] : i \in 1 .. Len(disk.messages)} IN
         e.id \in shown \/ (Len(disk.messages) = KeepLast /\ \A id \in shown : id > e.id)
    /\ e.ev.op = "join" => disk.nodes[e.ev.node] # "absent"
    /\ e.ev.op = "task" => files[e.ev.task] # {}

\* verify_audit_chain fails for good once an audited ledger line is edited, cut
\* or removed: no later append or interruption makes the chain verify again.
DamageDetected == damaged => ~VerifyAuditChain

\* The audit_tampered flag, in memory or in state.json, is up only while the chain
\* really does not verify, whichever calls saved, failed or crashed since it was set.
NoFalseAlarm == (mem.audit_tampered \/ disk.audit_tampered) => ~VerifyAuditChain

\* upsert_task writes the new file before it removes the old one: from the
\* first time it is stored a task has a file in some bucket, at every point
\* where the call can be interrupted.
TaskNeverLost == [][\A t \in TaskIds : files[t] # {} => files'[t] # {}]_vars

\* Between calls, a task that the state lists in a bucket has its file in that
\* bucket and no other, unless its last upsert_task was interrupted.
TaskFilesMatchState ==
  pc = "idle" =>
    \A t \in TaskIds \ cut, s \in Statuses :
      (\E i \in 1 .. Len(mem.tasks[s]) : mem.tasks[s][i] = t) => files[t] = {s}

\* A node that state.json says is revoked is never active again: not by a join
\* event in the ledger, nor by a stale memory saved later.
RevocationSticks ==
  [][\A n \in Nodes : disk.nodes[n] = "revoked" => disk'.nodes[n] = "revoked"]_vars

\* What a ledger's events make of the messages and the tasks: "updated on every event"
\* (docs/COLLAB-MESH-SPEC.md), for one that has seen them and nothing else.
Replayed(st, line) ==
  CASE line.ev.op = "message" -> WithMessage(st, line.id)
    [] line.ev.op = "task" /\ line.ev.status \in Statuses ->
         WithTask(st, line.ev.task, line.ev.status)
    [] OTHER -> st

Replay(lines) ==
  LET st[k \in 0 .. Len(lines)] ==
        IF k = 0 THEN DefaultState ELSE Replayed(st[k - 1], lines[k])
  IN st[Len(lines)]

Alike(a, b) == a.messages = b.messages /\ a.tasks = b.tasks

\* Between calls, and while the chain verifies, state.json shows what the events of the
\* ledger made of the messages and the tasks, as long as no call was interrupted,
\* whichever calls save it in between.
SnapshotUnlessInterrupted ==
  faults = 0 /\ pc = "idle" /\ VerifyAuditChain => Alike(disk, Replay(ledger))

\* The files and calls of the vault implement the log that AuditedLog promises:
\* an entry is committed by its audit row.
Log == INSTANCE AuditedLog
         WITH log <- AuditedEntries,
              sealed <- pc # "audit" /\ ~VerifyAuditChain,
              told <- acked
ImplementsAuditedLog == Log!Spec

-----------------------------------------------------------------------------
(* The inductive invariant behind the theorems of VaultProofs.             *)

\* What a call in flight holds: a task upsert has a task to store, an append
\* has an entry, and a stored task that is still to be recorded has an id left.
CallOK ==
  /\ pc \in {"check", "ledger", "audit", "apply", "put", "unlink", "finish"} => cur \in Entries
  /\ pc = "save" /\ then # "idle" => cur \in Entries
  /\ pc \in {"put", "unlink"} => /\ cur.ev \in TaskEvents /\ cur.ev.status \in Statuses
                                /\ then \in {"check", "finish"}
  /\ pc = "check" \/ (pc \in {"put", "unlink", "save"} /\ then = "check") => nextId <= MaxId

\* The whole rows of the audit are chained; only its last row may be torn, and
\* it was torn while its ledger line was already written.
RowsLinked ==
  /\ \A i \in 1 .. Len(audit) : audit[i] = TornRow => i = Len(audit) /\ ledger # <<>>
  /\ \A i \in 1 .. Covered :
       /\ audit[i].ledger_id = audit[i].entry_hash.id
       /\ audit[i].prev_hash = HashBefore(audit, i)
       /\ audit[i].hash = LinkHash(audit[i].ledger_id, audit[i].prev_hash, audit[i].entry_hash)

\* No two lines of an undamaged ledger are the same entry.
LedgerDistinct ==
  ~damaged =>
    /\ \A i \in 1 .. Len(ledger) : ledger[i].id < nextId
    /\ \A i, j \in 1 .. Len(ledger) : i < j /\ i <= Covered => ledger[i] # ledger[j]

\* Where the call in flight is in the writing of its line and its row.
Recorded == \/ pc \in {"apply", "finish"}
            \/ pc \in {"put", "unlink", "save"} /\ then \in {"finish", "answer"}
InFlightOK ==
  /\ pc = "ledger" => /\ VerifyAuditChain
                      /\ nextId = cur.id + 1
                      /\ \A i \in 1 .. Len(ledger) : ledger[i].id < cur.id
  /\ pc = "audit" => /\ ~damaged
                     /\ Covered = Len(audit) /\ Len(ledger) = Len(audit) + 1
                     /\ ledger[Len(ledger)] = cur
  /\ Recorded => /\ VerifyAuditChain
                 /\ audit # <<>> /\ audit[Len(audit)].entry_hash = cur

VaultInv ==
  /\ TypeOK /\ CallOK /\ RowsLinked /\ AuditIsPrefix /\ LedgerDistinct /\ InFlightOK
  /\ DamageDetected
=============================================================================
