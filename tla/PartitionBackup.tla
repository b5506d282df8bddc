--------------------------- MODULE PartitionBackup ---------------------------
(***************************************************************************)
(* Dumps of the weekly partitions of flights                               *)
(* (server/adsb_server/ingestion/partition_backup.py): which are due, the  *)
(* lock on the spool, the temporary file, the rename and the manifest,     *)
(* next to batches that go on changing the table.                          *)
(*                                                                         *)
(* A partition is a range of Width days; what it holds is reduced to a     *)
(* version that every write of a batch replaces by a new one.  A batch for *)
(* day D writes the partitions of days D-2 .. D and no others, which is    *)
(* theorem OldRowsUntouchedHolds of CarryOverProofs.  Time is counted in   *)
(* batches that have succeeded.  The shipper and the verifier that share   *)
(* the spool are host scripts outside the repository.                      *)
(* The operators named Bug... are faulty variants, each a mistake the code *)
(* could have made: the properties are checked to notice them.             *)
(***************************************************************************)
EXTENDS Integers, FiniteSets

CONSTANTS
    Partitions,  \* partition k holds the days (k-1)*Width+1 .. k*Width
    Width,
    SettleDays,  \* SETTLE_DAYS
    LastDay,
    Ingested,    \* days 1..Ingested are in the table before the first backup
    MaxBatches,  \* bounds of the model: batches,
    MaxBackups,  \* backup runs,
    MaxFailures  \* failures of batches, backup runs and the backup volume

Days == 1..LastDay
Runners == {"batch", "cli"}   \* the last step of an import; the backup-flights command

None == 0

ASSUME BackupConstants ==
    /\ Partitions \subseteq Nat \ {0} /\ IsFiniteSet(Partitions)
    /\ Width \in Nat \ {0}
    /\ SettleDays \in Nat \ {0}
    /\ LastDay \in Nat /\ Ingested \in 0..LastDay
    /\ MaxBatches \in Nat /\ MaxBackups \in Nat /\ MaxFailures \in Nat

VARIABLES
    content,   \* version of the rows of each partition
    status,    \* ingest_batches.status, "none" without a row
    finished,  \* ingest_batches.finished_at
    now,       \* the clock: ticks when a batch succeeds
    batch,     \* the running batch: [day, left] or no day
    forgotten, \* history: the days that lost their row, and have not succeeded since
    lock,      \* who holds .backup.lock
    pc,        \* per runner: what it does next
    todo,      \* per runner: partitions still to examine
    due,       \* per runner: partitions to dump
    copied,    \* per runner: version in its temporary file
    started,   \* per runner: when the dump started
    dump,      \* spool: version in the dump file, or None, or Torn
    manifest,  \* spool: [version, at, shipped], or NoManifest
    volume,    \* backup volume: version of the dump shipped there
    budget     \* batches, backup runs and failures left

table == <<content, status, finished, now, batch, forgotten>>
runner == <<lock, pc, todo, due, copied, started>>
spool == <<dump, manifest, volume>>
vars == <<content, status, finished, now, batch, forgotten, lock, pc, todo, due, copied, started,
          dump, manifest, volume, budget>>

Torn == -1
NoManifest == [version |-> None, at |-> 0, shipped |-> FALSE]
NoBatch == [day |-> 0, left |-> {}]

TypeOK ==
    /\ content \in [Partitions -> Nat \ {0}]
    /\ status \in [Days -> {"none", "running", "succeeded", "errored"}]
    /\ finished \in [Days -> Nat]
    /\ now \in Nat
    /\ batch \in [day : 0..LastDay, left : SUBSET Partitions]
    /\ forgotten \subseteq Days
    /\ lock \in Runners \cup {"nobody"}
    /\ pc \in [Runners -> {"idle", "lock", "latest", "scan", "dump", "copy", "rename", "manifest"}]
    /\ todo \in [Runners -> SUBSET Partitions]
    /\ due \in [Runners -> SUBSET Partitions]
    /\ copied \in [Runners -> Nat]
    /\ started \in [Runners -> Nat]
    /\ dump \in [Partitions -> Nat \cup {Torn}]
    /\ manifest \in [Partitions -> [version : Nat, at : Nat, shipped : BOOLEAN]]
    /\ volume \in [Partitions -> Nat \cup {Torn}]
    /\ budget \in [batches : Nat, backups : Nat, failures : Nat]

-----------------------------------------------------------------------------
(* Which partitions are due. *)

FirstDay(part) == (part - 1) * Width + 1
EndDay(part)   == part * Width + 1            \* the first day after the range

(* The partitions a batch for day d may write. *)
Touches(d) == {part \in Partitions : FirstDay(part) <= d /\ d - 2 < EndDay(part)}

Latest == {d \in Days : status[d] = "succeeded" /\ \A e \in Days : status[e] = "succeeded" => e <= d}

Settled(part) == \E d \in Latest : d >= EndDay(part) + SettleDays

(* _last_ingest_touching found a batch that finished after t. *)
IngestedSince(part, t) ==
    \E d \in Days : /\ status[d] = "succeeded"
                    /\ FirstDay(part) - SettleDays <= d /\ d <= EndDay(part) + SettleDays
                    /\ finished[d] > t

NotCurrent(part) ==
    \/ manifest[part] = NoManifest
    \/ dump[part] = None /\ ~manifest[part].shipped
    \/ IngestedSince(part, manifest[part].at)

-----------------------------------------------------------------------------
Init ==
    /\ content = [part \in Partitions |-> 1]
    /\ status = [d \in Days |-> IF d <= Ingested THEN "succeeded" ELSE "none"]
    /\ finished = [d \in Days |-> 0]
    /\ now = 0
    /\ batch = NoBatch
    /\ forgotten = {}
    /\ lock = "nobody"
    /\ pc = [r \in Runners |-> "idle"]
    /\ todo = [r \in Runners |-> {}]
    /\ due = [r \in Runners |-> {}]
    /\ copied = [r \in Runners |-> None]
    /\ started = [r \in Runners |-> 0]
    /\ dump = [part \in Partitions |-> None]
    /\ manifest = [part \in Partitions |-> NoManifest]
    /\ volume = [part \in Partitions |-> None]
    /\ budget = [batches |-> MaxBatches, backups |-> MaxBackups, failures |-> MaxFailures]

Goto(r, where) == pc' = [pc EXCEPT ![r] = where]

-----------------------------------------------------------------------------
(* Batches (module Ingest in little): the next day, or any one again.  A   *)
(* batch is over when its backup is.                                       *)

BeginBatch(d) ==
    /\ batch = NoBatch /\ pc["batch"] = "idle"
    /\ status[d] # "none" \/ d \in forgotten \/ d \in {e + 1 : e \in Latest}
    /\ budget.batches > 0
    /\ budget' = [budget EXCEPT !.batches = @ - 1]
    /\ batch' = [day |-> d, left |-> Touches(d)]
    /\ status' = [status EXCEPT ![d] = "running"]
    /\ UNCHANGED <<content, finished, now, forgotten, runner, spool>>

WriteRows(part) ==
    /\ part \in batch.left
    /\ content' = [content EXCEPT ![part] = @ + 1]
    /\ batch' = [batch EXCEPT !.left = @ \ {part}]
    /\ UNCHANGED <<status, finished, now, forgotten, runner, spool, budget>>

(* The batch is recorded and goes on to its backup. *)
BatchSucceeds ==
    /\ batch # NoBatch /\ batch.left = {}
    /\ now' = now + 1
    /\ status' = [status EXCEPT ![batch.day] = "succeeded"]
    /\ finished' = [finished EXCEPT ![batch.day] = now']
    /\ batch' = NoBatch
    /\ forgotten' = forgotten \ {batch.day}
    /\ Goto("batch", "lock")
    /\ UNCHANGED <<content, lock, todo, due, copied, started, spool, budget>>

(* The batch fails or its process dies, whatever it has written. *)
BatchFails ==
    /\ batch # NoBatch
    /\ budget.failures > 0
    /\ budget' = [budget EXCEPT !.failures = @ - 1]
    /\ batch' = NoBatch
    /\ \/ status' = [status EXCEPT ![batch.day] = "errored"]
       \/ UNCHANGED status
    /\ UNCHANGED <<content, finished, now, forgotten, runner, spool>>

(* The release of a date cannot be downloaded: the date loses its row, and *)
(* with it the time of the success that it may have had.                   *)
FetchFails(d) ==
    /\ batch = NoBatch /\ pc["batch"] = "idle"
    /\ status[d] # "none"
    /\ budget.failures > 0
    /\ budget' = [budget EXCEPT !.failures = @ - 1]
    /\ status' = [status EXCEPT ![d] = "none"]
    /\ finished' = [finished EXCEPT ![d] = 0]
    /\ forgotten' = forgotten \cup {d}
    /\ UNCHANGED <<content, now, batch, runner, spool>>

-----------------------------------------------------------------------------
(* Backup runs. *)

(* backup-flights --partitions NAME ... starts with what it was told       *)
(* (--force names the settled partitions), without names it looks for      *)
(* those that are due.                                                     *)
StartBackup(named) ==
    /\ pc["cli"] = "idle"
    /\ budget.backups > 0
    /\ budget' = [budget EXCEPT !.backups = @ - 1]
    /\ due' = [due EXCEPT !["cli"] = named]
    /\ Goto("cli", "lock")
    /\ UNCHANGED <<table, lock, todo, copied, started, spool>>

(* exclusive_run goes on although the lock is taken. *)
BugIgnoreLock(r) ==
    /\ pc[r] = "lock"
    /\ lock' = r
    /\ Goto(r, IF due[r] = {} THEN "latest" ELSE "dump")
    /\ UNCHANGED <<table, todo, due, copied, started, spool, budget>>

(* LOCK_NB: who does not get the lock gives up. *)
AcquireLock(r) ==
    /\ pc[r] = "lock"
    /\ IF lock = "nobody"
       THEN /\ lock' = r
            /\ Goto(r, IF due[r] = {} THEN "latest" ELSE "dump")
            /\ UNCHANGED due
       ELSE /\ Goto(r, "idle")
            /\ due' = [due EXCEPT ![r] = {}]
            /\ UNCHANGED lock
    /\ UNCHANGED <<table, todo, copied, started, spool, budget>>

ReadLatestBatch(r) ==
    /\ pc[r] = "latest"
    /\ todo' = [todo EXCEPT ![r] = {part \in Partitions : Settled(part)}]
    /\ Goto(r, "scan")
    /\ UNCHANGED <<table, lock, due, copied, started, spool, budget>>

(* One settled partition after the other, oldest first. *)
Examine(r, part) ==
    /\ pc[r] = "scan"
    /\ part \in todo[r] /\ \A q \in todo[r] : part <= q
    /\ todo' = [todo EXCEPT ![r] = @ \ {part}]
    /\ due' = IF NotCurrent(part) THEN [due EXCEPT ![r] = @ \cup {part}] ELSE due
    /\ UNCHANGED <<table, lock, pc, copied, started, spool, budget>>

EndScan(r) ==
    /\ pc[r] = "scan" /\ todo[r] = {}
    /\ Goto(r, "dump")
    /\ UNCHANGED <<table, lock, todo, due, copied, started, spool, budget>>

IsDumping(r, part) == part \in due[r] /\ \A q \in due[r] : part <= q

(* The temporary file is opened, and truncated, then the rows are copied   *)
(* as they are at one moment.                                              *)
OpenTemporary(r) ==
    /\ pc[r] = "dump" /\ due[r] # {}
    /\ started' = [started EXCEPT ![r] = now]
    /\ Goto(r, "copy")
    /\ UNCHANGED <<table, lock, todo, due, copied, spool, budget>>

CopyRows(r, part) ==
    /\ pc[r] = "copy" /\ IsDumping(r, part)
    /\ copied' = [copied EXCEPT ![r] = content[part]]
    /\ Goto(r, "rename")
    /\ UNCHANGED <<table, lock, todo, due, started, spool, budget>>

(* Two dumps of one partition write the same temporary file. *)
Alone(r, part) ==
    \A q \in Runners \ {r} : ~(pc[q] \in {"copy", "rename"} /\ IsDumping(q, part))

RenameDump(r, part) ==
    /\ pc[r] = "rename" /\ IsDumping(r, part)
    /\ dump' = [dump EXCEPT ![part] = IF Alone(r, part) THEN copied[r] ELSE Torn]
    /\ Goto(r, "manifest")
    /\ UNCHANGED <<table, lock, todo, due, copied, started, manifest, volume, budget>>

(* dumped_at taken when the dump is over. *)
BugDumpedAtEnd(r, part) ==
    /\ pc[r] = "manifest" /\ IsDumping(r, part)
    /\ manifest' = [manifest EXCEPT ![part] =
                        [version |-> copied[r], at |-> now, shipped |-> FALSE]]
    /\ due' = [due EXCEPT ![r] = @ \ {part}]
    /\ copied' = [copied EXCEPT ![r] = None]
    /\ Goto(r, "dump")
    /\ UNCHANGED <<table, lock, todo, started, dump, volume, budget>>

WriteManifest(r, part) ==
    /\ pc[r] = "manifest" /\ IsDumping(r, part)
    /\ manifest' = [manifest EXCEPT ![part] =
                        [version |-> copied[r], at |-> started[r], shipped |-> FALSE]]
    /\ due' = [due EXCEPT ![r] = @ \ {part}]
    /\ copied' = [copied EXCEPT ![r] = None]
    /\ Goto(r, "dump")
    /\ UNCHANGED <<table, lock, todo, started, dump, volume, budget>>

Release(r) ==
    /\ lock' = IF lock = r THEN "nobody" ELSE lock
    /\ Goto(r, "idle")
    /\ todo' = [todo EXCEPT ![r] = {}]
    /\ due' = [due EXCEPT ![r] = {}]
    /\ copied' = [copied EXCEPT ![r] = None]
    /\ started' = [started EXCEPT ![r] = 0]

EndBackup(r) ==
    /\ pc[r] = "dump" /\ due[r] = {}
    /\ Release(r)
    /\ UNCHANGED <<table, spool, budget>>

(* The spool is full, the connection is lost, or the process dies: the     *)
(* lock is gone with it and the spool stays as it is.                      *)
BackupFails(r) ==
    /\ pc[r] \notin {"idle", "lock"}
    /\ budget.failures > 0
    /\ budget' = [budget EXCEPT !.failures = @ - 1]
    /\ Release(r)
    /\ UNCHANGED <<table, spool>>

-----------------------------------------------------------------------------
(* The host scripts, as the spool protocol describes them. *)

(* The shipper moves a dump that its manifest vouches for. *)
Ship(part) ==
    /\ manifest[part] # NoManifest
    /\ dump[part] = manifest[part].version
    /\ volume' = [volume EXCEPT ![part] = dump[part]]
    /\ dump' = [dump EXCEPT ![part] = None]
    /\ manifest' = [manifest EXCEPT ![part].shipped = TRUE]
    /\ UNCHANGED <<table, runner, budget>>

(* A dump that went missing from the volume costs its spool manifest. *)
VerifyMissing(part) ==
    /\ volume[part] # None
    /\ budget.failures > 0
    /\ budget' = [budget EXCEPT !.failures = @ - 1]
    /\ volume' = [volume EXCEPT ![part] = None]
    /\ manifest' = [manifest EXCEPT ![part] = NoManifest]
    /\ UNCHANGED <<table, runner, dump>>

-----------------------------------------------------------------------------
BackupStep(r) ==
    \/ AcquireLock(r) \/ ReadLatestBatch(r) \/ EndScan(r) \/ OpenTemporary(r) \/ EndBackup(r)
    \/ \E part \in Partitions :
          Examine(r, part) \/ CopyRows(r, part) \/ RenameDump(r, part) \/ WriteManifest(r, part)

BatchStep == BatchSucceeds \/ \E part \in Partitions : WriteRows(part)

Next ==
    \/ \E d \in Days : BeginBatch(d)
    \/ BatchStep
    \/ BatchFails
    \/ \E d \in Days : FetchFails(d)
    \/ \E named \in SUBSET Partitions : StartBackup(named)
    \/ \E r \in Runners : BackupStep(r) \/ BackupFails(r)
    \/ \E part \in Partitions : Ship(part) \/ VerifyMissing(part)

Spec == Init /\ [][Next]_vars

-----------------------------------------------------------------------------
(* Properties. *)

(* No dump in the spool, and none shipped to the volume, was written by    *)
(* two runs at once (exclusive_run).                                       *)
DumpsComplete == \A part \in Partitions : Torn \notin {dump[part], volume[part]}

(* No batch and no backup run is under way. *)
Quiet == batch = NoBatch /\ pc["cli"] = "idle" /\ pc["batch"] = "idle"

(* The last import of every day that may have written to the partition was *)
(* a success.                                                              *)
NoFailedImport(part) ==
    \A d \in Days : part \in Touches(d) => status[d] \in {"none", "succeeded"}

(* And the row that says when is still there. *)
OnRecord(part) == NoFailedImport(part) /\ \A d \in forgotten : part \notin Touches(d)

(* The rows of a partition are on file as they are in the table: the       *)
(* manifest describes them, and so does the dump it stands beside, or the  *)
(* one that was shipped.                                                   *)
BackedUp(part) ==
    /\ manifest[part].version = content[part]
    /\ content[part] \in {dump[part], volume[part]}
    /\ dump[part] \in {None, content[part]}

(* What partitions_due passes over needs no dump: whatever the order of    *)
(* batches and dumps, and wherever a dump was interrupted, a settled       *)
(* partition that is not due is backed up as it stands in the table.       *)
PassedOverIsBackedUp ==
    Quiet => \A part \in Partitions :
                Settled(part) /\ ~NotCurrent(part) /\ OnRecord(part) => BackedUp(part)

(* partition_backup.py:249-252 says that a partition is due when it "was   *)
(* dumped before the last ingest that could have changed it": the same     *)
(* without sparing imports that failed after they had written, ...         *)
StaleDumpIsDue ==
    Quiet => \A part \in Partitions :
                Settled(part) /\ ~NotCurrent(part) => manifest[part].version = content[part]

(* ... or those that succeeded, and whose row a failed download has        *)
(* deleted since.                                                          *)
StaleDumpIsDueAfterSuccess ==
    Quiet => \A part \in Partitions :
                Settled(part) /\ ~NotCurrent(part) /\ NoFailedImport(part)
                    => manifest[part].version = content[part]

=============================================================================
