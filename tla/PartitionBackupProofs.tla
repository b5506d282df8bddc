------------------------ MODULE PartitionBackupProofs ------------------------
(***************************************************************************)
(* The lock of the spool keeps backup runs apart: no dump is written by    *)
(* two of them, for any partitions, batches, failures and backup runs.     *)
(***************************************************************************)
EXTENDS PartitionBackup, TLAPS

Busy(r) == pc[r] \notin {"idle", "lock"}

(* Who is past exclusive_run's lock holds it, and nobody else does; an     *)
(* import does not start while its last backup still runs.                 *)
LockInv ==
    /\ \A r \in Runners : Busy(r) <=> lock = r
    /\ batch # NoBatch => pc["batch"] = "idle"

SpoolInv == TypeOK /\ LockInv /\ DumpsComplete

LEMMA ConstantFacts ==
    /\ Width \in Nat /\ SettleDays \in Nat \ {0} /\ LastDay \in Nat /\ Ingested \in 0..LastDay
    /\ MaxBatches \in Nat /\ MaxBackups \in Nat /\ MaxFailures \in Nat
    /\ 0 # Torn /\ \A n \in Nat : n # Torn
BY BackupConstants DEF Torn

LEMMA InitSpoolInv == Init => SpoolInv
<1> SUFFICES ASSUME Init PROVE SpoolInv
    OBVIOUS
<1> USE DEF Init
<1>1. NoManifest \in [version : Nat, at : Nat, shipped : BOOLEAN]
    BY DEF NoManifest, None
<1>2. NoBatch \in [day : 0..LastDay, left : SUBSET Partitions]
    BY ConstantFacts DEF NoBatch
<1>3. TypeOK
    BY <1>1, <1>2, ConstantFacts DEF TypeOK, None, Runners
<1>4. LockInv
    BY DEF LockInv, Busy, Runners
<1>5. DumpsComplete
    BY ConstantFacts DEF DumpsComplete, None
<1> QED
    BY <1>3, <1>4, <1>5 DEF SpoolInv

(* Batches change the table and not the spool. *)
LEMMA BatchesKeepInv ==
    ASSUME SpoolInv,
           \/ \E d \in Days : BeginBatch(d) \/ FetchFails(d)
           \/ BatchStep \/ BatchFails
    PROVE  SpoolInv'
<1> USE DEF SpoolInv
<1>1. UNCHANGED spool
    BY DEF BeginBatch, BatchStep, BatchSucceeds, WriteRows, BatchFails, FetchFails
<1>2. DumpsComplete'
    BY <1>1 DEF DumpsComplete, spool
<1>3. ASSUME NEW d \in Days, BeginBatch(d) PROVE TypeOK' /\ LockInv'
  <2>1. Touches(d) \in SUBSET Partitions /\ d \in 0..LastDay
      BY ConstantFacts DEF Touches, Days
  <2>2. TypeOK'
      BY <1>3, <2>1 DEF BeginBatch, TypeOK, runner, spool
  <2>3. LockInv'
      BY <1>3 DEF BeginBatch, LockInv, Busy, runner
  <2> QED
      BY <2>2, <2>3
<1>4. ASSUME NEW part \in Partitions, WriteRows(part) PROVE TypeOK' /\ LockInv'
  <2>1. batch # NoBatch
      BY <1>4 DEF WriteRows, NoBatch
  <2>2. content' \in [Partitions -> Nat \ {0}]
      BY <1>4 DEF WriteRows, TypeOK
  <2>3. batch' \in [day : 0..LastDay, left : SUBSET Partitions]
      BY <1>4 DEF WriteRows, TypeOK
  <2>4. TypeOK'
      BY <1>4, <2>2, <2>3 DEF WriteRows, TypeOK, runner, spool
  <2>5. LockInv'
      BY <1>4, <2>1 DEF WriteRows, LockInv, Busy, runner
  <2> QED
      BY <2>4, <2>5
<1>5. CASE BatchSucceeds
  <2>1. pc["batch"] = "idle" /\ "batch" \in Runners
      BY <1>5 DEF BatchSucceeds, LockInv, Runners
  <2>2. NoBatch \in [day : 0..LastDay, left : SUBSET Partitions]
      BY ConstantFacts DEF NoBatch
  <2>3. status' \in [Days -> {"none", "running", "succeeded", "errored"}]
        /\ finished' \in [Days -> Nat] /\ now' \in Nat
    <3>1. now' = now + 1 /\ now \in Nat
        BY <1>5 DEF BatchSucceeds, TypeOK
    <3>2. /\ status' = [status EXCEPT ![batch.day] = "succeeded"]
          /\ finished' = [finished EXCEPT ![batch.day] = now']
        BY <1>5 DEF BatchSucceeds
    <3>3. /\ status \in [Days -> {"none", "running", "succeeded", "errored"}]
          /\ finished \in [Days -> Nat]
        BY DEF TypeOK
    <3>4. now' \in Nat
        BY <3>1
    <3> QED
        BY <3>2, <3>3, <3>4
  <2>4. pc' = [pc EXCEPT !["batch"] = "lock"]
        /\ UNCHANGED <<content, lock, todo, due, copied, started, spool, budget>>
        /\ batch' = NoBatch /\ forgotten' \subseteq forgotten
      BY <1>5 DEF BatchSucceeds, Goto
  <2>5. TypeOK'
      BY <2>2, <2>3, <2>4 DEF TypeOK, spool
  <2>6. LockInv'
      BY <2>1, <2>4 DEF TypeOK, LockInv, Busy
  <2> QED
      BY <1>2, <2>5, <2>6
<1>6. CASE BatchFails
  <2>1. NoBatch \in [day : 0..LastDay, left : SUBSET Partitions]
      BY ConstantFacts DEF NoBatch
  <2>2. status' \in [Days -> {"none", "running", "succeeded", "errored"}]
      BY <1>6 DEF BatchFails, TypeOK
  <2>3. TypeOK'
      BY <1>6, <2>1, <2>2 DEF BatchFails, TypeOK, runner, spool
  <2>4. LockInv'
      BY <1>6 DEF BatchFails, LockInv, Busy, runner
  <2> QED
      BY <1>2, <2>3, <2>4
<1>7. ASSUME NEW d \in Days, FetchFails(d) PROVE TypeOK' /\ LockInv'
  <2>1. /\ status' \in [Days -> {"none", "running", "succeeded", "errored"}]
        /\ finished' \in [Days -> Nat] /\ forgotten' \subseteq Days
      BY <1>7 DEF FetchFails, TypeOK
  <2>2. budget' \in [batches : Nat, backups : Nat, failures : Nat]
      BY <1>7 DEF FetchFails, TypeOK
  <2>3. TypeOK'
      BY <1>7, <2>1, <2>2 DEF FetchFails, TypeOK, runner, spool
  <2>4. LockInv'
      BY <1>7 DEF FetchFails, LockInv, Busy, runner
  <2> QED
      BY <2>3, <2>4
<1> QED
    BY <1>2, <1>3, <1>4, <1>5, <1>6, <1>7 DEF BatchStep

(* A run that ends in any way gives the lock back. *)
LEMMA ReleaseKeepsInv ==
    ASSUME SpoolInv, NEW r \in Runners, Busy(r), Release(r),
           UNCHANGED <<table, spool>>, budget' \in [batches : Nat, backups : Nat, failures : Nat]
    PROVE  SpoolInv'
<1> USE DEF SpoolInv, Release, Goto
<1>1. TypeOK'
    BY DEF TypeOK, table, spool, None
<1>2. DumpsComplete'
    BY DEF DumpsComplete, spool
<1>3. lock = r
    BY DEF LockInv
<1>4. r \in {"batch", "cli"}
    BY DEF Runners
<1>5. LockInv'
    BY <1>3, <1>4 DEF TypeOK, LockInv, Busy, table, Runners
<1> QED
    BY <1>1, <1>2, <1>5

(* A dump is not torn, because its runner holds the lock. *)
LEMMA RenameKeepsInv ==
    ASSUME SpoolInv, NEW r \in Runners, NEW part \in Partitions, RenameDump(r, part)
    PROVE  SpoolInv'
<1> USE DEF SpoolInv
<1>1. pc[r] = "rename" /\ UNCHANGED <<table, lock, todo, due, copied, started, manifest, volume, budget>>
      /\ pc' = [pc EXCEPT ![r] = "manifest"]
    BY DEF RenameDump, Goto
<1>2. Alone(r, part)
    BY <1>1 DEF Alone, LockInv, Busy
<1>3. dump' = [dump EXCEPT ![part] = copied[r]] /\ copied[r] \in Nat
    BY <1>2 DEF RenameDump, TypeOK
<1>4. TypeOK'
    BY <1>1, <1>3 DEF TypeOK, table
<1>5. LockInv'
    BY <1>1 DEF TypeOK, LockInv, Busy, table
<1>6. DumpsComplete'
    BY <1>1, <1>3, ConstantFacts DEF DumpsComplete, TypeOK
<1> QED
    BY <1>4, <1>5, <1>6

(* The other steps of a run leave the dumps alone. *)
LEMMA BackupStepKeepsInv ==
    ASSUME SpoolInv, NEW r \in Runners, BackupStep(r)
    PROVE  SpoolInv'
<1> USE DEF SpoolInv, Goto
<1>1. CASE AcquireLock(r)
  <2>1. pc[r] = "lock" /\ UNCHANGED <<table, todo, copied, started, spool, budget>>
      BY <1>1 DEF AcquireLock
  <2>2. DumpsComplete'
      BY <2>1 DEF DumpsComplete, spool
  <2>3. lock # r
      BY <2>1 DEF LockInv, Busy
  <2>4. CASE lock = "nobody"
    <3>1. lock' = r /\ UNCHANGED due
          /\ (pc' = [pc EXCEPT ![r] = "latest"] \/ pc' = [pc EXCEPT ![r] = "dump"])
        BY <1>1, <2>4 DEF AcquireLock
    <3>2. TypeOK'
        BY <2>1, <3>1 DEF TypeOK, table, spool
    <3>3. \A q \in Runners : q # "nobody"
        BY DEF Runners
    <3>4. Busy(r)' /\ lock' = r
        BY <3>1 DEF TypeOK, Busy
    <3>5. \A q \in Runners \ {r} : pc'[q] = pc[q] /\ ~Busy(q)
        BY <2>4, <3>1, <3>3 DEF TypeOK, LockInv
    <3>6. \A q \in Runners \ {r} : ~Busy(q)' /\ lock' # q
        BY <3>4, <3>5 DEF Busy
    <3>7. (batch # NoBatch => pc["batch"] = "idle")'
      <4>1. batch' = batch
          BY <2>1 DEF table
      <4>2. batch # NoBatch => pc["batch"] = "idle" /\ r # "batch"
          BY <2>1 DEF LockInv
      <4>3. r # "batch" => pc'["batch"] = pc["batch"]
          BY <3>1 DEF TypeOK, Runners
      <4> QED
          BY <4>1, <4>2, <4>3
    <3>8. LockInv'
        BY <3>4, <3>6, <3>7 DEF LockInv
    <3> QED
        BY <2>2, <3>2, <3>8
  <2>5. CASE lock # "nobody"
    <3>1. pc' = [pc EXCEPT ![r] = "idle"] /\ due' = [due EXCEPT ![r] = {}] /\ UNCHANGED lock
        BY <1>1, <2>5 DEF AcquireLock
    <3>2. TypeOK'
        BY <2>1, <3>1 DEF TypeOK, table, spool
    <3>3. LockInv'
        BY <2>1, <2>3, <3>1 DEF TypeOK, LockInv, Busy, table
    <3> QED
        BY <2>2, <3>2, <3>3
  <2> QED
      BY <2>4, <2>5
<1>2. CASE ReadLatestBatch(r)
  <2>1. {part \in Partitions : Settled(part)} \in SUBSET Partitions
      OBVIOUS
  <2> QED
      BY <1>2, <2>1 DEF ReadLatestBatch, TypeOK, LockInv, Busy, DumpsComplete, table, spool
<1>3. CASE EndScan(r)
    BY <1>3 DEF EndScan, TypeOK, LockInv, Busy, DumpsComplete, table, spool
<1>4. CASE OpenTemporary(r)
    BY <1>4 DEF OpenTemporary, TypeOK, LockInv, Busy, DumpsComplete, table, spool
<1>5. CASE EndBackup(r)
    BY <1>5, ReleaseKeepsInv DEF EndBackup, Busy, TypeOK
<1>6. ASSUME NEW part \in Partitions, Examine(r, part) PROVE SpoolInv'
  <2>1. todo' \in [Runners -> SUBSET Partitions] /\ due' \in [Runners -> SUBSET Partitions]
      BY <1>6 DEF Examine, TypeOK
  <2> QED
      BY <1>6, <2>1 DEF Examine, TypeOK, LockInv, Busy, DumpsComplete, table, spool
<1>7. ASSUME NEW part \in Partitions, CopyRows(r, part) PROVE SpoolInv'
  <2>1. copied' \in [Runners -> Nat]
      BY <1>7 DEF CopyRows, TypeOK
  <2> QED
      BY <1>7, <2>1 DEF CopyRows, TypeOK, LockInv, Busy, DumpsComplete, table, spool
<1>8. ASSUME NEW part \in Partitions, WriteManifest(r, part) PROVE SpoolInv'
  <2>1. /\ manifest' \in [Partitions -> [version : Nat, at : Nat, shipped : BOOLEAN]]
        /\ due' \in [Runners -> SUBSET Partitions] /\ copied' \in [Runners -> Nat]
      BY <1>8 DEF WriteManifest, TypeOK, None
  <2> QED
      BY <1>8, <2>1 DEF WriteManifest, TypeOK, LockInv, Busy, DumpsComplete, table
<1> QED
    BY <1>1, <1>2, <1>3, <1>4, <1>5, <1>6, <1>7, <1>8, RenameKeepsInv DEF BackupStep

(* A dump on the volume was one in the spool. *)
LEMMA HostsKeepInv ==
    ASSUME SpoolInv, NEW part \in Partitions, Ship(part) \/ VerifyMissing(part)
    PROVE  SpoolInv'
<1> USE DEF SpoolInv
<1>1. UNCHANGED <<table, runner>>
    BY DEF Ship, VerifyMissing
<1>2. LockInv'
    BY <1>1 DEF LockInv, Busy, table, runner
<1>3. CASE Ship(part)
  <2>1. /\ volume' = [volume EXCEPT ![part] = dump[part]]
        /\ dump' = [dump EXCEPT ![part] = None]
        /\ manifest' = [manifest EXCEPT ![part].shipped = TRUE]
        /\ UNCHANGED budget
      BY <1>3 DEF Ship
  <2>2. TypeOK'
      BY <1>1, <2>1 DEF TypeOK, table, runner, None
  <2>3. DumpsComplete'
      BY <2>1, ConstantFacts DEF DumpsComplete, TypeOK, None
  <2> QED
      BY <1>2, <2>2, <2>3
<1>4. CASE VerifyMissing(part)
  <2>1. NoManifest \in [version : Nat, at : Nat, shipped : BOOLEAN]
      BY DEF NoManifest, None
  <2>2. /\ volume' = [volume EXCEPT ![part] = None]
        /\ manifest' = [manifest EXCEPT ![part] = NoManifest]
        /\ UNCHANGED dump
        /\ budget' \in [batches : Nat, backups : Nat, failures : Nat]
      BY <1>4 DEF VerifyMissing, TypeOK
  <2>3. TypeOK'
      BY <1>1, <2>1, <2>2 DEF TypeOK, table, runner, None
  <2>4. DumpsComplete'
      BY <2>2, ConstantFacts DEF DumpsComplete, TypeOK, None
  <2> QED
      BY <1>2, <2>3, <2>4
<1> QED
    BY <1>3, <1>4

LEMMA NextSpoolInv == SpoolInv /\ [Next]_vars => SpoolInv'
<1> SUFFICES ASSUME SpoolInv, [Next]_vars PROVE SpoolInv'
    OBVIOUS
<1>1. CASE UNCHANGED vars
    BY <1>1 DEF vars, SpoolInv, TypeOK, LockInv, Busy, DumpsComplete
<1>2. ASSUME NEW named \in SUBSET Partitions, StartBackup(named) PROVE SpoolInv'
  <2>1. pc["cli"] = "idle" /\ "cli" \in Runners
      BY <1>2 DEF StartBackup, Runners
  <2>2. budget' \in [batches : Nat, backups : Nat, failures : Nat]
      BY <1>2 DEF StartBackup, SpoolInv, TypeOK
  <2>3. TypeOK'
      BY <1>2, <2>2 DEF StartBackup, Goto, SpoolInv, TypeOK, table, spool
  <2>4. LockInv'
      BY <1>2, <2>1 DEF StartBackup, Goto, SpoolInv, TypeOK, LockInv, Busy, table
  <2>5. DumpsComplete'
      BY <1>2 DEF StartBackup, SpoolInv, DumpsComplete, spool
  <2> QED
      BY <2>3, <2>4, <2>5 DEF SpoolInv
<1>3. ASSUME NEW r \in Runners, BackupFails(r) PROVE SpoolInv'
  <2>1. budget' \in [batches : Nat, backups : Nat, failures : Nat]
      BY <1>3 DEF BackupFails, SpoolInv, TypeOK
  <2> QED
      BY <1>3, <2>1, ReleaseKeepsInv DEF BackupFails, Busy
<1> QED
    BY <1>1, <1>2, <1>3, BatchesKeepInv, BackupStepKeepsInv, HostsKeepInv DEF Next

(* Exactly the run that is past exclusive_run holds the lock, and its dumps *)
(* are whole, in every reachable state.                                     *)
THEOREM SpoolInvariant == Spec => []SpoolInv
<1> QED
    BY InitSpoolInv, NextSpoolInv, PTL DEF Spec

(* Every reachable state has the types of TypeOK. *)
THEOREM BackupTypeCorrect == Spec => []TypeOK
<1>1. SpoolInv => TypeOK
    BY DEF SpoolInv
<1> QED
    BY <1>1, SpoolInvariant, PTL

(* No dump in the spool or on the volume was written by two runs at once. *)
THEOREM DumpsNeverTorn == Spec => []DumpsComplete
<1>1. SpoolInv => DumpsComplete
    BY DEF SpoolInv
<1> QED
    BY <1>1, SpoolInvariant, PTL

-----------------------------------------------------------------------------
(* Why what is passed over is backed up.  A version that is not the one in *)
(* the table has been overtaken by a batch, and that batch shows in        *)
(* ingest_batches: it is unfinished, or failed, or finished after t, or    *)
(* its row has been deleted.                                               *)

Overtaken(part, t) ==
    \E d \in Days : /\ part \in Touches(d)
                    /\ \/ status[d] \in {"running", "errored"}
                       \/ d \in forgotten
                       \/ status[d] = "succeeded" /\ finished[d] > t

(* A batch that writes is recorded as running. *)
BatchInv ==
    batch # NoBatch => /\ batch.day \in Days /\ batch.left \subseteq Touches(batch.day)
                       /\ status[batch.day] = "running"

ClockInv ==
    /\ \A r \in Runners : started[r] <= now
    /\ \A part \in Partitions : manifest[part].at <= now

(* The dump in the spool is at least as new as its manifest, and the one   *)
(* that was shipped is the one that the manifest describes.                *)
FileInv ==
    \A part \in Partitions :
        /\ dump[part] <= content[part] /\ manifest[part].version <= content[part]
        /\ dump[part] # None => manifest[part].version <= dump[part]
        /\ manifest[part].shipped => volume[part] = manifest[part].version
        /\ manifest[part] # NoManifest /\ manifest[part].version # content[part]
              => Overtaken(part, manifest[part].at)

(* The same of the rows that a run has copied and not recorded yet. *)
Copied(r, part) == pc[r] \in {"rename", "manifest"} /\ IsDumping(r, part)

CopyInv ==
    \A r \in Runners, part \in Partitions :
        Copied(r, part) =>
            /\ copied[r] <= content[part] /\ manifest[part].version <= copied[r]
            /\ copied[r] # content[part] => Overtaken(part, started[r])
            /\ pc[r] = "manifest" => dump[part] \in {None, copied[r]}

BackupInv == SpoolInv /\ BatchInv /\ ClockInv /\ FileInv /\ CopyInv

TableStep ==
    \/ \E d \in Days : BeginBatch(d) \/ FetchFails(d)
    \/ BatchStep \/ BatchFails

(* What the table knows about its partitions after a step: no version goes *)
(* back, a new one is known to overtake the others, and what was overtaken *)
(* stays so.                                                               *)
LEMMA TableStepKnows ==
    ASSUME SpoolInv, BatchInv, TableStep
    PROVE  /\ BatchInv'
           /\ now' \in Nat /\ now <= now'
           /\ \A part \in Partitions : content[part] <= content'[part]
           /\ \A part \in Partitions, t \in Nat :
                 t <= now /\ (Overtaken(part, t) \/ content'[part] # content[part])
                    => Overtaken(part, t)'
<1> USE DEF SpoolInv
<1> DEFINE Keeps == \A part \in Partitions, t \in Nat :
                 t <= now /\ Overtaken(part, t) => Overtaken(part, t)'
<1>a. /\ now \in Nat /\ content \in [Partitions -> Nat \ {0}]
      /\ finished \in [Days -> Nat] /\ forgotten \subseteq Days
      /\ status \in [Days -> {"none", "running", "succeeded", "errored"}]
    BY DEF TypeOK
<1>b. 0 \notin Days /\ NoBatch.day = 0
    BY DEF Days, NoBatch
<1>1. ASSUME NEW d \in Days, BeginBatch(d) PROVE BatchInv' /\ Keeps
  <2>1. /\ status' = [status EXCEPT ![d] = "running"]
        /\ batch' = [day |-> d, left |-> Touches(d)]
        /\ finished' = finished /\ forgotten' = forgotten
      BY <1>1 DEF BeginBatch
  <2>2. BatchInv'
      BY <1>a, <2>1 DEF BatchInv, Touches
  <2>3. Keeps
      BY <1>a, <2>1 DEF Overtaken, Touches
  <2> QED
      BY <2>2, <2>3
<1>2. ASSUME NEW d \in Days, FetchFails(d) PROVE BatchInv' /\ Keeps
  <2>1. /\ status' = [status EXCEPT ![d] = "none"]
        /\ finished' = [finished EXCEPT ![d] = 0]
        /\ forgotten' = forgotten \cup {d}
        /\ batch = NoBatch /\ batch' = batch
      BY <1>2 DEF FetchFails
  <2>2. BatchInv'
      BY <2>1 DEF BatchInv, NoBatch
  <2>3. Keeps
      BY <1>a, <2>1 DEF Overtaken, Touches
  <2> QED
      BY <2>2, <2>3
<1>3. ASSUME NEW written \in Partitions, WriteRows(written)
      PROVE  BatchInv' /\ Keeps /\ \A t \in Nat : Overtaken(written, t)'
  <2>1. /\ batch' = [batch EXCEPT !.left = @ \ {written}]
        /\ status' = status /\ finished' = finished /\ forgotten' = forgotten
        /\ written \in batch.left
      BY <1>3 DEF WriteRows
  <2>2. batch # NoBatch
      BY <2>1 DEF NoBatch
  <2>3. batch.day \in Days /\ batch.left \subseteq Touches(batch.day) /\ status[batch.day] = "running"
      BY <2>2 DEF BatchInv
  <2>4. batch'.day = batch.day /\ batch'.left \subseteq batch.left
      BY <2>1 DEF TypeOK
  <2>5. BatchInv'
      BY <2>1, <2>3, <2>4 DEF BatchInv, Touches
  <2>6. Keeps
      BY <2>1 DEF Overtaken, Touches
  <2>7. \A t \in Nat : Overtaken(written, t)'
      BY <2>1, <2>3 DEF Overtaken, Touches
  <2> QED
      BY <2>5, <2>6, <2>7
<1>4. ASSUME BatchSucceeds PROVE BatchInv' /\ Keeps
  <2>1. batch # NoBatch /\ batch.day \in Days
      BY <1>4 DEF BatchSucceeds, BatchInv
  <2>2. /\ status' = [status EXCEPT ![batch.day] = "succeeded"]
        /\ finished' = [finished EXCEPT ![batch.day] = now + 1]
        /\ forgotten' = forgotten \ {batch.day}
        /\ batch' = NoBatch /\ now' = now + 1
      BY <1>4 DEF BatchSucceeds
  <2>3. BatchInv'
      BY <2>2 DEF BatchInv, NoBatch
  <2>4. ASSUME NEW part \in Partitions, NEW t \in Nat, t <= now, Overtaken(part, t)
        PROVE  Overtaken(part, t)'
    <3>1. PICK d \in Days : /\ part \in Touches(d)
                            /\ \/ status[d] \in {"running", "errored"}
                               \/ d \in forgotten
                               \/ status[d] = "succeeded" /\ finished[d] > t
        BY <2>4 DEF Overtaken
    <3>2. part \in Touches(d)'
        BY <3>1 DEF Touches
    <3>3. CASE d = batch.day
        BY <1>a, <2>1, <2>2, <2>4, <3>2, <3>3 DEF Overtaken
    <3>4. CASE d # batch.day
        BY <1>a, <2>1, <2>2, <3>1, <3>2, <3>4 DEF Overtaken
    <3> QED
        BY <3>3, <3>4
  <2> QED
      BY <2>3, <2>4
<1>5. ASSUME BatchFails PROVE BatchInv' /\ Keeps
  <2>1. batch # NoBatch /\ batch.day \in Days /\ status[batch.day] = "running"
      BY <1>5 DEF BatchFails, BatchInv
  <2>2. /\ status' = [status EXCEPT ![batch.day] = "errored"] \/ status' = status
        /\ finished' = finished /\ forgotten' = forgotten /\ batch' = NoBatch
      BY <1>5 DEF BatchFails
  <2>3. BatchInv'
      BY <2>2 DEF BatchInv, NoBatch
  <2>4. Keeps
      BY <1>a, <2>1, <2>2 DEF Overtaken, Touches
  <2> QED
      BY <2>3, <2>4
<1>6. CASE \E part \in Partitions : WriteRows(part)
  <2>1. PICK written \in Partitions : WriteRows(written)
      BY <1>6
  <2>2. content' = [content EXCEPT ![written] = @ + 1] /\ now' = now
      BY <2>1 DEF WriteRows
  <2>3. \A part \in Partitions : content[part] <= content'[part]
                                 /\ (content'[part] # content[part] => part = written)
      BY <1>a, <2>2
  <2> QED
      BY <1>3, <1>a, <2>1, <2>2, <2>3
<1>7. CASE ~(\E part \in Partitions : WriteRows(part))
  <2>1. content' = content /\ (now' = now \/ now' = now + 1)
      BY <1>7 DEF TableStep, BatchStep, BeginBatch, FetchFails, BatchSucceeds, BatchFails
  <2>2. BatchInv' /\ Keeps
      BY <1>1, <1>2, <1>4, <1>5, <1>7 DEF TableStep, BatchStep
  <2>3. now' \in Nat /\ now <= now'
      BY <1>a, <2>1
  <2>4. \A part \in Partitions : content[part] <= content'[part]
      BY <1>a, <2>1
  <2> QED
      BY <2>1, <2>2, <2>3, <2>4
<1> QED
    BY <1>6, <1>7

LEMMA InitBackupInv == Init => BackupInv
<1> SUFFICES ASSUME Init PROVE BackupInv
    OBVIOUS
<1>1. SpoolInv
    BY InitSpoolInv
<1>2. BatchInv
    BY DEF Init, BatchInv
<1>3. ClockInv
    BY DEF Init, ClockInv, NoManifest
<1>4. FileInv
    BY DEF Init, FileInv, NoManifest, None
<1>5. CopyInv
    BY DEF Init, CopyInv, Copied
<1> QED
    BY <1>1, <1>2, <1>3, <1>4, <1>5 DEF BackupInv

(* Batches: they leave the spool and the runs alone. *)
LEMMA TableKeepsBackupInv ==
    ASSUME BackupInv, SpoolInv', TableStep
    PROVE  BackupInv'
<1> USE DEF BackupInv
<1>1. /\ UNCHANGED <<lock, todo, due, copied, started, dump, manifest, volume>>
      /\ pc' = pc \/ pc' = [pc EXCEPT !["batch"] = "lock"]
    BY DEF TableStep, BatchStep, BeginBatch, FetchFails, BatchSucceeds, WriteRows, BatchFails,
           runner, spool, Goto
<1>2. /\ now \in Nat /\ content \in [Partitions -> Nat \ {0}]
      /\ content' \in [Partitions -> Nat \ {0}]
      /\ copied \in [Runners -> Nat] /\ started \in [Runners -> Nat]
      /\ dump \in [Partitions -> Nat \cup {Torn}]
      /\ manifest \in [Partitions -> [version : Nat, at : Nat, shipped : BOOLEAN]]
      /\ pc \in [Runners -> {"idle", "lock", "latest", "scan", "dump", "copy", "rename", "manifest"}]
    BY DEF SpoolInv, TypeOK
<1>3. \A part \in Partitions : dump[part] \in Nat
    BY <1>2 DEF SpoolInv, DumpsComplete
<1>4. /\ BatchInv' /\ now' \in Nat /\ now <= now'
      /\ \A part \in Partitions : content[part] <= content'[part]
      /\ \A part \in Partitions, t \in Nat :
            t <= now /\ (Overtaken(part, t) \/ content'[part] # content[part])
               => Overtaken(part, t)'
    BY TableStepKnows
<1>5. ClockInv'
    BY <1>1, <1>2, <1>4 DEF ClockInv
<1>6. FileInv'
  <2> SUFFICES ASSUME NEW part \in Partitions
               PROVE  /\ dump[part] <= content'[part] /\ manifest[part].version <= content'[part]
                      /\ dump[part] # None => manifest[part].version <= dump[part]
                      /\ manifest[part].shipped => volume[part] = manifest[part].version
                      /\ manifest[part] # NoManifest /\ manifest[part].version # content'[part]
                            => Overtaken(part, manifest[part].at)'
      BY <1>1 DEF FileInv
  <2>1. /\ content[part] \in Nat /\ content'[part] \in Nat /\ content[part] <= content'[part]
        /\ manifest[part].version \in Nat /\ manifest[part].at \in Nat /\ dump[part] \in Nat
        /\ manifest[part].at <= now
      BY <1>2, <1>3, <1>4 DEF ClockInv
  <2>2. /\ dump[part] <= content[part] /\ manifest[part].version <= content[part]
        /\ dump[part] # None => manifest[part].version <= dump[part]
        /\ manifest[part].shipped => volume[part] = manifest[part].version
        /\ manifest[part] # NoManifest /\ manifest[part].version # content[part]
              => Overtaken(part, manifest[part].at)
      BY DEF FileInv
  <2>3. dump[part] <= content'[part] /\ manifest[part].version <= content'[part]
      BY <2>1, <2>2
  <2>4. manifest[part] # NoManifest /\ manifest[part].version # content'[part]
            => Overtaken(part, manifest[part].at)'
      BY <1>1, <1>4, <2>1, <2>2 DEF Overtaken
  <2> QED
      BY <2>2, <2>3, <2>4
<1>7. CopyInv'
  <2> SUFFICES ASSUME NEW r \in Runners, NEW part \in Partitions, Copied(r, part)'
               PROVE  /\ copied[r] <= content'[part] /\ manifest[part].version <= copied[r]
                      /\ copied[r] # content'[part] => Overtaken(part, started[r])'
                      /\ pc'[r] = "manifest" => dump[part] \in {None, copied[r]}
      BY <1>1 DEF CopyInv
  <2>1. Copied(r, part) /\ pc'[r] = pc[r]
      BY <1>1, <1>2 DEF Copied, IsDumping
  <2>2. /\ content[part] \in Nat /\ content'[part] \in Nat /\ content[part] <= content'[part]
        /\ copied[r] \in Nat /\ started[r] \in Nat /\ started[r] <= now
      BY <1>2, <1>4 DEF ClockInv
  <2>3. /\ copied[r] <= content[part] /\ manifest[part].version <= copied[r]
        /\ copied[r] # content[part] => Overtaken(part, started[r])
        /\ pc[r] = "manifest" => dump[part] \in {None, copied[r]}
      BY <2>1 DEF CopyInv
  <2>4. copied[r] <= content'[part]
      BY <2>2, <2>3
  <2>5. copied[r] # content'[part] => Overtaken(part, started[r])'
      BY <1>1, <1>4, <2>2, <2>3 DEF Overtaken
  <2> QED
      BY <2>1, <2>3, <2>4, <2>5
<1> QED
    BY <1>4, <1>5, <1>6, <1>7

LEMMA BackupTypes ==
    ASSUME BackupInv
    PROVE  /\ now \in Nat /\ content \in [Partitions -> Nat \ {0}]
           /\ copied \in [Runners -> Nat] /\ started \in [Runners -> Nat]
           /\ todo \in [Runners -> SUBSET Partitions] /\ due \in [Runners -> SUBSET Partitions]
           /\ dump \in [Partitions -> Nat]
           /\ manifest \in [Partitions -> [version : Nat, at : Nat, shipped : BOOLEAN]]
           /\ volume \in [Partitions -> Nat \cup {Torn}]
           /\ pc \in [Runners -> {"idle", "lock", "latest", "scan", "dump", "copy", "rename", "manifest"}]
<1>1. TypeOK /\ DumpsComplete
    BY DEF BackupInv, SpoolInv
<1>2. dump \in [Partitions -> Nat]
    BY <1>1 DEF TypeOK, DumpsComplete
<1> QED
    BY <1>1, <1>2 DEF TypeOK

(* Steps that touch neither the table nor the spool, and begin no copy. *)
LEMMA RunKeepsBackupInv ==
    ASSUME BackupInv, SpoolInv', UNCHANGED <<table, spool>>,
           \A q \in Runners : started'[q] = started[q] \/ started'[q] <= now,
           \A q \in Runners, part \in Partitions :
              Copied(q, part)' => /\ Copied(q, part) /\ pc'[q] = pc[q]
                                  /\ copied'[q] = copied[q] /\ started'[q] = started[q]
    PROVE  BackupInv'
<1> USE DEF BackupInv
<1>1. BatchInv'
    BY DEF BatchInv, table, Touches
<1>2. ClockInv'
    BY DEF ClockInv, table, spool
<1>3. FileInv'
    BY DEF FileInv, table, spool, Overtaken
<1>4. CopyInv'
  <2> SUFFICES ASSUME NEW q \in Runners, NEW part \in Partitions, Copied(q, part)'
               PROVE  (/\ copied[q] <= content[part] /\ manifest[part].version <= copied[q]
                       /\ copied[q] # content[part] => Overtaken(part, started[q])
                       /\ pc[q] = "manifest" => dump[part] \in {None, copied[q]})'
      BY DEF CopyInv
  <2>1. Copied(q, part) /\ pc'[q] = pc[q] /\ copied'[q] = copied[q] /\ started'[q] = started[q]
      OBVIOUS
  <2>2. /\ copied[q] <= content[part] /\ manifest[part].version <= copied[q]
        /\ copied[q] # content[part] => Overtaken(part, started[q])
        /\ pc[q] = "manifest" => dump[part] \in {None, copied[q]}
      BY <2>1 DEF CopyInv
  <2> QED
      BY <2>1, <2>2 DEF table, spool, Overtaken
<1> QED
    BY <1>1, <1>2, <1>3, <1>4

(* A run that does not hold the lock has copied nothing. *)
LEMMA OneRunCopies ==
    ASSUME BackupInv, NEW r \in Runners, NEW q \in Runners \ {r}, Busy(r)
    PROVE  pc[q] \in {"idle", "lock"}
BY DEF BackupInv, SpoolInv, LockInv, Busy

LEMMA CopyRowsKeepsBackupInv ==
    ASSUME BackupInv, SpoolInv', NEW r \in Runners, NEW part \in Partitions, CopyRows(r, part)
    PROVE  BackupInv'
<1> USE DEF BackupInv
<1>1. /\ pc[r] = "copy" /\ IsDumping(r, part)
      /\ copied' = [copied EXCEPT ![r] = content[part]]
      /\ pc' = [pc EXCEPT ![r] = "rename"]
      /\ UNCHANGED <<table, lock, todo, due, started, spool, budget>>
    BY DEF CopyRows, Goto
<1>2. BatchInv' /\ ClockInv' /\ FileInv'
    BY <1>1 DEF BatchInv, ClockInv, FileInv, table, spool, Touches, Overtaken
<1>3. CopyInv'
  <2> SUFFICES ASSUME NEW q \in Runners, NEW other \in Partitions, Copied(q, other)'
               PROVE  (/\ copied[q] <= content[other] /\ manifest[other].version <= copied[q]
                       /\ copied[q] # content[other] => Overtaken(other, started[q])
                       /\ pc[q] = "manifest" => dump[other] \in {None, copied[q]})'
      BY DEF CopyInv
  <2>1. q = r
      BY <1>1, OneRunCopies, BackupTypes DEF Copied, Busy
  <2>2. other = part
    <3>1. IsDumping(r, other)
        BY <1>1, <2>1 DEF Copied, IsDumping
    <3>2. other \in Nat /\ part \in Nat
        BY BackupConstants
    <3> QED
        BY <1>1, <3>1, <3>2 DEF IsDumping
  <2>3. copied'[r] = content[part] /\ pc'[r] = "rename" /\ content[part] \in Nat
      BY <1>1, BackupTypes
  <2>4. manifest[part].version <= content[part]
      BY DEF FileInv
  <2> QED
      BY <1>1, <2>1, <2>2, <2>3, <2>4 DEF table, spool
<1> QED
    BY <1>2, <1>3

LEMMA RenameKeepsBackupInv ==
    ASSUME BackupInv, SpoolInv', NEW r \in Runners, NEW part \in Partitions, RenameDump(r, part)
    PROVE  BackupInv'
<1> USE DEF BackupInv
<1>1. /\ pc[r] = "rename" /\ IsDumping(r, part)
      /\ pc' = [pc EXCEPT ![r] = "manifest"]
      /\ UNCHANGED <<table, lock, todo, due, copied, started, manifest, volume, budget>>
    BY DEF RenameDump, Goto
<1>2. \A q \in Runners \ {r} : pc[q] \in {"idle", "lock"}
    BY <1>1, OneRunCopies DEF Busy
<1>3. dump' = [dump EXCEPT ![part] = copied[r]]
    BY <1>2 DEF RenameDump, Alone
<1>4. /\ copied[r] <= content[part] /\ manifest[part].version <= copied[r]
      /\ copied[r] # content[part] => Overtaken(part, started[r])
    BY <1>1 DEF CopyInv, Copied
<1>5. BatchInv' /\ ClockInv'
    BY <1>1 DEF BatchInv, ClockInv, table, Touches
<1>6. FileInv'
  <2> SUFFICES ASSUME NEW other \in Partitions
               PROVE  /\ dump'[other] <= content[other] /\ manifest[other].version <= content[other]
                      /\ dump'[other] # None => manifest[other].version <= dump'[other]
                      /\ manifest[other].shipped => volume[other] = manifest[other].version
                      /\ manifest[other] # NoManifest /\ manifest[other].version # content[other]
                            => Overtaken(other, manifest[other].at)
      BY <1>1 DEF FileInv, table, Overtaken
  <2>1. /\ dump[other] <= content[other] /\ manifest[other].version <= content[other]
        /\ dump[other] # None => manifest[other].version <= dump[other]
        /\ manifest[other].shipped => volume[other] = manifest[other].version
        /\ manifest[other] # NoManifest /\ manifest[other].version # content[other]
              => Overtaken(other, manifest[other].at)
      BY DEF FileInv
  <2>2. dump'[other] = IF other = part THEN copied[r] ELSE dump[other]
      BY <1>3, BackupTypes
  <2> QED
      BY <1>4, <2>1, <2>2
<1>7. CopyInv'
  <2> SUFFICES ASSUME NEW q \in Runners, NEW other \in Partitions, Copied(q, other)'
               PROVE  (/\ copied[q] <= content[other] /\ manifest[other].version <= copied[q]
                       /\ copied[q] # content[other] => Overtaken(other, started[q])
                       /\ pc[q] = "manifest" => dump[other] \in {None, copied[q]})'
      BY DEF CopyInv
  <2>1. q = r
      BY <1>1, <1>2, BackupTypes DEF Copied
  <2>2. other = part
    <3>1. IsDumping(r, other)
        BY <1>1, <2>1 DEF Copied, IsDumping
    <3>2. other \in Nat /\ part \in Nat
        BY BackupConstants
    <3> QED
        BY <1>1, <3>1, <3>2 DEF IsDumping
  <2>3. dump'[part] = copied[r]
      BY <1>3, BackupTypes
  <2> QED
      BY <1>1, <1>4, <2>1, <2>2, <2>3 DEF table, Overtaken
<1> QED
    BY <1>5, <1>6, <1>7

(* The manifest says of the dump what CopyInv says of the rows. *)
LEMMA ManifestKeepsBackupInv ==
    ASSUME BackupInv, SpoolInv', NEW r \in Runners, NEW part \in Partitions, WriteManifest(r, part)
    PROVE  BackupInv'
<1> USE DEF BackupInv
<1>1. /\ pc[r] = "manifest" /\ IsDumping(r, part)
      /\ pc' = [pc EXCEPT ![r] = "dump"]
      /\ manifest' = [manifest EXCEPT ![part] =
                          [version |-> copied[r], at |-> started[r], shipped |-> FALSE]]
      /\ UNCHANGED <<table, lock, todo, started, dump, volume, budget>>
    BY DEF WriteManifest, Goto
<1>2. \A q \in Runners \ {r} : pc[q] \in {"idle", "lock"}
    BY <1>1, OneRunCopies DEF Busy
<1>3. /\ copied[r] <= content[part]
      /\ copied[r] # content[part] => Overtaken(part, started[r])
      /\ dump[part] \in {None, copied[r]}
      /\ copied[r] \in Nat /\ started[r] \in Nat /\ started[r] <= now
    BY <1>1, BackupTypes DEF CopyInv, Copied, ClockInv
<1>4. \A other \in Partitions : manifest'[other] =
          IF other = part THEN [version |-> copied[r], at |-> started[r], shipped |-> FALSE]
          ELSE manifest[other]
    BY <1>1, BackupTypes
<1>5. BatchInv'
    BY <1>1 DEF BatchInv, table, Touches
<1>6. ClockInv'
    BY <1>1, <1>3, <1>4 DEF ClockInv, table
<1>7. FileInv'
  <2> SUFFICES ASSUME NEW other \in Partitions
               PROVE  (/\ dump[other] <= content[other] /\ manifest[other].version <= content[other]
                       /\ dump[other] # None => manifest[other].version <= dump[other]
                       /\ manifest[other].shipped => volume[other] = manifest[other].version
                       /\ manifest[other] # NoManifest /\ manifest[other].version # content[other]
                             => Overtaken(other, manifest[other].at))'
      BY DEF FileInv
  <2>1. dump[other] <= content[other] /\ dump[other] \in Nat
      BY BackupTypes DEF FileInv
  <2>2. CASE other = part
    <3>1. manifest'[part] = [version |-> copied[r], at |-> started[r], shipped |-> FALSE]
        BY <1>4
    <3> QED
        BY <1>1, <1>3, <2>1, <2>2, <3>1 DEF table, Overtaken
  <2>3. CASE other # part
    <3>1. manifest'[other] = manifest[other]
        BY <1>4, <2>3
    <3> QED
        BY <1>1, <3>1 DEF FileInv, table, Overtaken
  <2> QED
      BY <2>2, <2>3
<1>8. CopyInv'
    BY <1>1, <1>2, BackupTypes DEF CopyInv, Copied
<1> QED
    BY <1>5, <1>6, <1>7, <1>8

LEMMA HostsKeepBackupInv ==
    ASSUME BackupInv, SpoolInv', NEW part \in Partitions, Ship(part) \/ VerifyMissing(part)
    PROVE  BackupInv'
<1> USE DEF BackupInv
<1>1. UNCHANGED <<table, runner>>
    BY DEF Ship, VerifyMissing
<1>2. BatchInv'
    BY <1>1 DEF BatchInv, table, Touches
<1> DEFINE New == manifest'[part]
<1>3. \A other \in Partitions \ {part} :
          manifest'[other] = manifest[other] /\ dump'[other] = dump[other] /\ volume'[other] = volume[other]
    BY BackupTypes DEF Ship, VerifyMissing
<1>4. /\ New.version \in {None, manifest[part].version} /\ New.at \in {0, manifest[part].at}
      /\ dump'[part] \in {None, dump[part]}
      /\ dump'[part] = dump[part] => New = NoManifest \/ dump[part] = None
      /\ New.shipped => volume'[part] = New.version
      /\ New # NoManifest => /\ manifest[part] # NoManifest
                             /\ New.version = manifest[part].version /\ New.at = manifest[part].at
  <2>1. CASE Ship(part)
    <3>1. /\ dump' = [dump EXCEPT ![part] = None] /\ volume' = [volume EXCEPT ![part] = dump[part]]
          /\ manifest' = [manifest EXCEPT ![part].shipped = TRUE]
          /\ dump[part] = manifest[part].version /\ manifest[part] # NoManifest
        BY <2>1 DEF Ship
    <3>2. dump'[part] = None /\ volume'[part] = dump[part]
          /\ New = [manifest[part] EXCEPT !.shipped = TRUE]
        BY <3>1, BackupTypes
    <3>3. /\ New.version = manifest[part].version /\ New.at = manifest[part].at
          /\ manifest[part] \in [version : Nat, at : Nat, shipped : BOOLEAN]
        BY <3>2, BackupTypes
    <3> QED
        BY <3>1, <3>2, <3>3
  <2>2. CASE VerifyMissing(part)
    <3>1. dump' = dump /\ New = NoManifest
        BY <2>2, BackupTypes DEF VerifyMissing
    <3> QED
        BY <3>1 DEF NoManifest
  <2> QED
      BY <2>1, <2>2
<1>5. ClockInv'
  <2>1. \A other \in Partitions : manifest'[other].at <= now
      BY <1>3, <1>4, BackupTypes DEF ClockInv
  <2> QED
      BY <1>1, <2>1 DEF ClockInv, table, runner
<1>6. FileInv'
  <2> SUFFICES ASSUME NEW other \in Partitions
               PROVE  (/\ dump[other] <= content[other] /\ manifest[other].version <= content[other]
                       /\ dump[other] # None => manifest[other].version <= dump[other]
                       /\ manifest[other].shipped => volume[other] = manifest[other].version
                       /\ manifest[other] # NoManifest /\ manifest[other].version # content[other]
                             => Overtaken(other, manifest[other].at))'
      BY DEF FileInv
  <2>1. CASE other = part
    <3>1. /\ dump[part] <= content[part] /\ manifest[part].version <= content[part]
          /\ manifest[part] # NoManifest /\ manifest[part].version # content[part]
                => Overtaken(part, manifest[part].at)
        BY DEF FileInv
    <3>2. content[part] \in Nat /\ dump[part] \in Nat
        BY BackupTypes
    <3>3. dump'[part] <= content[part] /\ New.version <= content[part]
        BY <1>4, <3>1, <3>2 DEF None
    <3>4. dump'[part] # None => New.version <= dump'[part]
        BY <1>4, <3>2 DEF None, NoManifest
    <3>5. New # NoManifest /\ New.version # content[part] => Overtaken(part, New.at)
        BY <1>4, <3>1
    <3> QED
        BY <1>1, <1>4, <2>1, <3>3, <3>4, <3>5 DEF table, Overtaken
  <2>2. CASE other # part
      BY <1>1, <1>3, <2>2 DEF FileInv, table, Overtaken
  <2> QED
      BY <2>1, <2>2
<1>7. CopyInv'
  <2> SUFFICES ASSUME NEW r \in Runners, NEW other \in Partitions, Copied(r, other)'
               PROVE  (/\ copied[r] <= content[other] /\ manifest[other].version <= copied[r]
                       /\ copied[r] # content[other] => Overtaken(other, started[r])
                       /\ pc[r] = "manifest" => dump[other] \in {None, copied[r]})'
      BY DEF CopyInv
  <2>1. Copied(r, other)
      BY <1>1 DEF Copied, IsDumping, runner
  <2>2. /\ copied[r] <= content[other] /\ manifest[other].version <= copied[r]
        /\ copied[r] # content[other] => Overtaken(other, started[r])
        /\ pc[r] = "manifest" => dump[other] \in {None, copied[r]}
      BY <2>1 DEF CopyInv
  <2>3. manifest'[other].version <= copied[r] /\ dump'[other] \in {None, dump[other]}
      BY <1>3, <1>4, <2>2, BackupTypes DEF None
  <2> QED
      BY <1>1, <2>2, <2>3 DEF table, runner, Overtaken
<1> QED
    BY <1>2, <1>5, <1>6, <1>7

(* The steps of a run and the start of one. *)
LEMMA RunStepKeepsBackupInv ==
    ASSUME BackupInv, SpoolInv', NEW r \in Runners, BackupStep(r) \/ BackupFails(r)
    PROVE  BackupInv'
<1> DEFINE Idle(q) == pc'[q] \notin {"rename", "manifest"}
<1>1. ASSUME UNCHANGED <<table, spool>>,
             \A q \in Runners \ {r} : /\ pc'[q] = pc[q] /\ due'[q] = due[q]
                                       /\ copied'[q] = copied[q] /\ started'[q] = started[q],
             Idle(r), started'[r] = started[r] \/ started'[r] \in {0, now}
      PROVE  BackupInv'
  <2>1. \A q \in Runners : started'[q] = started[q] \/ started'[q] <= now
      BY <1>1, BackupTypes
  <2>2. \A q \in Runners, part \in Partitions :
            Copied(q, part)' => /\ Copied(q, part) /\ pc'[q] = pc[q]
                                /\ copied'[q] = copied[q] /\ started'[q] = started[q]
      BY <1>1 DEF Copied, IsDumping
  <2> QED
      BY <1>1, <2>1, <2>2, RunKeepsBackupInv
<1>2. CASE AcquireLock(r)
    BY <1>1, <1>2, BackupTypes DEF AcquireLock, Goto
<1>3. CASE ReadLatestBatch(r)
    BY <1>1, <1>3, BackupTypes DEF ReadLatestBatch, Goto
<1>4. CASE EndScan(r)
    BY <1>1, <1>4, BackupTypes DEF EndScan, Goto
<1>5. CASE OpenTemporary(r)
    BY <1>1, <1>5, BackupTypes DEF OpenTemporary, Goto
<1>6. CASE EndBackup(r)
    BY <1>1, <1>6, BackupTypes DEF EndBackup, Release, Goto
<1>7. CASE BackupFails(r)
    BY <1>1, <1>7, BackupTypes DEF BackupFails, Release, Goto
<1>8. ASSUME NEW part \in Partitions, Examine(r, part) PROVE BackupInv'
    BY <1>1, <1>8, BackupTypes DEF Examine
<1> QED
    BY <1>2, <1>3, <1>4, <1>5, <1>6, <1>7, <1>8, CopyRowsKeepsBackupInv, RenameKeepsBackupInv,
       ManifestKeepsBackupInv DEF BackupStep

LEMMA StartKeepsBackupInv ==
    ASSUME BackupInv, SpoolInv', NEW named \in SUBSET Partitions, StartBackup(named)
    PROVE  BackupInv'
<1>1. /\ pc' = [pc EXCEPT !["cli"] = "lock"] /\ due' = [due EXCEPT !["cli"] = named]
      /\ UNCHANGED <<table, copied, started, spool>>
    BY DEF StartBackup, Goto
<1>2. \A q \in Runners, part \in Partitions :
          Copied(q, part)' => /\ Copied(q, part) /\ pc'[q] = pc[q]
                              /\ copied'[q] = copied[q] /\ started'[q] = started[q]
    BY <1>1, BackupTypes DEF Copied, IsDumping
<1> QED
    BY <1>1, <1>2, RunKeepsBackupInv

LEMMA NextBackupInv == BackupInv /\ [Next]_vars => BackupInv'
<1> SUFFICES ASSUME BackupInv, [Next]_vars PROVE BackupInv'
    OBVIOUS
<1>1. SpoolInv'
    BY NextSpoolInv DEF BackupInv
<1>2. CASE UNCHANGED vars
  <2>1. UNCHANGED <<table, spool, pc, due, copied, started>>
      BY <1>2 DEF vars, table, spool
  <2> QED
      BY <1>1, <2>1, RunKeepsBackupInv DEF Copied, IsDumping
<1> QED
    BY <1>1, <1>2, TableKeepsBackupInv, RunStepKeepsBackupInv, StartKeepsBackupInv,
       HostsKeepBackupInv DEF Next, TableStep

(* A batch shows in the time of its day wherever partitions_due looks for  *)
(* it, which is where SETTLE_DAYS reaches.                                 *)
LEMMA OvertakenIsSeen ==
    ASSUME BackupInv, NEW part \in Partitions, NEW t \in Nat, OnRecord(part), Overtaken(part, t)
    PROVE  IngestedSince(part, t)
<1>1. PICK d \in Days : /\ part \in Touches(d)
                        /\ \/ status[d] \in {"running", "errored"}
                           \/ d \in forgotten
                           \/ status[d] = "succeeded" /\ finished[d] > t
    BY DEF Overtaken
<1>2. status[d] = "succeeded" /\ finished[d] > t
    BY <1>1 DEF OnRecord, NoFailedImport
<1>3. FirstDay(part) <= d /\ d - 2 < EndDay(part)
    BY <1>1 DEF Touches
<1>4. d \in Int /\ FirstDay(part) \in Int /\ EndDay(part) \in Int
    BY BackupConstants DEF Days, FirstDay, EndDay
<1>5. FirstDay(part) - SettleDays <= d /\ d <= EndDay(part) + SettleDays
    BY <1>3, <1>4, ConstantFacts
<1> QED
    BY <1>2, <1>5 DEF IngestedSince

LEMMA BackupInvBacksUp == BackupInv => PassedOverIsBackedUp
<1> SUFFICES ASSUME BackupInv, NEW part \in Partitions, ~NotCurrent(part), OnRecord(part)
             PROVE  BackedUp(part)
    BY DEF PassedOverIsBackedUp
<1>1. /\ content[part] \in Nat \ {0} /\ dump[part] \in Nat
      /\ manifest[part].at \in Nat /\ manifest[part].version \in Nat
    BY BackupTypes
<1>2. /\ manifest[part] # NoManifest
      /\ dump[part] # None \/ manifest[part].shipped
      /\ ~IngestedSince(part, manifest[part].at)
    BY DEF NotCurrent
<1>3. /\ dump[part] <= content[part]
      /\ dump[part] # None => manifest[part].version <= dump[part]
      /\ manifest[part].shipped => volume[part] = manifest[part].version
      /\ manifest[part].version # content[part] => Overtaken(part, manifest[part].at)
    BY <1>2 DEF BackupInv, FileInv
<1>4. manifest[part].version = content[part]
    BY <1>1, <1>2, <1>3, OvertakenIsSeen
<1>5. dump[part] # None => dump[part] = content[part]
    BY <1>1, <1>3, <1>4
<1> QED
    BY <1>2, <1>3, <1>4, <1>5 DEF BackedUp

(* What is not as it is in the table has been overtaken by a batch that    *)
(* ingest_batches knows of, in every reachable state.                      *)
THEOREM BackupInvariant == Spec => []BackupInv
<1> QED
    BY InitBackupInv, NextBackupInv, PTL DEF Spec

(* A settled partition that partitions_due passes over is on file as it    *)
(* stands in the table, unless an import of it failed or lost its row.     *)
THEOREM PassedOverBackedUp == Spec => []PassedOverIsBackedUp
<1> QED
    BY BackupInvariant, BackupInvBacksUp, PTL
=============================================================================
