-------------------------- MODULE MCPartitionBackup --------------------------
(* Instances of PartitionBackup for TLC: partitions of one or two days, of *)
(* which the first is settled while the second is still being written.     *)
EXTENDS PartitionBackup
=============================================================================
