------------------------------ MODULE CloudVm -------------------------------
(***************************************************************************)
(* The cloud-vm role with the flag-files role: what a playbook has done to *)
(* a VM is noted in flags, and a later run of the playbook skips it.  The  *)
(* run may be stopped after any task, and the VM restarted.  Root is on    *)
(* LVM: without, the role stops where it needs root_fs_base_dev, which it  *)
(* sets for LVM only (setup-root-partition.yml:130).  The VM is new, with  *)
(* a disk of at least twice its root partition and a root volume of less   *)
(* than 2000 extents, a fifth of the disk being more: for others the role  *)
(* has nothing to grow (:172, :255, :266).                                 *)
(***************************************************************************)
EXTENDS Naturals

CONSTANT MaxFaults

VARIABLES
  flags,      \* the flags on the VM
  keys,       \* its ssh keys are in place
  grown,      \* which of the layers under the root filesystem fill the disk
  pc,
  loaded,     \* flag_files.cloud_vm of this run
  resized,    \* this run has changed the partition: the task was not skipped
  faults

vars == <<flags, keys, grown, pc, loaded, resized, faults>>

Flag == {"ssh_access", "root_partition"}
Layer == {"partition", "kernel", "lv", "fs"}

Init ==
  /\ flags = {} /\ keys = FALSE
  /\ grown = {}
  /\ pc = "idle"
  /\ loaded = {}
  /\ resized = FALSE
  /\ faults = 0

(* load.yml, after clear.yml if clear_flags is set.                        *)
Load(clear) ==
  /\ pc = "idle"
  /\ flags' = IF clear THEN {} ELSE flags
  /\ loaded' = flags'
  /\ resized' = FALSE
  /\ pc' = IF "ssh_access" \in flags' THEN "root" ELSE "ssh"
  /\ UNCHANGED <<keys, grown, faults>>

SshAccess ==
  /\ pc = "ssh"
  /\ keys' = TRUE
  /\ pc' = "ssh_flag"
  /\ UNCHANGED <<flags, grown, loaded, resized, faults>>

(* set.yml                                                                 *)
SetFlag(label, flag, next) ==
  /\ pc = label
  /\ flags' = flags \cup {flag}
  /\ pc' = next
  /\ UNCHANGED <<keys, grown, loaded, resized, faults>>

RootPartition ==
  /\ pc = "root"
  /\ pc' = IF "root_partition" \in loaded THEN "idle" ELSE "fdisk"
  /\ UNCHANGED <<flags, keys, grown, loaded, resized, faults>>

(* The partition is rewritten if the disk is much larger ...               *)
ResizePartition ==
  /\ pc = "fdisk"
  /\ resized' = ("partition" \notin grown)
  /\ grown' = grown \cup {"partition"}
  /\ pc' = "reread"
  /\ UNCHANGED <<flags, keys, loaded, faults>>

(* ... and, when that task was not skipped, the kernel is told.            *)
ReadPartition ==
  /\ pc = "reread"
  /\ grown' = IF resized THEN grown \cup {"kernel"} ELSE grown
  /\ pc' = "lv"
  /\ UNCHANGED <<flags, keys, loaded, resized, faults>>

SlipResizeLv ==
  /\ pc = "lv"
  /\ grown' = IF "kernel" \in grown THEN grown \cup {"lv"} ELSE grown
  /\ pc' = "fs"
  /\ UNCHANGED <<flags, keys, loaded, resized, faults>>

(* pvresize and lvresize: a volume that was grown before is left alone;    *)
(* while the kernel does not know of the larger partition the group is too *)
(* small for what lvresize asks for, and the play fails.                   *)
ResizeLv ==
  /\ pc = "lv"
  /\ \/ /\ "kernel" \in grown
        /\ grown' = grown \cup {"lv"}
        /\ pc' = "fs"
     \/ /\ "kernel" \notin grown
        /\ pc' = "idle"
        /\ UNCHANGED grown
  /\ UNCHANGED <<flags, keys, loaded, resized, faults>>

(* resize2fs, unless the partition task was skipped.                       *)
ResizeFs ==
  /\ pc = "fs"
  /\ grown' = IF resized /\ "lv" \in grown THEN grown \cup {"fs"} ELSE grown
  /\ pc' = "flag"
  /\ UNCHANGED <<flags, keys, loaded, resized, faults>>

Kill ==
  /\ pc # "idle"
  /\ faults < MaxFaults
  /\ faults' = faults + 1
  /\ pc' = "idle"
  /\ UNCHANGED <<flags, keys, grown, loaded, resized>>

Restart ==
  /\ pc = "idle"
  /\ "partition" \in grown
  /\ grown' = grown \cup {"kernel"}
  /\ UNCHANGED <<flags, keys, pc, loaded, resized, faults>>

Next ==
  \/ \E clear \in BOOLEAN : Load(clear)
  \/ SshAccess \/ SetFlag("ssh_flag", "ssh_access", "root")
  \/ RootPartition \/ ResizePartition \/ ReadPartition \/ ResizeLv \/ ResizeFs
  \/ SetFlag("flag", "root_partition", "idle")
  \/ Kill \/ Restart

Spec == Init /\ [][Next]_vars

-----------------------------------------------------------------------------
TypeOK ==
  /\ flags \subseteq Flag /\ loaded \subseteq Flag
  /\ grown \subseteq Layer
  /\ keys \in BOOLEAN /\ resized \in BOOLEAN
  /\ pc \in {"idle", "ssh", "ssh_flag", "root", "fdisk", "reread", "lv", "fs", "flag"}
  /\ faults \in 0 .. MaxFaults

(* A flag is only found set when what it stands for was done to this VM,   *)
(* whichever runs were stopped or failed, and whatever was cleared and     *)
(* restarted between them: the keys are there, and the root volume has its *)
(* share of the disk.  That the filesystem fills the volume holds if no    *)
(* run was stopped (setup-root-partition.yml:262).                         *)
FlagsAreDeserved ==
  /\ "ssh_access" \in flags => keys
  /\ "root_partition" \in flags => {"partition", "kernel", "lv"} \subseteq grown
  /\ "root_partition" \in flags /\ faults = 0 => "fs" \in grown

(* "grow the root filesystem": before the role notes that it is done       *)
(* (setup-root-partition.yml:19).                                          *)
RootIsGrown == "root_partition" \in flags => "fs" \in grown
=============================================================================
