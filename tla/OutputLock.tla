------------------------------ MODULE OutputLock ------------------------------
(***************************************************************************)
(* lock.output_lock: an flock on a hidden sibling of the output.  The lock *)
(* belongs to the file that was opened, not to its name, so what matters   *)
(* is which file each process has open when it asks for the lock.          *)
(***************************************************************************)
EXTENDS Naturals

CONSTANTS Procs,     \* runs that write the same output
          Locking,   \* those that take the lock: not `wmrm batch`, not --no-lock
          NoProc,
          Inodes,    \* files (inodes) the name may stand for, one after another
          NoInode

ASSUME LockAssumption ==
  /\ Locking \subseteq Procs
  /\ NoProc \notin Procs
  /\ NoInode \notin Inodes

VARIABLES
  name,   \* the file .<output>.wmrm-lock stands for
  fd,     \* fd[p]: the file p has open
  owner,  \* owner[f]: the process that holds the flock on f
  at      \* at[p]: "idle", "opened", "writing", "refused"

lockVars == <<name, fd, owner, at>>

LockTypeOK ==
  /\ name \in Inodes \cup {NoInode}
  /\ fd \in [Procs -> Inodes \cup {NoInode}]
  /\ owner \in [Inodes -> Procs \cup {NoProc}]
  /\ at \in [Procs -> {"idle", "opened", "writing", "refused"}]
  /\ \A p \in Procs :
       fd[p] # NoInode <=> p \in Locking /\ at[p] \in {"opened", "writing"}

LockInit ==
  /\ name = NoInode
  /\ fd = [p \in Procs |-> NoInode]
  /\ owner = [f \in Inodes |-> NoProc]
  /\ at = [p \in Procs |-> "idle"]
-----------------------------------------------------------------------------
(* A file nobody has open any more.                                        *)
Unused(f) == f # name /\ \A p \in Procs : fd[p] # f

(* os.open with O_CREAT: the file the name stands for, or a new one.       *)
OpenLock(p) ==
  /\ p \in Locking
  /\ at[p] = "idle"
  /\ \E f \in Inodes :
       /\ IF name = NoInode THEN Unused(f) ELSE f = name
       /\ name' = f
       /\ fd' = [fd EXCEPT ![p] = f]
  /\ at' = [at EXCEPT ![p] = "opened"]
  /\ UNCHANGED owner

(* flock, LOCK_EX | LOCK_NB.                                               *)
Take(p) ==
  /\ at[p] = "opened"
  /\ owner[fd[p]] = NoProc
  /\ owner' = [owner EXCEPT ![fd[p]] = p]
  /\ at' = [at EXCEPT ![p] = "writing"]
  /\ UNCHANGED <<name, fd>>

(* The lock is held: OutputLocked, by way of the finally clause.           *)
Refused(p) ==
  /\ at[p] = "opened"
  /\ owner[fd[p]] # NoProc
  /\ fd' = [fd EXCEPT ![p] = NoInode]
  /\ at' = [at EXCEPT ![p] = "refused"]
  /\ UNCHANGED <<name, owner>>

(* enabled=False, or a caller that never asks.                             *)
Skip(p) ==
  /\ p \notin Locking
  /\ at[p] = "idle"
  /\ at' = [at EXCEPT ![p] = "writing"]
  /\ UNCHANGED <<name, fd, owner>>

(* Closing the descriptor, which is also what the kernel does for a        *)
(* process that dies: the flock goes with it.                              *)
Released(p) == [f \in Inodes |-> IF owner[f] = p THEN NoProc ELSE owner[f]]

(* Variants: the name is removed with the lock, and the lock outlives the  *)
(* process that held it.                                                   *)
CloseAndUnlink(p) ==
  /\ at[p] = "writing"
  /\ owner' = Released(p)
  /\ fd' = [fd EXCEPT ![p] = NoInode]
  /\ at' = [at EXCEPT ![p] = "idle"]
  /\ name' = NoInode

DieHolding(p) ==
  /\ at[p] # "idle"
  /\ fd' = [fd EXCEPT ![p] = NoInode]
  /\ at' = [at EXCEPT ![p] = "idle"]
  /\ UNCHANGED <<name, owner>>

(* The end of the block.  The name is left behind.                         *)
CloseLock(p) ==
  /\ at[p] = "writing"
  /\ owner' = Released(p)
  /\ fd' = [fd EXCEPT ![p] = NoInode]
  /\ at' = [at EXCEPT ![p] = "idle"]
  /\ UNCHANGED name

(* A run that was killed, or one that was refused and has exited; the same *)
(* command may be run again.                                               *)
Die(p) ==
  /\ at[p] # "idle"
  /\ owner' = Released(p)
  /\ fd' = [fd EXCEPT ![p] = NoInode]
  /\ at' = [at EXCEPT ![p] = "idle"]
  /\ UNCHANGED name

LockNext == \E p \in Procs :
  OpenLock(p) \/ Take(p) \/ Refused(p) \/ Skip(p) \/ CloseLock(p) \/ Die(p)

LockSpec == LockInit /\ [][LockNext]_lockVars
-----------------------------------------------------------------------------
(* One writer per output path among the runs that take the lock, whatever  *)
(* the order of opens, locks, closes and deaths, although the lock file is *)
(* opened before it is locked, and whatever runs that never ask do.        *)
OneWriter == \A p, q \in Locking : at[p] = "writing" /\ at[q] = "writing" => p = q

(* A run is refused only while another one is writing the output: a run    *)
(* that was killed leaves no lock behind, though it leaves the file.       *)
RefusedForCause == [][\A p \in Procs :
  at'[p] = "refused" /\ at[p] # "refused"
    => \E q \in Locking \ {p} : at[q] = "writing"]_lockVars

(* The writer, as ExclusiveWriter sees it.                                 *)
Holders == {p \in Locking : at[p] = "writing"}

Writer == IF Holders = {} THEN NoProc ELSE CHOOSE p \in Holders : TRUE

Promise == INSTANCE ExclusiveWriter WITH writer <- Writer

(* output_lock implements what lock.py promises.                           *)
PromiseKept == Promise!WriterSpec
=============================================================================
