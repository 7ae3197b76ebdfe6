--------------------------- MODULE ExclusiveWriter ---------------------------
(***************************************************************************)
(* What lock.py promises: one writer per output path.  A run writes the    *)
(* output only between Begin and End, and no second one begins meanwhile.  *)
(***************************************************************************)
CONSTANTS Procs,   \* the processes that want to write one output
          NoProc   \* nobody; not in Procs

VARIABLE writer   \* the process that is writing

WriterInit == writer = NoProc

Begin(p) == writer = NoProc /\ writer' = p

End(p) == writer = p /\ writer' = NoProc

WriterNext == \E p \in Procs : Begin(p) \/ End(p)

WriterSpec == WriterInit /\ [][WriterNext]_writer
=============================================================================
