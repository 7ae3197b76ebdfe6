------------------------------- MODULE Published -------------------------------
(***************************************************************************)
(* What a download promises whoever waits for the file: the destination is *)
(* absent or whole: it goes from one complete content to another in one    *)
(* step, and it is never taken away again.                                 *)
(***************************************************************************)
CONSTANTS
  Wholes,   \* the complete contents of the object
  Absent

VARIABLE file

Init == file = Absent

Publish == file' \in Wholes

Spec == Init /\ [][Publish]_file
=============================================================================
