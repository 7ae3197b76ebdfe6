-------------------------------- MODULE Reported --------------------------------
(***************************************************************************)
(* What posting an event promises whoever posts it: the receiver takes it  *)
(* in at most once, and an answer that it has is true.  An answer that it  *)
(* has not promises nothing.                                               *)
(***************************************************************************)
VARIABLES
  heard,   \* whether the receiver has taken it in
  answer   \* what the poster was told: "none", "told", "untold"

Init == heard = FALSE /\ answer = "none"

Hear == heard' = TRUE /\ UNCHANGED answer

Answer ==
  /\ answer = "none"
  /\ answer' \in {"untold"} \cup (IF heard THEN {"told"} ELSE {})
  /\ UNCHANGED heard

Spec == Init /\ [][Hear \/ Answer]_<<heard, answer>>
=============================================================================
