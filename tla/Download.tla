------------------------------- MODULE Download -------------------------------
(***************************************************************************)
(* What the two ways of fetching a file are about: R2Download in parallel  *)
(* ranges from the bucket, UrlDownload over one connection.                *)
(***************************************************************************)
CONSTANTS
  Versions,    \* the contents (ETags) the source has, one after another
  MaxFaults,   \* bound on kills, interrupts and failures
  NoVersion, NoFile
=============================================================================
