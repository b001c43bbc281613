--------------------------- MODULE MCCreateAppend ---------------------------
(* CreateAppend for TLC.                                                   *)
EXTENDS CreateAppend, SmallArchives
=============================================================================
