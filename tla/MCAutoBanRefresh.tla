--------------------------- MODULE MCAutoBanRefresh ---------------------------
(* Two targets that compete for one slot of the semaphore, two             *)
(* generations after the empty one.                                        *)
EXTENDS AutoBanRefresh
=============================================================================
