---------------------------- MODULE MCFileStorage ----------------------------
(* Two threads of one process and one of another, two settings windows.   *)
EXTENDS FileStorage, TLC

CONSTANTS t1, t2, t3, p1, p2

MCHome == t1 :> p1 @@ t2 :> p1 @@ t3 :> p2
=============================================================================
