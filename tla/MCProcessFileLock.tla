------------------------- MODULE MCProcessFileLock -------------------------
(* Two processes; one of them has two threads that contend in-process,     *)
(* and a few closes may raise.                                             *)
EXTENDS ProcessFileLock, TLC

CONSTANTS p1, p2, t1, t2, t3

MCProcess == {p1, p2}
MCThread == {t1, t2, t3}
MCProcOf == (t1 :> p1) @@ (t2 :> p1) @@ (t3 :> p2)
MCMaxKept == (p1 :> 2) @@ (p2 :> 1)
=============================================================================
