----------------------------- MODULE MCSysProxy -----------------------------
(* Instances of SysProxy for TLC.                                          *)
EXTENDS SysProxy

CONSTANTS p1, u1, u2, t1, t2

OneProc  == {p1}
Users    == {u1, u2}
Addrs    == {t1, t2}

ApplyFails   == {"apply"}
SingleFaults == {"crash", "apply", "restore"}
=============================================================================
