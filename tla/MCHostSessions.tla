--------------------------- MODULE MCHostSessions ---------------------------
(* Small instances of HostSessions for TLC.                                *)
EXTENDS HostSessions, TLC

\* Connections whose peer may hang up are interchangeable, and so are the others.
Symmetry == {f \in Permutations(Conns) : \A c \in MayHangUp : f[c] \in MayHangUp}
=============================================================================
