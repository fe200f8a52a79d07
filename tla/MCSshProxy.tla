----------------------------- MODULE MCSshProxy -----------------------------
(* Small instances of SshProxy. *)
EXTENDS SshProxy

AllFront == {"data", "open", "bad"}
AllBack == {"data", "local", "bad"}
Plain == {"data"}
=============================================================================
