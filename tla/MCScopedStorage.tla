--------------------------- MODULE MCScopedStorage ---------------------------
(* The instance of ScopedStorage that TLC checks: two labels, three requests *)
(* of which two share a label, and a build for each of them.                 *)
EXTENDS ScopedStorage, TLC

=============================================================================
