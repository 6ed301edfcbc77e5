------------------------------ MODULE MCHealth ------------------------------
(* The instance of Health that TLC checks, in full: it has no other bound    *)
(* than the three retries that are the library's default.                    *)
EXTENDS Health, TLC

=============================================================================
