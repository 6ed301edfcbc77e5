------------------------------ MODULE MCUploads ------------------------------
(* The instance of Uploads that TLC checks: one request more than the store *)
(* has room for, so that uploads in flight lose their session.              *)
EXTENDS Uploads, TLC

CONSTANTS r1, r2, r3

MCSnapshots == [loaded : 0..1, final : BOOLEAN]

=============================================================================
