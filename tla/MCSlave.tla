------------------------------- MODULE MCSlave -------------------------------
(* The instance of Slave that TLC checks.                                  *)
EXTENDS Slave

MCSignedBuilds == {1, 2}
MCAlike == {1, 2}
=============================================================================
