---------------------------- MODULE MCI2cMaster ----------------------------
(***************************************************************************)
(* The I2C master with short transfers.                                    *)
(***************************************************************************)
EXTENDS I2cMaster

=============================================================================
