----------------------------- MODULE MCNetParam ------------------------------
(* The parameter table with the items that the code saves on every target:   *)
(* the MAC address, two thresholds of the transmitter (tssi, tssi_b), the    *)
(* power distribution (dist) and the mode of the calibration.                *)
EXTENDS NetParam
=============================================================================
