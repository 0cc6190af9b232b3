------------------------------ MODULE MCRepair ------------------------------
(* Repair on small logs; times are in hundredths of a second.              *)
EXTENDS Repair

MCRowTimes == [obd |-> {150, 250}, gps |-> {150}]
=============================================================================
