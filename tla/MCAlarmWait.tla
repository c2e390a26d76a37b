---------------------------- MODULE MCAlarmWait ----------------------------
(* Instances of AlarmWait for TLC. *)
EXTENDS AlarmWait

MCPrograms == AllPrograms
=============================================================================
