-------------------------------- MODULE MCCron --------------------------------
(* Instances of Cron for TLC. *)
EXTENDS Cron

EveryMinute == Duration(60)
AtMinuteOne == OneShot(60)

MCSchedules == {EveryMinute, AtMinuteOne}

SafetySpec == Init /\ [][Next]_vars
=============================================================================
