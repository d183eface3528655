----------------------------- MODULE MCRobotSim -----------------------------
(* RobotClock with two sensors, one of them a motor, and two rates. *)
EXTENDS RobotClock

SimSensors == <<"imu", "motor1">>
SimMotors  == {"motor1"}
SimPeriod  == [t \in ToSet(Threads) |-> IF t = "imu" THEN 2 ELSE 1]
=============================================================================
