---------------------------- MODULE MCStateSync ----------------------------
(* TLC instance of StateSync: a robot with a joint and a sensor, and one    *)
(* with another joint in its place, one more, and no sensor.                *)
EXTENDS StateSync

RobotWith(joints, jmcs, fts) ==
    [p \in Part |-> CASE p = "joint" -> joints [] p = "jmc" -> jmcs
                      [] p = "imu" -> <<>>     [] p = "ft" -> fts]

Devices   == {"RHY", "RHR", "FT", "JMC0"}
TwoRobots == {RobotWith(<<"RHY">>, <<"JMC0">>, <<"FT">>),
              RobotWith(<<"RHR", "RHY">>, <<"JMC0">>, <<>>)}
=============================================================================
