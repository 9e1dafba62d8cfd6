---------------------------- MODULE MCEscalation ----------------------------
(* Small ladders for TLC: refused ones, a permanent rung, the shape of the  *)
(* default one (a long last rung, of which the cooldown holds one or two),  *)
(* and cooldowns that hold no earlier ban, one and two.                     *)
EXTENDS Escalation

MCConfigs ==
    [durations : {<<>>, <<-1, 1>>, <<1, 2>>, <<1, 0>>, <<1, 1, 2>>, <<1, 1, 4>>},
     cooldown : {-1, 5, 10}, check_interval : {0}]
=============================================================================
