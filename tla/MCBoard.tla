------------------------------- MODULE MCBoard -------------------------------
(***************************************************************************)
(* The parts of HW5 that are looked at one by one, in one instance: the    *)
(* temperature sensor, the time stamps, and the two users of the display   *)
(* task, the spiders and the statistics.  Each behaviour follows one of    *)
(* them: active says which.                                                *)
(***************************************************************************)
EXTENDS Tmp102, Timestamp, SpiderDemo, IdleStats

VARIABLE active

ownSpiderVars == <<alive, dead, position, spider, controlQueue, touched, shared>>
ownStatsVars == <<hook, stat, drawn, changes>>
boardVars == <<vars, stampVars, displayVars, ownSpiderVars, ownStatsVars, active>>

BoardInit ==
  /\ active \in {"sensor", "stamps", "spiders", "stats"}
  /\ Init /\ (active # "sensor" => heat = CHOOSE t \in Temps : TRUE)
  /\ StampInit /\ SpiderInit /\ StatsInit

BoardNext ==
  /\ UNCHANGED active
  /\ \/ active = "sensor" /\ Next /\ UNCHANGED <<stampVars, displayVars, ownSpiderVars, ownStatsVars>>
     \/ active = "stamps" /\ StampNext /\ UNCHANGED <<vars, displayVars, ownSpiderVars, ownStatsVars>>
     \/ active = "spiders" /\ SpiderNext /\ UNCHANGED <<vars, stampVars, ownStatsVars>>
     \/ active = "stats" /\ StatsNext /\ UNCHANGED <<vars, stampVars, ownSpiderVars>>

(* SpiderFairness, when the spiders run.                                   *)
InSpiders(A) == active = "spiders" /\ A

BoardSpec ==
  /\ BoardInit /\ [][BoardNext]_boardVars
  /\ \A t \in Task : SF_spiderVars(InSpiders(SpiderRuns(t)))
  /\ WF_spiderVars(InSpiders(ControlTask)) /\ WF_spiderVars(InSpiders(SpiderDraw))

(* Both ends of the sensor's range, zero and the temperatures on either    *)
(* side of it and of the threshold.                                        *)
SomeTemps == {-2048, -1, 0, 1, 16 * Threshold - 1, 16 * Threshold, 16 * Threshold + 1, 2047}

(* A touch at the corner, one at the other end, one outside the area.      *)
SomeTouches == {<<0, 0>>, <<4, 1>>, <<9, 9>>}

(* Every length of an address; every number of digits up to the seventh.   *)
SomeTaskCounts == {3, 9, 10, 41}
AllLengths == {0} \cup 7..15
SomePacketCounts == {0, 9, 10, 123, 1234, 99999, 100000, 1000000}
=============================================================================
