--------------------------------- MODULE MCGate ---------------------------------
(* A small instance of the coordinator for TLC. *)
EXTENDS LocalGate, TLC

TwoDays == <<<<1, "window">>, <<1, "late">>, <<2, "window">>>>
\* A gate or the IC/IM-only gate beside a daily run or an activation.
ModesOfEach ==
  [l \in Launchers |-> IF l = CHOOSE first \in Launchers : TRUE
                       THEN {"gate", "independent"} ELSE {"daily", "activate"}]
FewGroups == [m \in AllModes |-> IF m = "daily" THEN 2 ELSE 1]
=================================================================================
