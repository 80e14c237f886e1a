-------------------------- MODULE MCPositionExits --------------------------
(* Small instances of PositionExits: each judge with the settings that the    *)
(* reports recommend, percentages rounded.                                    *)
EXTENDS PositionExits, TLC

Off == [f \in Fields |-> CASE f \in {"trailOnly", "runner", "eod", "blockLoss", "belowPrev", "ai", "noStop"} -> FALSE
                           [] OTHER -> 0]

Runner ==
  [judge |-> "supertrend", tp |-> 5, stop |-> -5, carryGap |-> -4, trail |-> 20, runner |-> TRUE, limitUp |-> 29,
   gapUp |-> 5, lock |-> 2, giveback |-> 3, gapPartial |-> 3, window |-> 2,
   maxEntries |-> 1] @@ Off

NoChase ==
  [judge |-> "supertrend", tp |-> 5, stop |-> -5, trail |-> 9, blockLoss |-> TRUE, rest |-> 1,
   belowPrev |-> TRUE] @@ Off

Chaser ==
  [judge |-> "chaser", tp |-> 5, stop |-> -4, trail |-> 20, runner |-> TRUE, limitUp |-> 29, lock |-> 2,
   giveback |-> 3, eod |-> TRUE, maxEntries |-> 2, blockLoss |-> TRUE] @@ Off

Zone ==
  [judge |-> "daemon", tp |-> 6, stop |-> -4, hard |-> -5, trailStart |-> 4, trailOff |-> 2,
   breakEven |-> 3, partialAt |-> 3, tightDays |-> 1, tight |-> -3, cooldown |-> 2] @@ Off

AiSwing ==
  [judge |-> "daemon", ai |-> TRUE, tp |-> 29, stop |-> -4, hard |-> -5, trailStart |-> 6,
   trailOff |-> 5, breakEven |-> 3, partialAt |-> 6, tightDays |-> 5, tight |-> -4,
   minHold |-> 1, maxHold |-> 2, cooldown |-> 2] @@ Off

\* The owner has turned the price stop off.
AiPatient == [AiSwing EXCEPT !.noStop = TRUE]

AllSetups == {Runner, NoChase, Chaser, Zone, AiSwing, AiPatient}
RunnerSetup == {Runner}
=============================================================================
