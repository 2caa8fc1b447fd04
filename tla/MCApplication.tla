--------------------------- MODULE MCApplication ---------------------------
(***************************************************************************)
(* The application, for TLC, in three parts: the irrigation; its pump      *)
(* alone, among tasks that request water at any time, as if many cycles    *)
(* fitted into PUMP_TIMEOUT_TICKS; and the display.  The last shares no    *)
(* variable with the others (a lost row does not touch the pump, and the   *)
(* LCD takes any row at any time), so instead of a product, a behaviour is *)
(* one part moving and the rest still.                                     *)
(***************************************************************************)
EXTENDS Irrigation, Display

VARIABLE part      \* the part that moves

vars == <<part, irrVars, dispVars>>

Init ==
    /\ IrrInit /\ DispInit
    /\ part \in {"irrigation", "pump", "display"} /\ (part # "display" => ~bus)

\* What irrigation_update_task sees of the others, for the worst.
Others ==
    /\ requested' \in {requested, TRUE}
    /\ beaten' = beaten \cup {"irrigation", "sensor"}
    /\ UNCHANGED <<updateVars, taskVars, sensorVars, queueVars, since>>

Next ==
    \/ part = "irrigation" /\ IrrNext /\ UNCHANGED <<part, dispVars>>
    \/ part = "pump" /\ (Update \/ Others \/ Tick) /\ UNCHANGED <<part, dispVars>>
    \/ part = "display" /\ DispNext /\ UNCHANGED <<part, irrVars>>

\* IrrFairness and DispFairness, each for the behaviours in which its part moves.
Fairness ==
    /\ WF_irrVars(part # "display" /\ Update)
    /\ WF_irrVars(part # "display" /\ Tick)
    /\ WF_irrVars(part = "irrigation" /\ IrrigationTask)
    /\ WF_irrVars(part = "irrigation" /\ SensorTask)
    /\ WF_irrVars(part = "pump" /\ Others)
    /\ WF_dispVars(part = "display" /\ Driver)
    /\ WF_dispVars(part = "display" /\ Receive)

Spec == Init /\ [][Next]_vars /\ Fairness
=============================================================================
