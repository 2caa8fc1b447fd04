---------------------------- MODULE MCIrrigation ----------------------------
(***************************************************************************)
(* The irrigation with a meter for the water: for how many periods in a    *)
(* row it has been flowing.  Between two of them the relay may have been   *)
(* open for an instant.                                                    *)
(***************************************************************************)
EXTENDS Irrigation

VARIABLE flow

Init == IrrInit /\ flow = 0

Metered == IF pumping THEN Least(flow + 1, BeyondTimeout) ELSE 0

Next ==
    \/ Tick /\ flow' = Metered
    \/ IrrNext /\ ~Tick /\ UNCHANGED flow

Spec == Init /\ [][Next]_<<irrVars, flow>>

(***************************************************************************)
(* "Timeout maximo (25 segundos): Si la bomba lleva mas de 2500 ticks      *)
(* encendida, se apaga sin importar el estado del sensor. Esto previene    *)
(* inundacion" (REPORTE.md:267): water does not flow on past the timeout.  *)
(***************************************************************************)
NoFlood == flow <= PumpTimeout + 3
=============================================================================
