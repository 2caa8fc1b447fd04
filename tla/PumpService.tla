---------------------------- MODULE PumpService ----------------------------
(***************************************************************************)
(* What the irrigation promises of the pump, whatever happens to messages, *)
(* tasks and clock: it starts on request only, runs for MinOn periods at   *)
(* least and MaxOn at most, and no request is given up but while it runs.  *)
(***************************************************************************)
EXTENDS Integers

CONSTANTS MinOn, MaxOn

VARIABLES
    wanted,     \* a request has been made and not yet taken off
    on,         \* the pump is on
    ran         \* for how many periods

serviceVars == <<wanted, on, ran>>

ServiceInit == wanted = FALSE /\ on = FALSE /\ ran = 0

Request == wanted' = TRUE /\ UNCHANGED <<on, ran>>

Start == wanted /\ ~on /\ on' = TRUE /\ UNCHANGED <<wanted, ran>>

TakeOff == on /\ wanted' = FALSE /\ UNCHANGED <<on, ran>>

Period == on /\ ran < MaxOn /\ ran' = ran + 1 /\ UNCHANGED <<wanted, on>>

Stop == on /\ ran >= MinOn /\ on' = FALSE /\ ran' = 0 /\ UNCHANGED wanted

ServiceNext == Request \/ Start \/ TakeOff \/ Period \/ Stop

ServiceSpec == ServiceInit /\ [][ServiceNext]_serviceVars
=============================================================================
