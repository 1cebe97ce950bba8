------------------------------- MODULE MCClient -------------------------------
(* Two workloads in one run: the user switches the camera on and off while *)
(* the activity stays on the screen, or the activity comes and goes while  *)
(* nobody touches a button.                                                *)
EXTENDS Client

VARIABLE load

LoadInit == Init /\ load \in {"scan", "life"}

ActivityStays == /\ life = "started" => life' = "started"
                 /\ cmd' \in {"none", "INIT_WINDOW"}

LoadNext == /\ \/ load = "scan" /\ Next /\ ActivityStays
               \/ load = "life" /\ Next /\ ~ Buttons
            /\ UNCHANGED load

LoadSpec == LoadInit /\ [][LoadNext]_<<vars, load>> /\ Fairness
=============================================================================
