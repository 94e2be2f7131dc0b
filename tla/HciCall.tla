------------------------------ MODULE HciCall ------------------------------
(***************************************************************************)
(* What the host link promises to the API functions above it: a started     *)
(* device takes each packet once, answers it, and only then does the call    *)
(* that sent it return (or send the next packet of the same call).          *)
(***************************************************************************)
VARIABLE phase

Init == phase = "down"

Move(from, to) == phase = from /\ phase' = to

Start  == Move("down", "sending")
Call   == Move("ready", "sending")
Accept == Move("sending", "executing")
Answer == Move("executing", "answered")
More   == Move("answered", "sending")
Done   == Move("answered", "ready")
Stop   == Move("ready", "down")

Next == Start \/ Call \/ Accept \/ Answer \/ More \/ Done \/ Stop

Spec     == Init /\ [][Next]_phase
FairSpec == Spec /\ WF_phase(Accept) /\ WF_phase(Answer) /\ WF_phase(More \/ Done)
=============================================================================
