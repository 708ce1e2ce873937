------------------------- MODULE ProcessorOwnership -------------------------
(***************************************************************************)
(* What wrac_clap_adapter promises the product about its audio processor,  *)
(* whatever the host does: the one processor is in one place, it changes   *)
(* place only while nobody borrows it, the port layout changes only while  *)
(* it is not active, and the instance is freed only when it is gone.       *)
(***************************************************************************)
CONSTANTS Layouts

VARIABLES
  place,    \* where the processor is
  layout,   \* the port layout the product reports
  alive

vars == <<place, layout, alive>>

Places == {"nowhere", "moving", "parked", "installed", "lentParked",
           "lentInstalled"}

TypeOK == place \in Places /\ layout \in Layouts /\ alive \in BOOLEAN

Init == place = "nowhere" /\ layout \in Layouts /\ alive = TRUE

Move(from, to) ==
  /\ alive
  /\ place = from /\ place' = to
  /\ UNCHANGED <<layout, alive>>

Make      == Move("nowhere", "moving")
Park      == Move("moving", "parked")
Install   == Move("moving", "installed")
Take      == Move("installed", "moving") \/ Move("parked", "moving")
Lend      == Move("installed", "lentInstalled") \/ Move("parked", "lentParked")
GiveBack  == Move("lentInstalled", "installed") \/ Move("lentParked", "parked")
Discard   == Move("moving", "nowhere") \/ Move("parked", "nowhere")

Reconfigure ==
  /\ alive
  /\ place \in {"nowhere", "parked"}
  /\ layout' \in Layouts
  /\ UNCHANGED <<place, alive>>

Free ==
  /\ alive /\ place = "nowhere"
  /\ alive' = FALSE
  /\ UNCHANGED <<place, layout>>

Next == Make \/ Park \/ Install \/ Take \/ Lend \/ GiveBack \/ Discard
        \/ Reconfigure \/ Free

Spec == Init /\ [][Next]_vars
=============================================================================
