------------------------------ MODULE MCBoard ------------------------------
(***************************************************************************)
(* The parts of the board that are checked on small instances, in one run. *)
(* They share no state in the code but the tables of hooks, of which the   *)
(* watchdogs use different ones; what couples them are calls that each     *)
(* module already has as its own environment.  So nothing is gained from   *)
(* their interleavings: TLC explores them one at a time, each from its own *)
(* initial states while the others stay as they were.                      *)
(***************************************************************************)
EXTENDS App, TaskWdt, IntWdt, Phy, CameraLifecycle, CameraConfig, Ov2640

VARIABLE part \* the one that runs

partVars == <<appVars, hookVars, wdtVars, iwdtVars, phyVars, lifecycleVars, configVars, ov2640Vars>>

Parts == {"app", "task wdt", "int wdt", "phy", "lifecycle", "config", "ov2640"}

MCInit ==
    /\ AppInit /\ TaskWdtInit /\ IntWdtInit /\ PhyInit
    /\ LifecycleInit /\ ConfigInit /\ Ov2640Init
    /\ part \in Parts
    /\ part # "app" => pages = "good"
    /\ part # "ov2640" => chipBank = "dsp"

MCNext ==
    /\ UNCHANGED part
    /\ \/ /\ part = "app" /\ AppNext
          /\ UNCHANGED <<hookVars, wdtVars, iwdtVars, phyVars, lifecycleVars, configVars, ov2640Vars>>
       \/ /\ part = "task wdt" /\ TaskWdtNext
          /\ UNCHANGED <<appVars, iwdtVars, phyVars, lifecycleVars, configVars, ov2640Vars>>
       \/ /\ part = "int wdt" /\ IntWdtNext
          /\ UNCHANGED <<appVars, wdtVars, phyVars, lifecycleVars, configVars, ov2640Vars>>
       \/ /\ part = "phy" /\ PhyNext
          /\ UNCHANGED <<appVars, hookVars, wdtVars, iwdtVars, lifecycleVars, configVars, ov2640Vars>>
       \/ /\ part = "lifecycle" /\ LifecycleNext
          /\ UNCHANGED <<appVars, hookVars, wdtVars, iwdtVars, phyVars, configVars, ov2640Vars>>
       \/ /\ part = "config" /\ ConfigNext
          /\ UNCHANGED <<appVars, hookVars, wdtVars, iwdtVars, phyVars, lifecycleVars, ov2640Vars>>
       \/ /\ part = "ov2640" /\ Ov2640Next
          /\ UNCHANGED <<appVars, hookVars, wdtVars, iwdtVars, phyVars, lifecycleVars, configVars>>

\* Fairness is the application's, on its own board.
MCSpec ==
    /\ MCInit /\ [][MCNext]_<<partVars, part>>
    /\ part = "app" => AppFairness
=============================================================================
