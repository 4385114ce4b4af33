---------------------------- MODULE MCDeployment ----------------------------
(***************************************************************************)
(* An instance of Deployment for TLC: one initializer names only the       *)
(* subjects, one also an age that is not the broker's own, and one other   *)
(* subjects.                                                               *)
(***************************************************************************)
EXTENDS Deployment

MCInitializers == {"old", "aged", "other"}
MCDefaults == [subjects |-> "none", max_age |-> "unlimited"]
MCRequested ==
    [i \in MCInitializers |->
        CASE i = "old" -> [subjects |-> "all"]
          [] i = "aged" -> [subjects |-> "all", max_age |-> "week"]
          [] OTHER -> [subjects |-> "events"]]
=============================================================================
