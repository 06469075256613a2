------------------------------- MODULE MCLanes -------------------------------
(* GatewayLanes with two browser tasks and two others, on two lanes. *)
EXTENDS GatewayLanes

Task(id, tier, family) == [id |-> id, tier |-> tier, family |-> family, delicate |-> FALSE, phases |-> 1]
MCTasks ==
    <<Task("form", 2, "browser"), Task("bugfix", 1, "coding"),
      Task("research", 4, "browser"), Task("config", 2, "repo")>>
=============================================================================
