--------------------------- MODULE MCSubnetSweep ----------------------------
(* Instances of SubnetSweep with lists of up to MaxHosts addresses. *)
EXTENDS SubnetSweep

CONSTANTS a, b, c

MCHostLists == {<<>>, <<a>>, <<a, b>>, <<c, a, b>>}

MCShortLists == {<<>>, <<a, b>>}

MCTasks == {"subnet-scan", "layer2"} \X (1 .. MaxHosts)
=============================================================================
