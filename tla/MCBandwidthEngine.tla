------------------------- MODULE MCBandwidthEngine --------------------------
(* Two collectors with up to five keys for an engine of four records, so     *)
(* that a batch may be small, large or beyond the capacity, and a task of    *)
(* one of two addresses.                                                     *)
EXTENDS BandwidthEngine

CONSTANTS ip1, ip2, t1

MCIps == {ip1, ip2}
MCPorts == [k \in Collectors \X MCIps |->
    CASE k = <<1, ip1>> -> 4 [] k = <<2, ip2>> -> 1 [] OTHER -> 0]
MCTasks == {t1}
MCWants == [t \in MCTasks |-> {ip1}]
=============================================================================
