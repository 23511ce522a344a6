---------------------------- MODULE MCHotReload -----------------------------
(* Three processes on two ports; the topology of the third has only one. *)
EXTENDS HotReload

MCProcesses == 1 .. 3
MCPorts == {1, 2}
MCSourcesOf == <<<<1, 2>>, <<1, 2>>, <<2>>>>
=============================================================================
