---------------------------- MODULE MCToolServer ----------------------------
(* Instance of ToolServer: two Mode 01 PIDs.                                *)
EXTENDS ToolServer

MCService == [r \in Requests |-> "01"]
MCEcho    == [r \in Requests |-> IF r = "rpm" THEN "0C" ELSE "0D"]
=============================================================================
