------------------------- MODULE MC_MAVLinkRegistry -------------------------
(* msgid 0 stands for HEARTBEAT (minimal, and listed again by common), 1    *)
(* for a common message, 2 for a message of an application dialect.        *)
(* ardupilotmega lists common's messages too; "standalone" does not.       *)
EXTENDS MAVLinkRegistry

MCDialects == [common |-> {0, 1}, minimal |-> {0}, ardupilotmega |-> {0, 1, 2},
               standalone |-> {2}]
MCDefaultOrder == <<"common", "minimal">>
=============================================================================
