------------------------------ MODULE MCH5Link ------------------------------
(* Constants for the runs of H5Link.                                       *)
EXTENDS H5Link

BothSend   == [s \in Side |-> {"DATA"}]
ScoAndData == [s \in Side |-> IF s = "host" THEN {"DATA", "SCO"}
                                            ELSE {"DATA"}]
HostBaud   == [s \in Side |-> IF s = "host" THEN {"BAUD"} ELSE {"DATA"}]

\* LINK_CONFIG_FIELD at both ends, and a controller with a larger window.
SameConfig == [s \in Side |-> "w1_dic"]
OtherConfig == [s \in Side |-> IF s = "host" THEN "w1_dic" ELSE "w4_dic"]
=============================================================================
