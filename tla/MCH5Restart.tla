---------------------------- MODULE MCH5Restart ----------------------------
(* Constants for the runs of H5Restart.                                    *)
EXTENDS H5Restart

SameConfig == [s \in Side |-> "w1_dic"]
BothSend   == [s \in Side |-> {"DATA"}]
HostSends  == [s \in Side |-> IF s = "host" THEN {"DATA"} ELSE {}]
=============================================================================
