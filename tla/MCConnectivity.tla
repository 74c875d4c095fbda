---------------------------- MODULE MCConnectivity ----------------------------
EXTENDS Connectivity

MCConfigs == {[limit |-> 1, low |-> 1, high |-> 1]}
MCDefaultConfig == [limit |-> 1, low |-> 1, high |-> 1]
=============================================================================
