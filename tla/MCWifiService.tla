---------------------------- MODULE MCWifiService ----------------------------
EXTENDS WifiService

\* Without a limit, with one whose bounds are the wrong way round, and with another.
MCConfigs == {[limit |-> 0, low |-> 3, high |-> 1],
              [limit |-> 2, low |-> 1, high |-> 3]}
MCDefaultConfig == [limit |-> 2, low |-> 1, high |-> 3]
=============================================================================
