---------------------- MODULE MC_EmergencyProxy ----------------------
(* Small instance of EmergencyProxy: three endpoints, in short lists.      *)
EXTENDS EmergencyProxy

CONSTANTS Ea, Eb, Ec

MCEndpoint == {Ea, Eb, Ec}

MCFetchable == { <<Ea>>, <<Eb, Ea>> }

MCConfigured == { <<>>, <<Ec, Eb, Ea>> }
======================================================================
