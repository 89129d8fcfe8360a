---------------------- MODULE MC_OpenVPNTunnel ----------------------
(* Small instance of OpenVPNTunnel; the values are given in the cfg files. *)
EXTENDS OpenVPNTunnel
=====================================================================
