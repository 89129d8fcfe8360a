----------------------- MODULE MC_ProxyServer -----------------------
(* Small instance of ProxyServer; the values are given in the cfg files. *)
EXTENDS ProxyServer
=====================================================================
