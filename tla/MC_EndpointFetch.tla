---------------------- MODULE MC_EndpointFetch ----------------------
(* Small instance of EndpointFetch; the values are given in the cfg files. *)
EXTENDS EndpointFetch
=====================================================================
