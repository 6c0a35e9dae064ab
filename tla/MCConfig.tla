------------------------------ MODULE MCConfig ------------------------------
(***************************************************************************)
(* CORS of a host and its routes, on its own.                              *)
(***************************************************************************)
EXTENDS Config, ConfigSources

CorsOnly == {Cors}
=============================================================================
