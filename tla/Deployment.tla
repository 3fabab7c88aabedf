----------------------------- MODULE Deployment -----------------------------
(***************************************************************************)
(* The processes of a deployment: docker-compose.yml starts the API, A2A   *)
(* and MCP servers as three processes with one volume.                     *)
(***************************************************************************)
CONSTANT Procs
=============================================================================
