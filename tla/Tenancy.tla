------------------------------ MODULE Tenancy ------------------------------
(***************************************************************************)
(* The tenants of src/src/yodmcp/core/tenant.py, shared by the components  *)
(* that keep state per tenant.  get_tenant() of a request is a parameter   *)
(* of the actions: a contextvar is never seen by another request.          *)
(***************************************************************************)
CONSTANT Tenants
=============================================================================
