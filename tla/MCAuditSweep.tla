---- MODULE MCAuditSweep ----
(* Two repositories in either order, and a third whose name sanitizes to the *)
(* same as the first's (acme/api and acme-api), selected alone.              *)
EXTENDS AuditSweep, TLC
CONSTANTS api, web, twin
MCRequests == {<<api, web>>, <<web, api>>, <<twin>>}
MCStem == (api :> api) @@ (web :> web) @@ (twin :> api)
====
