----------------------------- MODULE ToolCatalog -----------------------------
(***************************************************************************)
(* The tools of the assistant: the catalog (app/ai/tools/catalog.py), the  *)
(* list the API shows of it (app/ai/tools/router.py), and the executor     *)
(* with the WMS adapter behind it (executor.py, app/integrations/wms.py).  *)
(***************************************************************************)
EXTENDS Scopes

WmsInbound == <<"wms", ".", "inb", "ound">>

AllTools == {"get_inbound_count"}
ToolScopes == [get_inbound_count |-> WmsInbound]
Domains == [get_inbound_count |-> "wms"]

(* _validate_catalog_consistency: a tool without scope or metadata keeps   *)
(* the module from being imported.                                         *)
ValidateCatalog(tools, scopes, metadata) ==
  tools \subseteq DOMAIN scopes \cap DOMAIN metadata

ASSUME CatalogConsistency == ValidateCatalog(AllTools, ToolScopes, Domains)

(* Mutant of ToolsForScopes: the model is shown every tool.                *)
EveryTool(allowed) == AllTools

ToolsForScopes(allowed) == {t \in AllTools : ScopeGrants(allowed, ToolScopes[t])}

(* Mutant of ListTools: the catalog is public.                             *)
ListEveryTool(allowed, domain) == {t \in AllTools : Domains[t] = domain}

(* catalog_for_scopes and list_tools: what the answer has under a domain.  *)
ListTools(allowed, domain) ==
  {t \in AllTools : ScopeGrants(allowed, ToolScopes[t]) /\ Domains[t] = domain}

Envelope(count) == IF count = 0 THEN "NO_DATA" ELSE "SUCCESS"

(* WmsClient.get_inbound_count; configured: are URL and key both set?      *)
GetInboundCount(configured) ==
  IF configured THEN "UPSTREAM_ERROR" ELSE Envelope(42)

(* Mutant of ExecuteTool: trusts the model to name tools it was shown.     *)
ExecuteAnyTool(name, allowed, configured) ==
  IF name = "get_inbound_count" THEN GetInboundCount(configured) ELSE "error"

(* execute_tool: the status of the result, "error" if it has none.         *)
ExecuteTool(name, allowed, configured) ==
  IF /\ name \in DOMAIN ToolScopes
     /\ ScopeGrants(allowed, ToolScopes[name])
     /\ name = "get_inbound_count"
  THEN GetInboundCount(configured)
  ELSE "error"
=============================================================================
