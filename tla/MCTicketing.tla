---------------------------- MODULE MCTicketing ----------------------------
(* Small instances of Ticketing, ItsmSync, FixPlan and SoftwareInventory for    *)
(* TLC, one of them in a behaviour.                                             *)
EXTENDS Ticketing, ItsmSync, FixPlan, SoftwareInventory, TLC

VARIABLE half

\* Imports, in both modes; every way to open remediation work, while the
\* automation is reconfigured; external issues; changes with their approval.
MCMix(events, most, modes) == [events |-> events, most |-> most, modes |-> modes]
MCInternal == [enabled |-> TRUE, external |-> FALSE]
MCExternal == [enabled |-> TRUE, external |-> TRUE]
MCTraffics ==
  {MCMix({"import", "hour"}, 3, {MCInternal, MCExternal}),
   MCMix({"import", "configure"}, 2, {MCInternal}),
   MCMix({"backfill", "request", "scan"}, 2, {MCInternal, MCExternal}),
   MCMix({"request", "unlink"}, 3, {MCExternal}),
   MCMix({"create"}, 2, {MCInternal}),
   MCMix({"create", "move"}, 1, {MCInternal})}

\* Nothing mapped; or both statuses, one to a target no ticket knows.
MCStatuses == {"todo", "done"}
MCMappings ==
  {[s \in MCStatuses |-> "unmapped"],
   [s \in MCStatuses |-> IF s = "done" THEN "resolved" ELSE "mistyped"]}

\* 7.0 < 7.2 < 7.2.5 < 8 < 9.0.
MCNumber(n) == <<1, n>>
MCWild == <<>>
MCv70 == <<MCNumber(7)>>
MCv72 == <<MCNumber(7), MCNumber(2)>>
MCv725 == <<MCNumber(7), MCNumber(2), MCNumber(5)>>
MCv8 == <<MCNumber(8)>>
MCv9 == <<MCNumber(9), MCNumber(0)>>
MCVersions == {MCv70, MCv72, MCv725, MCv8, MCv9}
MCFrom(v) == [kind |-> "including", at |-> v]
MCAfter(v) == [kind |-> "excluding", at |-> v]
MCRange(lower, upper) == [pinned |-> MCWild, lower |-> lower, upper |-> upper]

\* Fixed in two branches; fixed after a range by an advisory; by a whole release,
\* and backported.
MCKnowledge ==
  {[ranges |-> {MCRange(MCFrom(MCWild), MCAfter(MCv725)), MCRange(MCFrom(MCv8), MCAfter(MCv9))}, advised |-> {}],
   [ranges |-> {MCRange(MCFrom(MCv70), MCFrom(MCv72))}, advised |-> {MCv8}],
   [ranges |-> {MCRange(MCFrom(MCWild), MCAfter(MCv8))}, advised |-> {MCv725}]}
MCDrafts ==
  {[lower |-> MCFrom(MCWild), upper |-> MCAfter(MCv8), via |-> MCv72, note |-> FALSE],
   [lower |-> MCAfter(MCv70), upper |-> MCFrom(MCv8), via |-> MCv8, note |-> FALSE],
   [lower |-> MCFrom(MCv70), upper |-> MCFrom(MCWild), via |-> MCWild, note |-> TRUE]}
MCPatches ==
  {[lower |-> MCFrom(MCv72)], [upper |-> MCAfter(MCv72)], [via |-> MCv70],
   [lower |-> MCFrom(MCv8), upper |-> MCFrom(MCWild), via |-> MCv9]}

\* Two spellings of one product, two versions of another in both orders, a product
\* without its version, and nothing.
MCItem(vendor, name, version) == [vendor |-> vendor, name |-> name, version |-> version]
MCReports ==
  {<<MCItem("nginx", "nginx", "1")>>, <<MCItem("unsaid", "nginx", "2")>>,
   <<MCItem("acme", "key", "1"), MCItem("acme", "key", "2")>>,
   <<MCItem("acme", "key", "3"), MCItem("acme", "key", "1")>>, <<MCItem("acme", "key", "none")>>,
   <<MCItem("acme", "key", "1"), MCItem("acme", "key", "1")>>, <<>>}
MCDictionary == {<<"f5", "nginx">>, <<"acme", "key">>}
MCAliases == [n \in {"nginx"} |-> <<"f5", "nginx">>]

MCInit ==
  /\ half \in {"tickets", "sync", "fixes", "inventory"}
  /\ TicketingInit /\ (half # "tickets" => traffic.events = {"create", "move"})
  /\ ItsmInit /\ (half # "sync" => aspect = "outbound")
  /\ InventoryInit
  /\ IF half = "fixes" THEN FixInit
     ELSE /\ rules = <<>> /\ crossed = <<>> /\ editor = [e \in Editors |-> Idle] /\ turned = 0
          /\ published = [c \in Flaws |-> CHOOSE k \in Knowledge : TRUE] /\ installed = Wild /\ opened = {}
          /\ plan = [target |-> Wild, fixes |-> {}]

MCNext ==
  /\ \/ /\ half = "tickets" /\ TicketingNext /\ UNCHANGED <<itsmVars, fixVars, inventoryVars>>
     \/ /\ half = "sync" /\ ItsmNext /\ UNCHANGED <<ticketingVars, fixVars, inventoryVars>>
     \/ /\ half = "fixes" /\ FixNext /\ UNCHANGED <<ticketingVars, itsmVars, inventoryVars>>
     \/ /\ half = "inventory" /\ InventoryNext /\ UNCHANGED <<ticketingVars, itsmVars, fixVars>>
  /\ UNCHANGED half

MCSpec == MCInit /\ [][MCNext]_<<ticketingVars, itsmVars, fixVars, inventoryVars, half>>

\* The pushers are the threads and the issues are named as the findings are.
MCPerms == Permutations(Findings) \cup Permutations(Threads)

TicketsTypeOK == TicketingTypeOK /\ ItsmTypeOK /\ FixTypeOK /\ InventoryTypeOK

\* What is to be remediated is known, has a way out that works and is worked on: the
\* inventory (services/inventory), the fix plans (services/fix_plan) and the tickets.
RemediationIsSound ==
  /\ WorkIsAccounted
  /\ half = "fixes" => FixPlansAreSound
  /\ InventoryIsKept
=============================================================================
