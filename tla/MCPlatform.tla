----------------------------- MODULE MCPlatform -----------------------------
(* Small instances of the services that keep the intelligence, the settings, the *)
(* workflows, the assistant and the agents of a tenant: a behaviour is one of one *)
(* service, and the others stand still.                                          *)
EXTENDS FeedSync, OrgSettings, Cadence, WorkflowRules, AiGateway, ScanAuthority, TLC

VARIABLE service

MCFeedOrder == <<"nvd", "kev">>

----------------------------------------------------------------------------
(* Three slugs: one that is built in, one an operator wrote, one he renames to. *)

MCFlow(slug, enabled, trigger, condition, steps, stop) ==
  [slug |-> slug, enabled |-> enabled, trigger |-> trigger, condition |-> condition, steps |-> steps, stop |-> stop]

MCBuiltins == {MCFlow("builtin", TRUE, "finding.created", "new", <<"ticket", "notify", "comment">>, TRUE)}

MCWrites ==
  MCBuiltins \cup
  {MCFlow("builtin", FALSE, "finding.created", "any", <<"close">>, TRUE),
   MCFlow("own", TRUE, "finding.created", "any", <<"close", "nowhere", "notify">>, TRUE),
   MCFlow("own", TRUE, "finding.created", "any", <<"nowhere", "notify">>, FALSE),
   MCFlow("other", TRUE, "ticket.created", "ticket", <<"notify", "comment">>, FALSE),
   MCFlow("other", TRUE, "ticket.state_changed", "new", <<"comment", "close">>, TRUE)}

----------------------------------------------------------------------------
(* Nothing leaves, everything may be asked; some leaves, redacted; the local one is *)
(* off and nothing is redacted.                                                     *)

MCPolicy(external, local, maxExternal, limit, redact) ==
  [external |-> external, local |-> local, maxExternal |-> maxExternal, maxLocal |-> 1,
   disabled |-> {"draft"}, limit |-> limit, redact |-> redact, guard |-> TRUE]

MCDefaults == MCPolicy(FALSE, TRUE, 0, 1, TRUE)
MCPolicies == {MCDefaults, MCPolicy(TRUE, TRUE, 1, 2, TRUE), MCPolicy(TRUE, FALSE, 2, 0, FALSE)}

MCAsk(capability, permitted, class, carries) ==
  [capability |-> capability, permitted |-> permitted, class |-> class, carries |-> carries]

MCAsks ==
  {MCAsk("ask", TRUE, 1, {"secret", "address"}), MCAsk("ask", TRUE, 2, {"secret"}), MCAsk("ask", FALSE, 0, {}),
   MCAsk("ask", TRUE, 0, {"injection"}), MCAsk("draft", TRUE, 0, {})}

MCEndpoint(kind, external, default) ==
  [kind |-> kind, external |-> external, default |-> default, serves |-> {"ask"}]

MCEndpoints == {MCEndpoint("hosted", FALSE, FALSE), MCEndpoint("own", FALSE, FALSE), MCEndpoint("own", TRUE, TRUE)}

----------------------------------------------------------------------------
(* A name, an address, and an address in a reserved range; the agent's own operator *)
(* allows the first and the last.                                                *)

MCTarget(host, address, reserved) == [host |-> host, address |-> address, reserved |-> reserved]
MCTargets == {MCTarget("name", FALSE, FALSE), MCTarget("ten", TRUE, FALSE), MCTarget("loop", TRUE, TRUE)}

MCRule(kind, covers) == [kind |-> kind, covers |-> covers]
MCRulebook(allow, deny, match) == [allow |-> allow, deny |-> deny, match |-> match]
MCRulebooks ==
  {MCRulebook({MCRule("network", {"ten", "loop"}), MCRule("glob", {"name", "ten"})}, {}, TRUE),
   MCRulebook({MCRule("literal", {"loop"}), MCRule("glob", {"ten"})}, {}, FALSE),
   MCRulebook({MCRule("network", {"ten", "loop"}), MCRule("glob", {"name"})}, {MCRule("network", {"ten"})}, FALSE)}

\* Scans that find everything, nothing, something else; that fail, do not arrive, do not
\* get through, or are of a tool without numbers.
MCOutcome(exit, stats, reachable, percent, errors, found) ==
  [exit |-> exit, stats |-> stats, reachable |-> reachable, percent |-> percent, errors |-> errors, found |-> found]
MCOutcomes ==
  {MCOutcome(0, "some", TRUE, "high", "low", {"name", "ten", "loop"}), MCOutcome(0, "some", TRUE, "high", "low", {}),
   MCOutcome(0, "some", TRUE, "none", "none", {}), MCOutcome(0, "some", TRUE, "low", "low", {}),
   MCOutcome(0, "some", TRUE, "high", "high", {}), MCOutcome(0, "some", FALSE, "high", "low", {"other"}),
   MCOutcome(1, "some", TRUE, "high", "low", {"other"}), MCOutcome(0, "none", TRUE, "none", "none", {"other"}),
   MCOutcome(0, "none", TRUE, "none", "none", {})}

----------------------------------------------------------------------------
MCInit ==
  /\ FeedInit /\ SettingsInit /\ CadenceInit /\ WorkflowsInit /\ AiInit /\ AuthorityInit
  /\ service \in {"feeds", "settings", "cadence", "workflows", "assistant", "agents"}

MCNext ==
  \/ /\ service = "feeds" /\ FeedNext
     /\ UNCHANGED <<settingsVars, cadenceVars, workflowVars, aiVars, authorityVars, service>>
  \/ /\ service = "settings" /\ SettingsNext
     /\ UNCHANGED <<feedVars, cadenceVars, workflowVars, aiVars, authorityVars, service>>
  \/ /\ service = "cadence" /\ CadenceNext
     /\ UNCHANGED <<feedVars, settingsVars, workflowVars, aiVars, authorityVars, service>>
  \/ /\ service = "workflows" /\ WorkflowsNext
     /\ UNCHANGED <<feedVars, settingsVars, cadenceVars, aiVars, authorityVars, service>>
  \/ /\ service = "assistant" /\ AiNext
     /\ UNCHANGED <<feedVars, settingsVars, cadenceVars, workflowVars, authorityVars, service>>
  \/ /\ service = "agents" /\ AuthorityNext
     /\ UNCHANGED <<feedVars, settingsVars, cadenceVars, workflowVars, aiVars, service>>

MCVars == <<feedVars, settingsVars, cadenceVars, workflowVars, aiVars, authorityVars, service>>

MCSpec == MCInit /\ [][MCNext]_MCVars

\* The actors of every service have the same two names.
MCPerms == Permutations(Requests)

PlatformTypeOK == FeedTypeOK /\ SettingsTypeOK /\ CadenceTypeOK /\ WorkflowsTypeOK /\ AiTypeOK /\ AuthorityTypeOK

\* What a tenant asked of its services is what it gets, no more and no less: its feeds
\* as often as the timer allows, its workflows as they are written, its questions
\* inside its policy, and its agents where they may go (services/intel_schedule,
\* services/workflow, services/ai/gateway, services/agents).
TenantsAreServed ==
  NobodyGetsLess /\ WorkflowsAreHonest /\ AssistantIsBounded /\ AgentsAreTrusted
=============================================================================
