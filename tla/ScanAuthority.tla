---------------------------- MODULE ScanAuthority ----------------------------
(***************************************************************************)
(* What an execution agent may be pointed at, and what its word is worth      *)
(* (services/agents, api/v1/agents, integrations/veyrs-agent): an operator     *)
(* enables the tools the agent declares and writes its target policy, a job      *)
(* is authorised when it is queued, when it is claimed and by the agent itself, *)
(* and its result closes a finding only if the run covered the target.         *)
(*                                                                            *)
(* One agent and one job at a time; who gets a job is AgentDispatch's subject.  *)
(***************************************************************************)
EXTENDS Integers, Sequences, FiniteSets

CONSTANTS
  Targets,    \* what can be scanned: [host, address, reserved]
  ScanTools,  \* what the runner knows how to run
  Rulebooks,   \* allow and deny rules, and whether the target must be an asset
  Local,      \* the hosts the agent's own operator allows
  Outcomes,   \* how a scan may end: [exit, stats, reachable, percent, errors, found]
  AutoEnable, \* auto_enable_tools, set once at enrolment
  MaxJobs,    \* bound: jobs queued
  MaxEdits    \* bound: acts of operators and of the host

\* Only addresses lie in reserved ranges, and a rule is of one of three kinds.
ASSUME AuthorityAssumption ==
  /\ AutoEnable \in BOOLEAN /\ {MaxJobs, MaxEdits} \subseteq Nat
  /\ \A t \in Targets : {t.address, t.reserved} \subseteq BOOLEAN /\ (t.reserved => t.address)
  /\ \A p \in Rulebooks : \A rule \in p.allow \cup p.deny : rule.kind \in {"network", "literal", "glob"}

VARIABLES
  rulebook,     \* the target policy in the agent's row
  tools,      \* agent_tools: [exists, enabled]
  register,   \* hosts that are assets of the tenant
  installed,  \* binaries on the agent's host
  declares,   \* what the runner found when it started
  beat,       \* a heartbeat in progress, with the rows it loaded
  toggle,     \* a request to enable or disable a tool, with the row it loaded
  claim,      \* a claim in progress, with the policy it was authenticated with
  scanJob,    \* the job there is
  verdict,    \* the finding of each target, and what closed it
  word,       \* history: the last that was said about each tool
  leases,     \* history: what was handed to the agent
  jobs, edits

authorityVars ==
  <<rulebook, tools, register, installed, declares, beat, toggle, claim, scanJob, verdict, word, leases, jobs, edits>>

NoScan == [state |-> "none"]
NoClaim == [stage |-> "none"]
NoToggle == [stage |-> "none"]
NoBeat == [stage |-> "none"]

\* An agent enrolled without rules may scan nothing.
Inert == [allow |-> {}, deny |-> {}, match |-> TRUE]

AuthorityInit ==
  /\ rulebook = Inert /\ tools = [x \in ScanTools |-> [exists |-> FALSE, enabled |-> FALSE]]
  /\ register = {} /\ installed = ScanTools /\ declares = ScanTools
  /\ beat = NoBeat /\ toggle = NoToggle /\ claim = NoClaim /\ scanJob = NoScan
  /\ verdict = [t \in Targets |-> [state |-> "none", by |-> <<>>]]
  /\ word = [x \in ScanTools |-> "none"] /\ leases = <<>> /\ jobs = 0 /\ edits = 0

----------------------------------------------------------------------------
(* Target policy.                                                           *)

Bug_RuleCovers(rule, t) == t.host \in rule.covers

\* _matches: networks and literals are for addresses, patterns are for names.
RuleCovers(rule, t) == t.host \in rule.covers /\ (t.address <=> rule.kind \in {"network", "literal"})

Literally(p, t) == \E rule \in p.allow : rule.kind = "literal" /\ rule.covers = {t.host}

\* authorise_target, with the policy of an agent.
Authorised(p, t) ==
  /\ t.address /\ t.reserved => Literally(p, t)
  /\ ~\E rule \in p.deny : RuleCovers(rule, t)
  /\ \E rule \in p.allow : RuleCovers(rule, t)
  /\ p.match => t.host \in register

\* authorise_target for a job no agent is named for.
TenantAllows(t) == ~(t.address /\ t.reserved)

----------------------------------------------------------------------------
(* Operators.                                                               *)

Edit == edits < MaxEdits /\ edits' = edits + 1 /\ UNCHANGED <<leases, jobs>>

UpdateAgent ==
  \E p \in Rulebooks :
    /\ Edit /\ p # rulebook /\ rulebook' = p
    /\ UNCHANGED <<tools, register, installed, declares, beat, toggle, claim, scanJob, verdict, word>>

RegisterAsset ==
  \E t \in Targets :
    /\ Edit /\ register' = IF t.host \in register THEN register \ {t.host} ELSE register \cup {t.host}
    /\ UNCHANGED <<rulebook, tools, installed, declares, beat, toggle, claim, scanJob, verdict, word>>

ToggleBegins ==
  \E x \in ScanTools, on \in BOOLEAN :
    /\ Edit /\ toggle = NoToggle /\ tools[x].exists
    /\ toggle' = [stage |-> "asked", tool |-> x, saw |-> tools[x].enabled, on |-> on]
    /\ UNCHANGED <<rulebook, tools, register, installed, declares, beat, claim, scanJob, verdict, word>>

\* set_tool_enabled writes the column only if it changes what was loaded.
ToggleEnds ==
  /\ toggle # NoToggle /\ toggle' = NoToggle
  /\ LET x == toggle.tool IN
     /\ tools' = IF toggle.saw = toggle.on THEN tools ELSE [tools EXCEPT ![x].enabled = toggle.on]
     /\ word' = IF toggle.saw = toggle.on THEN word ELSE [word EXCEPT ![x] = IF toggle.on THEN "allowed" ELSE "refused"]
  /\ UNCHANGED <<rulebook, register, installed, declares, beat, claim, scanJob, verdict, leases, jobs, edits>>

----------------------------------------------------------------------------
(* Declaration.                                                             *)

\* A binary comes or goes on the agent's host.
HostChanges ==
  \E x \in ScanTools :
    /\ Edit /\ installed' = IF x \in installed THEN installed \ {x} ELSE installed \cup {x}
    /\ UNCHANGED <<rulebook, tools, register, declares, beat, toggle, claim, scanJob, verdict, word>>

\* The runner looks for its tools when it starts and not again.
RunnerStarts ==
  /\ Edit /\ declares' = installed /\ declares # installed
  /\ UNCHANGED <<rulebook, tools, register, installed, beat, toggle, claim, scanJob, verdict, word>>

\* One that says nothing new is left out.
HeartbeatBegins ==
  /\ beat = NoBeat /\ beat' = [stage |-> "sent", brings |-> declares, saw |-> tools]
  /\ \E x \in ScanTools : IF x \in declares THEN ~tools[x].exists ELSE tools[x].enabled
  /\ UNCHANGED <<rulebook, tools, register, installed, declares, toggle, claim, scanJob, verdict, word, leases, jobs, edits>>

\* declare_tools: a new tool is enabled if the agent was enrolled so, a known one stays
\* as it is, and one that is withdrawn is disabled.
Declared(x) ==
  IF x \in beat.brings
  THEN IF beat.saw[x].exists THEN tools[x] ELSE [exists |-> TRUE, enabled |-> AutoEnable]
  ELSE IF beat.saw[x].enabled THEN [tools[x] EXCEPT !.enabled = FALSE] ELSE tools[x]

Said(x) ==
  IF x \in beat.brings
  THEN IF beat.saw[x].exists \/ ~AutoEnable THEN word[x] ELSE "allowed"
  ELSE IF beat.saw[x].enabled THEN "withdrawn" ELSE word[x]

HeartbeatEnds ==
  /\ beat # NoBeat /\ beat' = NoBeat
  /\ tools' = [x \in ScanTools |-> Declared(x)] /\ word' = [x \in ScanTools |-> Said(x)]
  /\ UNCHANGED <<rulebook, register, installed, declares, toggle, claim, scanJob, verdict, leases, jobs, edits>>

----------------------------------------------------------------------------
(* A job.                                                                   *)

QueueJob ==
  \E x \in ScanTools, t \in Targets, pinned \in BOOLEAN :
    /\ jobs < MaxJobs /\ jobs' = jobs + 1 /\ scanJob = NoScan
    /\ tools[x].enabled /\ IF pinned THEN Authorised(rulebook, t) ELSE TenantAllows(t)
    /\ scanJob' = [state |-> "queued", tool |-> x, target |-> t]
    /\ UNCHANGED <<rulebook, tools, register, installed, declares, beat, toggle, claim, verdict, word, leases, edits>>

\* The agent's row is loaded when its token is verified.
ClaimBegins ==
  /\ claim = NoClaim /\ scanJob.state = "queued" /\ claim' = [stage |-> "known", rulebook |-> rulebook]
  /\ UNCHANGED <<rulebook, tools, register, installed, declares, beat, toggle, scanJob, verdict, word, leases, jobs, edits>>

Claimable == tools[scanJob.tool].enabled /\ Authorised(claim.rulebook, scanJob.target)

\* The tool and the asset are read by the claim itself.
ClaimEnds ==
  /\ claim # NoClaim /\ claim' = NoClaim
  /\ IF scanJob.state = "queued" /\ Claimable
     THEN /\ scanJob' = [scanJob EXCEPT !.state = "leased"]
          /\ leases' = Append(leases, [target |-> scanJob.target, rulebook |-> claim.rulebook, word |-> word[scanJob.tool]])
     ELSE UNCHANGED <<scanJob, leases>>
  /\ UNCHANGED <<rulebook, tools, register, installed, declares, beat, toggle, verdict, word, jobs, edits>>

\* run_job: a tool that is gone gives the job back, a target the agent's own operator
\* does not allow ends it, for other agents too.
RunnerDeclines ==
  /\ scanJob.state = "leased"
  /\ \/ /\ scanJob.tool \notin installed
        /\ scanJob' = [scanJob EXCEPT !.state = "queued"]
     \/ /\ scanJob.tool \in installed /\ scanJob.target.host \notin Local
        /\ scanJob' = NoScan
  /\ jobs < MaxJobs /\ jobs' = jobs + 1
  /\ UNCHANGED <<rulebook, tools, register, installed, declares, beat, toggle, claim, verdict, word, leases, edits>>

\* A job that is queued and not wanted any more.
CancelScan ==
  /\ scanJob.state = "queued" /\ scanJob' = NoScan
  /\ UNCHANGED <<rulebook, tools, register, installed, declares, beat, toggle, claim, verdict, word, leases, jobs, edits>>

----------------------------------------------------------------------------
(* The result.                                                              *)

\* _coverage, "none" where the tool gives no numbers; an agent that reports nothing is
\* believed if it brings output.
Uncovered(e) ==
  IF e.stats = "none" THEN e.found = {} ELSE ~e.reachable \/ e.percent = "low" \/ e.errors = "high"

Attests(e) == e.stats # "none" /\ ~Uncovered(e)

Failed(e) == e.exit # 0 \/ Uncovered(e)

Bug_Closes(e) == ~Failed(e)

\* close_absent reaches the import only from a run that is evidence.
Closes(e) == ~Failed(e) /\ Attests(e)

\* submit_result: a failed run without output is not imported; the test may be one that
\* closes what is absent or not.
Imported(e, t, closing) ==
  IF Failed(e) /\ e.found = {} THEN verdict
  ELSE IF t.host \in e.found THEN [verdict EXCEPT ![t] = [state |-> "open", by |-> <<>>]]
  ELSE IF Closes(e) /\ closing /\ verdict[t].state = "open" THEN [verdict EXCEPT ![t] = [state |-> "closed", by |-> <<e>>]]
  ELSE verdict

SubmitResult ==
  \E e \in Outcomes, closing \in BOOLEAN :
    /\ scanJob.state = "leased" /\ scanJob.tool \in installed /\ scanJob.target.host \in Local
    /\ verdict' = Imported(e, scanJob.target, closing) /\ scanJob' = NoScan
    /\ UNCHANGED <<rulebook, tools, register, installed, declares, beat, toggle, claim, word, leases, jobs, edits>>

\* submit_inventory: an agent in discovery mode makes an asset of what it reports.
SubmitInventory ==
  \E t \in Targets :
    /\ Authorised(rulebook, t) /\ t.host \notin register /\ register' = register \cup {t.host}
    /\ UNCHANGED <<rulebook, tools, installed, declares, beat, toggle, claim, scanJob, verdict, word, leases, jobs, edits>>

AuthorityNext ==
  \/ UpdateAgent \/ RegisterAsset \/ ToggleBegins \/ ToggleEnds \/ HostChanges \/ RunnerStarts
  \/ HeartbeatBegins \/ HeartbeatEnds \/ QueueJob \/ ClaimBegins \/ ClaimEnds \/ RunnerDeclines
  \/ CancelScan \/ SubmitResult \/ SubmitInventory

AuthoritySpec == AuthorityInit /\ [][AuthorityNext]_authorityVars

----------------------------------------------------------------------------
AuthorityTypeOK ==
  /\ rulebook \in Rulebooks \cup {Inert} /\ installed \subseteq ScanTools /\ declares \subseteq ScanTools
  /\ scanJob # NoScan => scanJob.state \in {"queued", "leased"}
  /\ \A x \in ScanTools : tools[x].enabled => tools[x].exists

\* The rules that speak of a target, each of its kind.
Speaking(rules, t) == {rule \in rules : t.host \in rule.covers /\ (rule.kind = "glob" <=> ~t.address)}

Within(policy, t) ==
  /\ Speaking(policy.allow, t) # {} /\ Speaking(policy.deny, t) = {}
  /\ t.reserved => \E rule \in Speaking(policy.allow, t) : rule.covers = {t.host}

\* What an agent was handed was within its policy: an address by a rule for addresses and
\* a name by one for names, nothing that is denied, the reserved ranges only by their
\* own address; and its tool was last allowed, not withdrawn or refused (authorise_target,
\* "A rule of one kind silently matching the other is how an allowlist stops meaning
\* anything").
LeasesAreAuthorised ==
  \A n \in DOMAIN leases : Within(leases[n].rulebook, leases[n].target) /\ leases[n].word = "allowed"

\* A tool is enabled by an operator, or by its first declaration to an agent enrolled
\* so: one that went away and came back waits for an operator ("re-adding the binary does
\* not silently re-authorise it").
ToolsAreAllowed == \A x \in ScanTools : tools[x].enabled => word[x] = "allowed"

\* What is closed because a scan no longer saw it was closed by a scan that ended well,
\* reached its target and got through ("an aborted scan is not a clean scan").
AbsenceIsEvidence ==
  \A t \in Targets :
    verdict[t].state = "closed" =>
      LET e == verdict[t].by[1] IN
      e.exit = 0 /\ e.stats # "none" /\ e.reachable /\ e.percent # "low" /\ e.errors # "high"

AgentsAreTrusted == LeasesAreAuthorised /\ ToolsAreAllowed /\ AbsenceIsEvidence
=============================================================================
