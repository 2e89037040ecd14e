------------------------------ MODULE MCRecords ------------------------------
(* Small instances of the modules about what is computed and recorded: a        *)
(* behaviour is about one subject, and the others stand still.                  *)
EXTENDS PathTo, AssetSources, RiskRegister, Compliance, Runbooks, FindingIdentity, TLC

VARIABLE subject

\* Two sources; one record that names itself twice, one listed twice, one serial alone.
MCFeedOrder == <<"cmdb", "netbox">>
Entry(key, host, serial, sited) == [key |-> key, host |-> host, serial |-> serial, sited |-> sited]
MCExports ==
  {<<>>, <<Entry("k1", "h1", "s1", TRUE)>>,
   <<Entry("k1", "h2", "nothing", TRUE), Entry("k1", "h1", "nothing", FALSE),
     Entry("k2", "nothing", "s1", FALSE)>>}

\* A matrix somebody is accountable in, within a team; one without; one person.
Seat(raci, user, team) == [raci |-> raci, user |-> user, team |-> team]
MCMatrices ==
  {{}, {Seat("A", "ana", "net"), Seat("R", "nobody", "net")}, {Seat("R", "nobody", "net")}, {Seat("A", "bob", "nobody")}}

\* Who stands still does so in one initial state.
RoutesRest  == current = "closed" /\ target = "closed"
SourcesRest == (\A r \in Rows : ~staged[r].exists) /\ Live(register) = {} /\ (\A f \in Feeds : source[f].auto)

IdentityRest ==
  /\ config = [algorithm |-> "legacy", scope |-> "organization"]
  /\ emits /\ Present = {} /\ (\A e \in Engagements : ~confined[e])

RunbooksRest == article.text = CHOOSE t \in Texts : TRUE

MCInit ==
  /\ subject \in {"routes", "sources", "register", "compliance", "runbooks", "identity"}
  /\ SourcesInit /\ (subject # "sources" => SourcesRest)
  /\ RouteInit /\ (subject # "routes" => RoutesRest)
  /\ IdentityInit /\ (subject # "identity" => IdentityRest)
  /\ RunbooksInit /\ (subject # "runbooks" => RunbooksRest)
  /\ RegisterInit /\ ComplianceInit

MCNext ==
  \/ subject = "routes" /\ RouteNext
     /\ UNCHANGED <<sourceVars, registerVars, complianceVars, runbookVars, identityVars, subject>>
  \/ subject = "sources" /\ SourcesNext
     /\ UNCHANGED <<routeVars, registerVars, complianceVars, runbookVars, identityVars, subject>>
  \/ subject = "register" /\ RegisterNext
     /\ UNCHANGED <<routeVars, sourceVars, complianceVars, runbookVars, identityVars, subject>>
  \/ subject = "compliance" /\ ComplianceNext
     /\ UNCHANGED <<routeVars, sourceVars, registerVars, runbookVars, identityVars, subject>>
  \/ subject = "runbooks" /\ RunbooksNext
     /\ UNCHANGED <<routeVars, sourceVars, registerVars, complianceVars, identityVars, subject>>
  \/ subject = "identity" /\ IdentityNext
     /\ UNCHANGED <<routeVars, sourceVars, registerVars, complianceVars, runbookVars, subject>>

MCSpec ==
  MCInit /\ [][MCNext]_<<routeVars, sourceVars, registerVars, complianceVars, runbookVars, identityVars, subject>>

RecordsTypeOK ==
  /\ RouteTypeOK /\ SourcesTypeOK /\ RegisterTypeOK /\ ComplianceTypeOK /\ RunbooksTypeOK /\ IdentityTypeOK

\* The register of risks, the claims of compliance, the runbooks and the identities
\* of findings, each judged by its module.
RecordsAreKept == RegisterIsKept /\ ComplianceIsKept /\ RunbooksAreKept /\ IdentitiesAreKept
=============================================================================
