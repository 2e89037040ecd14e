----------------------------- MODULE Compliance -----------------------------
(***************************************************************************)
(* Compliance: what an organisation claims of the controls of a catalogue,    *)
(* what the signals and the calendar make of the claims, and the assessments  *)
(* that freeze them.                                                          *)
(*                                                                            *)
(* A request reads the rows it works on when it begins and commits the columns*)
(* it changed: a column set to the value it was read with is not written.     *)
(***************************************************************************)
EXTENDS Integers, FiniteSets

CONSTANTS
  Controls,    \* the controls the published standard contains
  Shipped,     \* those of the built-in catalogue
  Signalled,   \* those of them with an automation signal
  Claims,      \* the statuses that are claimed in a PUT
  Requests,    \* requests that may run at the same time
  MaxAsks      \* bound: requests that begin

Positions == {"not_assessed", "not_applicable", "planned", "partial", "implemented", "stale"}

ASSUME ComplianceAssumption ==
  /\ Claims \subseteq Positions
  /\ Signalled \subseteq Shipped /\ Shipped \subseteq Controls /\ IsFiniteSet(Controls) /\ MaxAsks \in Nat

VARIABLES
  catalogue,    \* the controls installed
  partial,      \* ComplianceFramework.is_partial
  position,     \* control_implementations, one per control
  assessment,   \* one compliance_assessments row and its gaps
  request,      \* the requests in progress, with what they read
  asks,
  claim,        \* history: what a person last claimed of each control
  mixed         \* history: what was last written by requests that overlapped

complianceVars == <<catalogue, partial, position, assessment, request, asks, claim, mixed>>

\* review: the next one is "ahead", "overdue", or there is "none".
NoPosition == [exists |-> FALSE, status |-> "not_assessed", justified |-> FALSE, period |-> TRUE, review |-> "none"]

Idle == [op |-> "idle", control |-> "none", saw |-> [c \in Controls |-> NoPosition],
         installed |-> {}, set |-> {},
         status |-> "not_assessed", justification |-> "kept", period |-> TRUE]

ComplianceInit ==
  /\ catalogue = Shipped /\ partial = TRUE
  /\ position = [c \in Controls |-> NoPosition]
  /\ assessment = [status |-> "in_progress", snapshot |-> [c \in {} |-> "not_assessed"], gaps |-> [c \in Controls |-> 0]]
  /\ request = [r \in Requests |-> Idle] /\ asks = 0
  /\ claim = [c \in Controls |-> "not_assessed"] /\ mixed = {}

Ask(r, what) ==
  /\ asks < MaxAsks /\ asks' = asks + 1 /\ request[r].op = "idle"
  /\ request' = [request EXCEPT ![r] = [what EXCEPT !.saw = position, !.installed = catalogue]]
  /\ UNCHANGED <<catalogue, partial, position, assessment, claim, mixed>>

Answered(r) == request' = [request EXCEPT ![r] = Idle] /\ UNCHANGED asks

\* get_or_create_implementation: of two that find no row the second breaks the unique index.
Collides(r, touched) == \E c \in touched : position[c].exists /\ ~request[r].saw[c].exists

Created(touched) == [c \in Controls |-> IF c \in touched THEN [position[c] EXCEPT !.exists = TRUE] ELSE position[c]]

Judge(doubtful, settled) == mixed' = (mixed \ settled) \cup doubtful

----------------------------------------------------------------------------
(* Claims.                                                                  *)

Justified(row, given) == CASE given = "kept" -> row.justified [] given = "blank" -> FALSE [] given = "text" -> TRUE

\* set_status: an old justification will do, and a blank one may then replace it.
ClaimBegins(r) ==
  \E c \in catalogue, status \in Claims, given \in {"kept", "blank", "text"}, period \in BOOLEAN :
    /\ status = "not_applicable" => given = "text" \/ position[c].justified
    /\ Ask(r, [Idle EXCEPT !.op = "claim", !.control = c, !.status = status,
                           !.justification = given, !.period = period])

ClaimEnds(r) ==
  LET c == request[r].control
      saw == request[r].saw[c]
      now == position[c]
      wanted == [saw EXCEPT !.status = request[r].status, !.justified = Justified(saw, request[r].justification)]
      undisturbed == now.status = saw.status /\ now.justified = saw.justified
  IN
  /\ request[r].op = "claim" /\ Answered(r)
  /\ IF Collides(r, {c}) THEN UNCHANGED <<position, claim, mixed>>
     ELSE /\ position' = [position EXCEPT ![c] =
               [exists |-> TRUE,
                status |-> IF wanted.status # saw.status THEN wanted.status ELSE now.status,
                justified |-> IF wanted.justified # saw.justified THEN wanted.justified ELSE now.justified,
                period |-> IF request[r].period # saw.period THEN request[r].period ELSE now.period,
                review |-> IF request[r].period THEN "ahead" ELSE "none"]]
          /\ claim' = [claim EXCEPT ![c] = request[r].status]
          /\ Judge((IF undisturbed THEN {} ELSE {<<c, "status">>, <<c, "justification">>})
                     \cup (IF saw.justified /\ ~wanted.justified THEN {<<c, "justification">>} ELSE {}),
                   {<<c, "status">>, <<c, "justification">>})
  /\ UNCHANGED <<catalogue, partial, assessment>>

\* add_evidence: the claim it supports is opened when there is none.
EvidenceBegins(r) == \E c \in catalogue : ~position[c].exists /\ Ask(r, [Idle EXCEPT !.op = "evidence", !.set = {c}])

EvidenceEnds(r) ==
  /\ request[r].op = "evidence" /\ Answered(r)
  /\ position' = IF Collides(r, request[r].set) THEN position ELSE Created(request[r].set)
  /\ UNCHANGED <<catalogue, partial, assessment, claim, mixed>>

----------------------------------------------------------------------------
(* Signals and the calendar.                                                *)

ReviewFallsDue ==
  \E c \in Controls :
    /\ position[c].review = "ahead" /\ position' = [position EXCEPT ![c].review = "overdue"]
    /\ UNCHANGED <<catalogue, partial, assessment, request, asks, claim, mixed>>

\* refresh_automated_evidence: each signal is measured, passing or not.
RefreshBegins(r) ==
  \E passing \in SUBSET Signalled : Ask(r, [Idle EXCEPT !.op = "refresh", !.set = passing])

Bug_Lifted(r) == {c \in request[r].set : request[r].saw[c].status \in {"not_assessed", "not_applicable"}}

\* Only what nobody has assessed is lifted, and only to partial.
Lifted(r) == {c \in request[r].set : request[r].saw[c].status = "not_assessed"}

RefreshEnds(r) ==
  /\ request[r].op = "refresh" /\ Answered(r)
  /\ IF Collides(r, Signalled) THEN UNCHANGED <<position, mixed>>
     ELSE /\ position' = [c \in Controls |->
               IF c \in Lifted(r) THEN [Created(Signalled)[c] EXCEPT !.status = "partial"] ELSE Created(Signalled)[c]]
          /\ Judge({<<c, "status">> : c \in {d \in Lifted(r) : position[d].status # request[r].saw[d].status}}, {})
  /\ UNCHANGED <<catalogue, partial, assessment, claim>>

Overdue(rows) == {c \in Controls : rows[c].status = "implemented" /\ rows[c].review = "overdue"}

\* GET /frameworks/{id}/coverage marks what is overdue before it reports.
CoverageBegins(r) == Overdue(position) # {} /\ Ask(r, [Idle EXCEPT !.op = "coverage"])

CoverageEnds(r) ==
  /\ request[r].op = "coverage" /\ Answered(r)
  /\ position' = [c \in Controls |->
       IF c \in Overdue(request[r].saw) THEN [position[c] EXCEPT !.status = "stale"] ELSE position[c]]
  /\ Judge({<<c, "status">> : c \in Overdue(request[r].saw) \ Overdue(position)}, {})
  /\ UNCHANGED <<catalogue, partial, assessment, claim>>

----------------------------------------------------------------------------
(* Assessments.                                                             *)

\* POST /assessments/{id}/complete, refused when it is complete.
CompletionBegins(r) ==
  assessment.status = "in_progress" /\ Ask(r, [Idle EXCEPT !.op = "complete"])

Open(snapshot) == {c \in DOMAIN snapshot : snapshot[c] \notin {"implemented", "not_applicable"}}

CompletionEnds(r) ==
  LET snapshot == [c \in request[r].installed |-> request[r].saw[c].status] IN
  /\ request[r].op = "complete" /\ Answered(r)
  /\ assessment' = [status |-> "complete", snapshot |-> snapshot,
                    gaps |-> [c \in Controls |-> assessment.gaps[c] + (IF c \in Open(snapshot) THEN 1 ELSE 0)]]
  /\ Judge(IF assessment.status = "complete" THEN {<<"assessment", "gaps">>} ELSE {}, {})
  /\ UNCHANGED <<catalogue, partial, position, claim>>

----------------------------------------------------------------------------
(* The catalogue.                                                           *)

\* import_controls_csv reads the references that are installed.
ImportBegins(r) == \E rows \in SUBSET Controls \ {{}} : Ask(r, [Idle EXCEPT !.op = "import", !.set = rows])

\* A reference somebody else inserted meanwhile breaks the unique index.  The count is
\* taken before the commit: what another import commits may or may not be in it.
ImportEnds(r) ==
  LET rows == request[r].set \ request[r].installed IN
  /\ request[r].op = "import" /\ Answered(r)
  /\ IF rows \cap catalogue # {} THEN UNCHANGED <<catalogue, partial, mixed>>
     ELSE /\ catalogue' = catalogue \cup rows
          /\ \E seen \in {request[r].installed, catalogue} :
               partial' = (partial /\ Cardinality(seen \cup rows) < Cardinality(Controls))
          /\ Judge(IF catalogue = request[r].installed THEN {} ELSE {<<"catalogue", "partial">>}, {})
  /\ UNCHANGED <<position, assessment, claim>>

ComplianceNext ==
  \/ \E r \in Requests :
       \/ ClaimBegins(r) \/ ClaimEnds(r) \/ EvidenceBegins(r) \/ EvidenceEnds(r)
       \/ RefreshBegins(r) \/ RefreshEnds(r) \/ CoverageBegins(r) \/ CoverageEnds(r)
       \/ CompletionBegins(r) \/ CompletionEnds(r) \/ ImportBegins(r) \/ ImportEnds(r)
  \/ ReviewFallsDue

ComplianceSpec == ComplianceInit /\ [][ComplianceNext]_complianceVars

----------------------------------------------------------------------------
ComplianceTypeOK ==
  /\ Shipped \subseteq catalogue /\ catalogue \subseteq Controls /\ partial \in BOOLEAN
  /\ \A c \in Controls : position[c].status \in Positions /\ claim[c] \in Positions
  /\ assessment.status \in {"in_progress", "complete"} /\ asks \in 0 .. MaxAsks

\* A control is in the status a person claimed, or in what a signal makes of a control
\* nobody assessed (partial, never more) or the calendar of an implemented one whose
\* review is overdue (stale), unless two requests wrote it at the same time
\* (refresh_automated_evidence "never to implemented", mark_stale_implementations).
ClaimsAreHuman ==
  \A c \in Controls :
    \/ position[c].status = claim[c]
    \/ claim[c] = "not_assessed" /\ position[c].status = "partial" /\ c \in Signalled
    \/ claim[c] = "implemented" /\ position[c].status = "stale" /\ position[c].review = "overdue"
    \/ <<c, "status">> \in mixed

\* What is said not to apply is justified, unless the justification was blanked out or
\* two requests wrote the control at the same time (set_status).
ExclusionsAreJustified ==
  \A c \in Controls :
    position[c].status = "not_applicable" => position[c].justified \/ <<c, "justification">> \in mixed

\* A complete assessment holds one gap for every control of its snapshot that is
\* neither implemented nor excluded, and no other, whatever became of the controls,
\* unless it was completed twice (complete_assessment).
AssessmentsAreFrozen ==
  assessment.status = "complete" =>
    \/ \A c \in Controls : assessment.gaps[c] = (IF c \in Open(assessment.snapshot) THEN 1 ELSE 0)
    \/ /\ <<"assessment", "gaps">> \in mixed
       /\ \A c \in Open(assessment.snapshot) : assessment.gaps[c] >= 1

\* The catalogue is called partial until it holds every control, and no longer, unless
\* two imports each missed what the other brought (import_controls_csv).
CatalogueIsHonest ==
  /\ ~partial => catalogue = Controls
  /\ catalogue = Controls => ~partial \/ Shipped = Controls \/ <<"catalogue", "partial">> \in mixed

ComplianceIsKept ==
  ClaimsAreHuman /\ ExclusionsAreJustified /\ AssessmentsAreFrozen /\ CatalogueIsHonest
=============================================================================
