------------------------------- MODULE FixPlan -------------------------------
(***************************************************************************)
(* Which version fixes what is open on one installation, and the way there:   *)
(* the order of versions (services/versions), the plan (services/fix_plan)    *)
(* and the operators' upgrade path rules, patched by requests that overlap.   *)
(*                                                                            *)
(* A version is the sequence of segments it parses to: <<1, n>> a number,     *)
(* <<0, rank>> a marker such as rc.  Wild is a field that says nothing.          *)
(***************************************************************************)
EXTENDS Integers, Sequences, FiniteSets

CONSTANTS
  Versions, Wild,
  Flaws,        \* the CVEs of findings on the installation
  Knowledge,    \* what may be published of a CVE: [ranges, advised]
  Drafts,       \* the rules operators write: [lower, upper, via, note], and
  Patches,      \* what they patch in them, a record with some of these fields
  Editors,      \* requests that may run at the same time
  MaxRules,     \* bound: rules
  MaxHops,      \* fix_plan.MAX_HOPS
  MaxTurns      \* bound: requests, publications, plans and sightings

VersionBound == [kind : {"including", "excluding"}, at : Versions \cup {Wild}]
VersionRange == [pinned : Versions \cup {Wild}, lower : VersionBound, upper : VersionBound]

ASSUME FixPlanAssumption ==
  /\ IsFiniteSet(Versions) /\ Wild \notin Versions /\ \A v \in Versions : v \in Seq({0, 1} \X Nat)
  /\ Knowledge \subseteq [ranges : SUBSET VersionRange, advised : SUBSET Versions]
  /\ Drafts \subseteq [lower : VersionBound, upper : VersionBound, via : Versions \cup {Wild}, note : BOOLEAN]
  /\ \A p \in Patches :
       /\ DOMAIN p \subseteq {"lower", "upper", "via", "note"} /\ ("note" \in DOMAIN p => p.note \in BOOLEAN)
       /\ \A f \in DOMAIN p \cap {"lower", "upper"} : p[f] \in VersionBound
       /\ "via" \in DOMAIN p => p.via \in Versions \cup {Wild}
  /\ Flaws # {} /\ MaxHops \in Nat \ {0} /\ {MaxRules, MaxTurns} \subseteq Nat

VARIABLES
  rules,      \* upgrade_path_rules, in the order they were created
  editor,     \* the requests in progress, with what they read
  published,  \* per CVE: its ranges and the fixed versions an advisory lists
  installed,  \* asset_products.version
  opened,     \* the CVEs with an open finding
  plan,       \* the plan somebody follows: [target, fixes], and what is promised
  turned,
  crossed     \* history, per rule: two requests changed it at the same time

fixVars == <<rules, editor, published, installed, opened, plan, turned, crossed>>

----------------------------------------------------------------------------
(* Versions.                                                                *)

\* A missing segment is a zero: 7.2 is 7.2.0, and above 7.2-rc1.
Segment(v, i) == IF i \in DOMAIN v THEN v[i] ELSE <<1, 0>>

Before(s, t) == s[1] < t[1] \/ (s[1] = t[1] /\ s[2] < t[2])

\* compare(v, w) < 0, and = 0.
Older(v, w) ==
  \E i \in 1 .. (Len(v) + Len(w)) :
    Before(Segment(v, i), Segment(w, i)) /\ \A j \in 1 .. (i - 1) : Segment(v, j) = Segment(w, j)

SameVersion(v, w) == ~Older(v, w) /\ ~Older(w, v)

Oldest(S) == CHOOSE v \in S : \A w \in S : ~Older(w, v)

\* in_range: a bound is [kind, at], the kind "including" or "excluding".
Unbounded == [kind |-> "including", at |-> Wild]
Above(v, b) == b.at = Wild \/ Older(b.at, v) \/ (b.kind = "including" /\ SameVersion(b.at, v))
Below(v, b) == b.at = Wild \/ Older(v, b.at) \/ (b.kind = "including" /\ SameVersion(b.at, v))
InRange(v, lower, upper) == Above(v, lower) /\ Below(v, upper)

\* match_covers: a CPE that pins a version ignores its bounds.
Covers(r, v) ==
  v # Wild /\ IF r.pinned # Wild THEN SameVersion(v, r.pinned) ELSE InRange(v, r.lower, r.upper)

Hits(c, v) == \E r \in published[c].ranges : Covers(r, v)

Branch(v) ==
  IF v = Wild \/ Segment(v, 1)[1] # 1 \/ (Len(v) > 1 /\ v[2][1] # 1) THEN <<>>
  ELSE <<v[1][2], Segment(v, 2)[2]>>

----------------------------------------------------------------------------
(* The plan.                                                                *)

\* The first version after a range is a fix, the last of a range is none.
RangeFixes(c) ==
  {r.upper.at : r \in {s \in published[c].ranges : s.pinned = Wild /\ s.upper.kind = "excluding" /\ s.upper.at # Wild}}
ExactFixes(c) == RangeFixes(c) \cup published[c].advised

\* An advisory is silent about branches it does not name.
Consistent(v, advised) ==
  \/ advised = {}
  \/ \E w \in advised : SameVersion(v, w) \/ (Older(w, v) /\ Branch(v) # <<>> /\ Branch(v) = Branch(w))
  \/ \A w \in advised : Older(w, v)

Bug_FixedBy(c, v) == (published[c].ranges # {} \/ published[c].advised # {}) /\ Consistent(v, published[c].advised)

FixedBy(c, v) ==
  /\ published[c].ranges # {} \/ published[c].advised # {}
  /\ ~Hits(c, v) /\ Consistent(v, published[c].advised)

KnownFix == {c \in opened : ExactFixes(c) # {}}
Candidates == IF installed = Wild THEN {} ELSE {v \in UNION {ExactFixes(c) : c \in opened} : Older(installed, v)}
FixesOf(v) == {c \in KnownFix : FixedBy(c, v)}

FixesAll == {v \in Candidates : KnownFix # {} /\ FixesOf(v) = KnownFix}
OnBranch == {v \in Candidates : FixesOf(v) # {} /\ Branch(installed) # <<>> /\ Branch(v) = Branch(installed)}

\* best_single_target, and nearest_on_branch.
Targets == {Oldest(S) : S \in {FixesAll, OnBranch} \ {{}}}

\* upgrade_path, one stop: the lowest version the rules covering this one go via.
CoveringRules(v) == {i \in DOMAIN rules : rules[i].exists /\ InRange(v, rules[i].lower, rules[i].upper)}
Stops(v, target) ==
  {rules[i].via : i \in {j \in CoveringRules(v) :
     rules[j].via # Wild /\ Older(v, rules[j].via) /\ Older(rules[j].via, target)}}

Bug_NextStop(v, target) ==
  LET via == {rules[i].via : i \in {j \in CoveringRules(v) : rules[j].via # Wild}}
  IN  IF via = {} \/ v \in via THEN target ELSE Oldest(via)

NextStop(v, target) == IF Stops(v, target) = {} THEN target ELSE Oldest(Stops(v, target))

\* The stops after v, up to the cap.
UpgradePath(v, target) ==
  LET path[n \in 0 .. MaxHops] ==
        IF n = 0 THEN <<v>>
        ELSE LET p == path[n - 1] IN
             IF n > 1 /\ SameVersion(p[Len(p)], target) THEN p ELSE Append(p, NextStop(p[Len(p)], target))
  IN  path[MaxHops]

----------------------------------------------------------------------------
(* Rules.                                                                   *)

\* _clean: no empty range, and no way via a version below it; all of them 422.
Sane(r) ==
  /\ r.via # Wild \/ r.note
  /\ r.lower.at # Wild /\ r.upper.at # Wild =>
       \/ Older(r.lower.at, r.upper.at)
       \/ SameVersion(r.lower.at, r.upper.at) /\ r.lower.kind = "including" /\ r.upper.kind = "including"
  /\ r.via # Wild /\ r.lower.at # Wild => Older(r.lower.at, r.via)

Idle == [rule |-> 0, saw |-> <<>>, patch |-> <<>>]

FixInit ==
  /\ rules = <<>> /\ crossed = <<>> /\ editor = [e \in Editors |-> Idle] /\ turned = 0
  /\ published \in [Flaws -> Knowledge] /\ installed \in Versions \cup {Wild}
  /\ opened = {c \in Flaws : Hits(c, installed)}
  /\ plan = [target |-> Wild, fixes |-> {}]

Turn == turned < MaxTurns /\ turned' = turned + 1

CreateRule ==
  \E d \in Drafts :
    /\ Turn /\ Len(rules) < MaxRules /\ Sane(d)
    /\ rules' = Append(rules, [exists |-> TRUE, lower |-> d.lower, upper |-> d.upper, via |-> d.via, note |-> d.note]) /\ crossed' = Append(crossed, FALSE)
    /\ UNCHANGED <<editor, published, installed, opened, plan>>

Merged(saw, patch) == [f \in DOMAIN saw |-> IF f \in DOMAIN patch THEN patch[f] ELSE saw[f]]

\* What is validated is the rule as it was read, with the change.
PatchBegins(e) ==
  \E i \in DOMAIN rules, p \in Patches :
    /\ Turn /\ editor[e] = Idle /\ rules[i].exists /\ Sane(Merged(rules[i], p))
    /\ editor' = [editor EXCEPT ![e] = [rule |-> i, saw |-> rules[i], patch |-> p]]
    /\ crossed' = [crossed EXCEPT ![i] = @ \/ \E d \in Editors : editor[d].rule = i]
    /\ UNCHANGED <<rules, published, installed, opened, plan>>

\* Only the columns that differ from what was read are written.
PatchEnds(e) ==
  LET i == editor[e].rule
      saw == editor[e].saw
      after == Merged(saw, editor[e].patch)
  IN
  /\ editor[e] # Idle /\ editor' = [editor EXCEPT ![e] = Idle]
  /\ rules' = IF ~rules[i].exists THEN rules
              ELSE [rules EXCEPT ![i] = [f \in DOMAIN @ |-> IF after[f] # saw[f] THEN after[f] ELSE @[f]]]
  /\ UNCHANGED <<published, installed, opened, plan, turned, crossed>>

DeleteRule ==
  \E i \in DOMAIN rules :
    /\ Turn /\ rules[i].exists /\ rules' = [rules EXCEPT ![i].exists = FALSE]
    /\ UNCHANGED <<editor, published, installed, opened, plan, crossed>>

----------------------------------------------------------------------------
(* The installation.                                                        *)

\* The feed publishes something else of a CVE: no plan made before promises it.
Publish ==
  \E c \in Flaws, k \in Knowledge :
    /\ Turn /\ k # published[c] /\ published' = [published EXCEPT ![c] = k]
    /\ plan' = [plan EXCEPT !.fixes = @ \ {c}]
    /\ UNCHANGED <<rules, editor, installed, opened, crossed>>

\* correlation.correlate_asset opens what matches; nobody but a person or a scan
\* closes what matches no more.
Correlate ==
  /\ opened' = opened \cup {c \in Flaws : Hits(c, installed)} /\ opened' # opened
  /\ UNCHANGED <<rules, editor, published, installed, plan, turned, crossed>>

Close ==
  \E c \in opened :
    /\ Turn /\ opened' = opened \ {c}
    /\ UNCHANGED <<rules, editor, published, installed, plan, crossed>>

Follow ==
  \E v \in Targets :
    /\ Turn /\ plan' = [target |-> v, fixes |-> FixesOf(v)]
    /\ UNCHANGED <<rules, editor, published, installed, opened, crossed>>

\* External: whoever follows it goes to the next stop, as the rules say by then.
Upgrade ==
  /\ plan.target # Wild /\ installed # Wild /\ Older(installed, plan.target)
  /\ installed' = NextStop(installed, plan.target)
  /\ UNCHANGED <<rules, editor, published, opened, plan, turned, crossed>>

FixNext ==
  \/ CreateRule \/ DeleteRule \/ Publish \/ Correlate \/ Close \/ Follow \/ Upgrade
  \/ \E e \in Editors : PatchBegins(e) \/ PatchEnds(e)

FixSpec == FixInit /\ [][FixNext]_fixVars

----------------------------------------------------------------------------
FixTypeOK ==
  /\ installed \in Versions \cup {Wild} /\ opened \subseteq Flaws /\ Len(rules) <= MaxRules
  /\ plan.target \in Versions \cup {Wild} /\ plan.fixes \subseteq Flaws

\* Every way to a target climbs, arrives, and jumps over no version a rule makes it
\* stop at from where it is, whatever rules there are (upgrade_path, "Cycle guard").
\* A request in progress has changed no rule yet: it is enough to look while none is.
PathsObeyTheRules ==
  (\A e \in Editors : editor[e] = Idle) =>
  \A v, target \in Versions :
    Older(v, target) =>
      LET path == UpgradePath(v, target)
          last == Len(path)
      IN  /\ SameVersion(path[last], target)
          /\ \A n \in 1 .. (last - 1) :
               /\ Older(path[n], path[n + 1])
               /\ \A i \in CoveringRules(path[n]) :
                    ~(rules[i].via # Wild /\ Older(path[n], rules[i].via) /\ Older(rules[i].via, path[n + 1]))

\* Who followed a plan to its end is out of all it said it fixes ("the plan and the
\* finding cannot disagree").
PlansKeepTheirWord ==
  plan.target # Wild /\ installed # Wild /\ SameVersion(installed, plan.target)
    => \A c \in plan.fixes : ~Hits(c, installed)

\* No rule has an empty range or goes backwards, unless two requests changed it at
\* the same time (api fix_plan._clean, "the rule as it will be AFTER the change").
RulesAreSane == \A i \in DOMAIN rules : rules[i].exists => Sane(rules[i]) \/ crossed[i]

FixPlansAreSound == PathsObeyTheRules /\ PlansKeepTheirWord /\ RulesAreSane
=============================================================================
