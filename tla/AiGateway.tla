------------------------------ MODULE AiGateway ------------------------------
(***************************************************************************)
(* The one door to a language model (services/ai/gateway, api/v1/ai): what is *)
(* asked passes the policy of the tenant, its budget and the redaction, goes   *)
(* to the endpoint that may see it or to none, and leaves a line in the AI     *)
(* audit log, while administrators change the policy and the endpoints.        *)
(*                                                                            *)
(* A request holds what it read while the endpoint answers; its line is        *)
(* committed with the answer, and lost with it.                                *)
(***************************************************************************)
EXTENDS Integers, Sequences, FiniteSets

CONSTANTS
  Askers,      \* requests that may run at the same time
  Asks,        \* what is asked: [capability, permitted, class, carries]
  Policies,    \* ai_policies rows, the default one included
  Defaults,    \* what holds while there is no row
  Endpoints,   \* what may be configured: [kind, external, default, serves]
  MaxAsked,    \* bound: questions
  MaxAdmin     \* bound: acts of administrators, days

\* What the columns hold: switches, classes and limits.
ASSUME AiAssumption ==
  /\ IsFiniteSet(Askers) /\ Defaults \in Policies /\ MaxAsked \in Nat /\ MaxAdmin \in Nat
  /\ \A p \in Policies : /\ {p.external, p.local, p.redact, p.guard} \subseteq BOOLEAN
                         /\ {p.maxExternal, p.maxLocal, p.limit} \subseteq Nat
  /\ \A a \in Asks : a.permitted \in BOOLEAN /\ a.class \in Nat
  /\ \A e \in Endpoints : {e.external, e.default} \subseteq BOOLEAN

VARIABLES
  policy, providers,
  asker,     \* the requests in progress, with what they read
  audit,     \* ai_audit_log: [decision, external, of, today]
  sent,      \* history: what endpoints received: [ask, carries, external, provider, policy]
  limits,    \* history: the limits a request of today found
  crowded,   \* history: requests that counted while another was on its way
  asked, acts

aiVars == <<policy, providers, asker, audit, sent, limits, crowded, asked, acts>>

Quiet == [stage |-> "quiet", of |-> 0, provider |-> 0]

AiInit ==
  /\ policy = Defaults /\ providers = <<>> /\ asker = [r \in Askers |-> Quiet] /\ audit = <<>> /\ sent = <<>>
  /\ limits = {} /\ crowded = FALSE /\ asked = 0 /\ acts = 0

----------------------------------------------------------------------------
(* Policy.                                                                  *)

Bug_External(provider) == provider.external

\* The hosted vendors cannot be marked internal.
External(provider) == provider.external \/ provider.kind = "hosted"

Ceiling(provider) == IF External(provider) THEN policy.maxExternal ELSE policy.maxLocal

\* _provider_allowed.
Allowed(provider, class) ==
  /\ IF External(provider) THEN policy.external ELSE policy.local
  /\ class <= Ceiling(provider)

Serving(ask) ==
  {i \in DOMAIN providers :
     providers[i].exists /\ ask.capability \in providers[i].serves /\ Allowed(providers[i], ask.class)}

\* select_provider: the default one first, then by the mark, then the oldest.
Preferred(i, j) ==
  LET p == providers[i]
      q == providers[j]
  IN
  IF p.default # q.default THEN p.default ELSE IF p.external # q.external THEN q.external ELSE i <= j

Selected(ask) == CHOOSE i \in Serving(ask) : \A j \in Serving(ask) : Preferred(i, j)

CallsToday == Cardinality({n \in DOMAIN audit : audit[n].today /\ audit[n].decision # "blocked"})

\* guardrails.sanitize, and the addresses on the way out.
Sanitized(ask, external) ==
  ask.carries \ ((IF policy.redact THEN {"secret"} ELSE {}) \cup (IF external THEN {"address"} ELSE {}))

Refused(ask) ==
  \/ ask.capability \in policy.disabled \/ ~ask.permitted
  \/ policy.limit # 0 /\ CallsToday >= policy.limit
  \/ "injection" \in ask.carries /\ policy.guard

Line(decision, external, of) == [decision |-> decision, external |-> external, of |-> of, today |-> TRUE]

----------------------------------------------------------------------------
(* invoke.                                                                  *)

\* Refused, or answered from the facts alone, or on its way to an endpoint.
Ask(r) ==
  \E ask \in Asks :
    /\ asked < MaxAsked /\ asked' = asked + 1 /\ asker[r] = Quiet
    /\ limits' = limits \cup {policy.limit}
    /\ crowded' = (crowded \/ \E q \in Askers : asker[q] # Quiet)
    /\ IF Refused(ask) \/ Serving(ask) = {}
       THEN /\ audit' = Append(audit, Line(IF Refused(ask) THEN "blocked" ELSE "degraded", FALSE, 0))
            /\ UNCHANGED <<asker, sent>>
       ELSE LET provider == Selected(ask)
                external == External(providers[provider])
            IN
            /\ sent' = Append(sent, [ask |-> ask, carries |-> Sanitized(ask, external), external |-> external,
                                     provider |-> provider, policy |-> policy])
            /\ asker' = [asker EXCEPT ![r] = [stage |-> "called", of |-> Len(sent) + 1, provider |-> provider]]
            /\ UNCHANGED audit
    /\ UNCHANGED <<policy, providers, acts>>

\* An endpoint that fails is replaced by the facts, and the line calls that internal.
\* When it was deleted meanwhile, marking it breaks the transaction, line and all.
Answer(r, served) ==
  LET of == asker[r].of IN
  /\ asker[r].stage = "called" /\ asker' = [asker EXCEPT ![r] = Quiet]
  /\ audit' = IF ~providers[asker[r].provider].exists THEN audit
              ELSE Append(audit, IF served THEN Line("allowed", sent[of].external, of) ELSE Line("degraded", FALSE, of))
  /\ UNCHANGED <<policy, providers, sent, limits, crowded, asked, acts>>

Stops(r) ==
  /\ asker[r].stage = "called" /\ asker' = [asker EXCEPT ![r].stage = "stopped"]
  /\ UNCHANGED <<policy, providers, audit, sent, limits, crowded, asked, acts>>

----------------------------------------------------------------------------
(* Administrators.                                                          *)

Act == acts < MaxAdmin /\ acts' = acts + 1 /\ UNCHANGED <<asker, sent, crowded, asked>>

WritePolicy ==
  \E p \in Policies : Act /\ p # policy /\ policy' = p /\ UNCHANGED <<providers, audit, limits>>

\* A new default takes the place of the old one.
CreateProvider ==
  \E e \in Endpoints :
    /\ Act
    /\ providers' = Append([i \in DOMAIN providers |-> [providers[i] EXCEPT !.default = @ /\ ~e.default]],
                           [exists |-> TRUE, kind |-> e.kind, external |-> e.external, default |-> e.default, serves |-> e.serves])
    /\ UNCHANGED <<policy, audit, limits>>

DeleteProvider ==
  \E i \in DOMAIN providers :
    /\ Act /\ providers[i].exists /\ providers' = [providers EXCEPT ![i].exists = FALSE]
    /\ UNCHANGED <<policy, audit, limits>>

DayPasses ==
  /\ Act /\ \A r \in Askers : asker[r].stage # "called"
  /\ audit' = [n \in DOMAIN audit |-> [audit[n] EXCEPT !.today = FALSE]] /\ limits' = {}
  /\ UNCHANGED <<policy, providers>>

AiNext ==
  \/ \E r \in Askers : Ask(r) \/ Stops(r) \/ \E served \in BOOLEAN : Answer(r, served)
  \/ WritePolicy \/ CreateProvider \/ DeleteProvider \/ DayPasses

AiSpec == AiInit /\ [][AiNext]_aiVars

----------------------------------------------------------------------------
AiTypeOK ==
  /\ policy \in Policies /\ asked \in 0 .. MaxAsked /\ acts \in 0 .. MaxAdmin
  /\ \A r \in Askers : asker[r].of \in 0 .. Len(sent) /\ asker[r].provider \in 0 .. Len(providers)

\* What reached an endpoint was allowed by the policy the request found: outside only
\* where the tenant lets anything out, only up to the class it lets out, and without
\* what is redacted (gateway, "Local-only tenants can never accidentally egress").
OnlyWhatMayLeaves ==
  \A n \in DOMAIN sent :
    LET s == sent[n]
        provider == providers[s.provider]
        outside == provider.external \/ provider.kind = "hosted"
    IN
    /\ s.ask.permitted /\ s.ask.capability \notin s.policy.disabled
    /\ outside => s.policy.external /\ s.ask.class <= s.policy.maxExternal /\ "address" \notin s.carries
    /\ ~outside => s.policy.local /\ s.ask.class <= s.policy.maxLocal
    /\ s.policy.redact => "secret" \notin s.carries
    /\ s.policy.guard => "injection" \notin s.carries

\* A call that was answered has its line, unless its endpoint was deleted meanwhile; no
\* call has two, and a line calls its call internal only if it was or if it failed
\* ("Audit - written for allowed, degraded AND blocked calls alike").
LinesAreHonest ==
  /\ \A n, k \in DOMAIN audit : n # k /\ audit[n].of # 0 => audit[n].of # audit[k].of
  /\ \A n \in DOMAIN audit :
       /\ audit[n].decision = "blocked" => audit[n].of = 0
       /\ audit[n].external => sent[audit[n].of].external
       /\ audit[n].of # 0 /\ sent[audit[n].of].external => audit[n].external \/ audit[n].decision = "degraded"
  /\ \A m \in DOMAIN sent :
       \/ \E n \in DOMAIN audit : audit[n].of = m
       \/ \E r \in Askers : asker[r].of = m
       \/ ~providers[sent[m].provider].exists

\* The day's calls exceed the limits the day's requests found only by those that were
\* on their way together.
BudgetIsKept ==
  0 \notin limits =>
    \/ CallsToday = 0
    \/ \E limit \in limits : CallsToday <= limit + (IF crowded THEN Cardinality(Askers) - 1 ELSE 0)

AssistantIsBounded == OnlyWhatMayLeaves /\ LinesAreHonest /\ BudgetIsKept
=============================================================================
