---------------------------- MODULE WorkflowRules ----------------------------
(***************************************************************************)
(* The workflows of a tenant (services/workflow): a trigger, a condition and   *)
(* an ordered list of steps, run inside the transaction that fired the        *)
(* trigger, while operators write, rename and switch them.                     *)
(*                                                                            *)
(* A transaction reads the finding and the definitions when it begins, runs    *)
(* the workflows that match one after another and step by step, and commits    *)
(* what the steps did; a step that breaks the transaction takes all of it      *)
(* along, what was committed before the trigger excepted.                      *)
(***************************************************************************)
EXTENDS Integers, FiniteSets, Sequences
LOCAL INSTANCE FiniteSetsExt

CONSTANTS
  Writes,     \* what operators write: [slug, enabled, trigger, condition, steps, stop]
  Builtins,   \* BUILTIN_WORKFLOWS, a set of these with distinct slugs
  Workers,    \* transactions that run at the same time
  MaxSteps,   \* bound: steps of a workflow
  MaxFired,   \* bound: events
  MaxWritten  \* bound: writes of definitions

\* The events something fires.  A ticket that moves carries no finding, and what
\* happens to a finding carries no ticket.
Events == {"finding.created", "sla.breached", "ticket.created", "ticket.state_changed"}
WithFinding == Events \ {"ticket.state_changed"}
WithTicket  == {"ticket.created", "ticket.state_changed"}

States == {"new", "closed"}
Conditions == {"any", "ticket"} \cup States
Traced == {"notify", "comment"}
Steps == Traced \cup {"ticket", "close", "nowhere"}

ASSUME WorkflowAssumption ==
  /\ Builtins \subseteq Writes /\ IsFiniteSet(Builtins)
  /\ \A b, c \in Builtins : b.slug = c.slug => b = c
  /\ \A x \in Writes : /\ x.enabled \in BOOLEAN /\ x.stop \in BOOLEAN
                       /\ x.trigger \in Events /\ x.condition \in Conditions
                       /\ x.steps \in Seq(Steps) /\ Len(x.steps) <= MaxSteps
  /\ MaxSteps \in Nat /\ MaxFired \in Nat /\ MaxWritten \in Nat

VARIABLES
  definitions,  \* workflow_definitions, in the order they were created
  state,        \* of the one finding: "new" or "closed"
  effects,      \* the notices and comments there are
  log,          \* workflow_runs, in the order they were committed
  worker,       \* the transactions in progress
  context,      \* WorkflowContext of the run in progress: has it a ticket; its step results
  fired, written,
  overlapped    \* history: definitions two transactions ran at once

workflowVars == <<definitions, state, effects, log, worker, context, fired, written, overlapped>>

None == [k \in Traced \cup {"close"} |-> 0]
Off == [event |-> "none", saw |-> <<>>, seen |-> "new", left |-> {}, done |-> None, broken |-> FALSE, runs |-> <<>>]
Context(event) == [ticket |-> event \in WithTicket, results |-> <<>>]

WorkflowsInit ==
  /\ definitions = <<>> /\ state = "new" /\ effects = [k \in Traced |-> 0] /\ log = <<>>
  /\ worker = [w \in Workers |-> Off] /\ context = [w \in Workers |-> Context("none")]
  /\ fired = 0 /\ written = 0 /\ overlapped = {}

----------------------------------------------------------------------------
(* Definitions.                                                             *)

Slugged(slug) == {i \in DOMAIN definitions : definitions[i].slug = slug}
NewRow(write, runs) == [slug |-> write.slug, enabled |-> write.enabled, trigger |-> write.trigger,
                        condition |-> write.condition, steps |-> write.steps, stop |-> write.stop, runs |-> runs]

Authored ==
  /\ written < MaxWritten /\ written' = written + 1
  /\ UNCHANGED <<state, effects, log, worker, context, fired, overlapped>>

\* Refused (409) when the slug is taken.
CreateWorkflow ==
  \E write \in Writes :
    /\ Authored /\ Slugged(write.slug) = {}
    /\ definitions' = Append(definitions, NewRow(write, 0))

\* A patch is a full payload, the slug and the switch included; a slug somebody else
\* has breaks the unique index.
UpdateWorkflow ==
  \E i \in DOMAIN definitions, write \in Writes :
    /\ Authored /\ Slugged(write.slug) \subseteq {i}
    /\ definitions' = [definitions EXCEPT ![i] = NewRow(write, @.runs)]

\* seed_workflows installs what is built in and whose slug is missing.  All of it has
\* the time of the transaction: the order it is read in later is the database's.
Missing == {b \in Builtins : Slugged(b.slug) = {}}

SeedWorkflows ==
  \E order \in [1 .. Cardinality(Missing) -> Missing] :
    /\ Authored /\ Missing # {} /\ \A b \in Missing : \E n \in DOMAIN order : order[n] = b
    /\ definitions' = definitions \o [n \in DOMAIN order |-> NewRow(order[n], 0)]

----------------------------------------------------------------------------
(* A transaction.                                                           *)

Bug_RuleMatches(condition, event, seen) == condition = "any" \/ event \notin WithFinding \/ condition = seen

\* rule_matches: a field the event does not carry matches nothing.
RuleMatches(condition, event, seen) ==
  \/ condition = "any"
  \/ event \in WithFinding /\ condition = seen
  \/ event \in WithTicket /\ condition = "ticket"

\* matching_definitions, and the conditions on the finding before any of them ran.
Chosen(event) ==
  {i \in DOMAIN definitions :
     /\ definitions[i].enabled /\ definitions[i].trigger = event
     /\ RuleMatches(definitions[i].condition, event, state)}

TriggerBegins(w) ==
  \E event \in Events :
    /\ fired < MaxFired /\ fired' = fired + 1 /\ worker[w] = Off
    /\ worker' = [worker EXCEPT ![w] =
         [event |-> event, saw |-> definitions, seen |-> state, left |-> Chosen(event), done |-> None,
          broken |-> FALSE, runs |-> <<>>]]
    /\ context' = [context EXCEPT ![w] = Context(event)]
    /\ UNCHANGED <<definitions, state, effects, log, written, overlapped>>

\* The workflow under way, and whether its last step was.
Flow(t) == t.saw[Min(t.left)]
Over(flow, results) ==
  \/ Len(results) = Len(flow.steps)
  \/ flow.stop /\ results # <<>> /\ results[Len(results)] = "error"

\* What one step comes to, with a ticket in the context or without.
Outcome(step, event, ticket) ==
  CASE step = "comment" -> IF ticket THEN "ok" ELSE "skipped"
    [] step = "notify"  -> IF event \in WithFinding THEN "ok" ELSE "warning"
    [] step = "nowhere" -> IF event \in WithFinding THEN "error" ELSE "skipped"
    [] OTHER            -> IF event \in WithFinding THEN "ok" ELSE "skipped"

\* A ticket whose insert fails breaks the transaction: what follows it fails too, and
\* the exception of that is recorded like any other.
StepRuns(w) ==
  \E unlucky \in BOOLEAN :
    LET t == worker[w]
        c == context[w]
        step == Flow(t).steps[Len(c.results) + 1]
        broken == t.broken \/ (unlucky /\ step = "ticket" /\ t.event \in WithFinding)
        outcome == IF broken THEN "error" ELSE Outcome(step, t.event, c.ticket)
    IN
    /\ t.left # {} /\ ~Over(Flow(t), c.results)
    /\ worker' = [worker EXCEPT ![w] = [t EXCEPT !.broken = broken,
         !.done = IF outcome = "ok" /\ step \in DOMAIN t.done THEN [t.done EXCEPT ![step] = @ + 1] ELSE t.done]]
    /\ context' = [context EXCEPT ![w] =
         [ticket |-> c.ticket \/ (outcome = "ok" /\ step = "ticket"), results |-> Append(c.results, outcome)]]
    /\ UNCHANGED <<definitions, state, effects, log, fired, written, overlapped>>

\* The next workflow begins with the ticket of the event, in a context of its own.
RunEnds(w) ==
  LET t == worker[w] IN
  /\ t.left # {} /\ Over(Flow(t), context[w].results)
  /\ worker' = [worker EXCEPT ![w] = [t EXCEPT !.left = @ \ {Min(t.left)},
       !.runs = Append(@, [of |-> Min(t.left), event |-> t.event, seen |-> t.seen, row |-> Flow(t),
                           results |-> context[w].results])]]
  /\ context' = [context EXCEPT ![w] = Context(t.event)]
  /\ UNCHANGED <<definitions, state, effects, log, fired, written, overlapped>>

\* The commit adds one to the count each run read; a broken transaction leaves nothing.
TriggerEnds(w) ==
  LET t == worker[w]
      ran == {t.runs[n].of : n \in DOMAIN t.runs}
  IN
  /\ t # Off /\ t.left = {}
  /\ worker' = [worker EXCEPT ![w] = Off] /\ context' = [context EXCEPT ![w] = Context("none")]
  /\ IF t.broken
     THEN UNCHANGED <<definitions, state, effects, log, overlapped>>
     ELSE /\ state' = IF t.done["close"] > 0 THEN "closed" ELSE state
          /\ effects' = [k \in Traced |-> effects[k] + t.done[k]] /\ log' = log \o t.runs
          /\ definitions' = [i \in DOMAIN definitions |->
               IF i \in ran THEN [definitions[i] EXCEPT !.runs = t.saw[i].runs + 1] ELSE definitions[i]]
          /\ overlapped' = overlapped \cup {i \in ran : definitions[i].runs # t.saw[i].runs}
  /\ UNCHANGED <<fired, written>>

\* The process stops between the commit of what happened and its trigger, or before
\* the commit of the runs: they are not made up for.
TriggerDies(w) ==
  /\ worker[w] # Off
  /\ worker' = [worker EXCEPT ![w] = Off] /\ context' = [context EXCEPT ![w] = Context("none")]
  /\ UNCHANGED <<definitions, state, effects, log, fired, written, overlapped>>

WorkflowsNext ==
  \/ CreateWorkflow \/ UpdateWorkflow \/ SeedWorkflows
  \/ \E w \in Workers : TriggerBegins(w) \/ StepRuns(w) \/ RunEnds(w) \/ TriggerEnds(w) \/ TriggerDies(w)

WorkflowsSpec == WorkflowsInit /\ [][WorkflowsNext]_workflowVars

----------------------------------------------------------------------------
WorkflowsTypeOK ==
  /\ state \in States /\ fired \in 0 .. MaxFired /\ written \in 0 .. MaxWritten
  /\ \A n \in DOMAIN log : log[n].of \in DOMAIN definitions

Runs(i) == {n \in DOMAIN log : log[n].of = i}

\* The count of a workflow is the number of its runs, unless two transactions ran it at
\* once: then it is less, and never more (run_definition, run_count).
CountsAreRuns ==
  \A i \in DOMAIN definitions :
    /\ definitions[i].runs <= Cardinality(Runs(i))
    /\ i \notin overlapped => definitions[i].runs = Cardinality(Runs(i))

\* A run met its condition on what its transaction found; it has a result for every
\* step, but for those after an error where the workflow stops; and what does not
\* apply to the event was not done ("a typo in a rule must not silently widen its
\* scope", "a ticket - put this AFTER an 'Open a ticket' step").
IsHonest(run) ==
  LET last == Len(run.results) IN
  /\ run.row.enabled /\ run.row.trigger = run.event
  /\ run.row.condition \in States => run.event \in WithFinding /\ run.row.condition = run.seen
  /\ \A k \in 1 .. (last - 1) : run.row.stop => run.results[k] # "error"
  /\ last < Len(run.row.steps) => run.row.stop /\ last > 0 /\ run.results[last] = "error"
  /\ \A k \in 1 .. last :
       run.row.steps[k] = "comment" /\ run.results[k] = "ok" =>
         run.event \in WithTicket \/ \E j \in 1 .. (k - 1) : run.row.steps[j] = "ticket" /\ run.results[j] = "ok"

RunsAreHonest == \A n \in DOMAIN log : IsHonest(log[n])

\* Every notice and comment is in the log of a committed run, and only once.
Made(runs, kind) ==
  {p \in (DOMAIN runs) \X (1 .. MaxSteps) :
     LET run == runs[p[1]] IN
     p[2] \in DOMAIN run.results /\ run.results[p[2]] = "ok" /\ run.row.steps[p[2]] = kind}

EffectsAreTraced == \A kind \in Traced : effects[kind] = Cardinality(Made(log, kind))

\* No slug names two workflows, whoever created, renamed or seeded them.
SlugsAreUnique == \A i, j \in DOMAIN definitions : definitions[i].slug = definitions[j].slug => i = j

WorkflowsAreHonest == CountsAreRuns /\ RunsAreHonest /\ EffectsAreTraced /\ SlugsAreUnique
=============================================================================
