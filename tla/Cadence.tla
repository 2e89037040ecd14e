------------------------------- MODULE Cadence -------------------------------
(***************************************************************************)
(* How often each intelligence feed is fetched (services/intel_schedule,     *)
(* scripts/sync-intel.sh, the timer that starts it).                          *)
(*                                                                           *)
(* The corpus is shared: a feed is fetched at the smallest interval that any *)
(* active organization asks for.  The timer asks which feeds are due and     *)
(* fetches those one after another; while they run it is not asked again.    *)
(* Time passes in hours, and only after the timer of the hour has fired.     *)
(***************************************************************************)
EXTENDS Integers, Sequences, FiniteSets
LOCAL INSTANCE FiniteSetsExt

CONSTANTS
  Organizations,
  FeedOrder,        \* the feeds, in the order sync-intel.sh fetches them
  Intervals,        \* the intervals somebody asks for, in hours
  DefaultInterval,  \* 24
  LongestInterval,  \* MAX_INTERVAL_MINUTES, 720 hours
  TimerHours,       \* hours between two starts of the timer
  MaxRunHours,      \* bound: hours one feed takes
  MaxChanges        \* bound: changes of the schedule

ScheduledFeeds == {FeedOrder[i] : i \in DOMAIN FeedOrder}

ASSUME CadenceAssumption ==
  /\ FeedOrder \in Seq(ScheduledFeeds) /\ \A i, j \in DOMAIN FeedOrder : FeedOrder[i] = FeedOrder[j] => i = j
  /\ LongestInterval \in Nat /\ Intervals \cup {DefaultInterval} \subseteq 1 .. LongestInterval
  /\ TimerHours \in Nat \ {0} /\ MaxRunHours \in Nat /\ MaxChanges \in Nat

VARIABLES
  wanted,    \* the interval of each organization and feed, 0 where it is switched off
  active,    \* the active organizations
  age,       \* hours since the last run of each feed that succeeded
  attempt,   \* hours since the last run of each feed
  due,       \* the places of the feeds that were due and are not done; the first one runs
  ran,       \* hours it has been running
  toTimer,   \* hours until the timer starts
  changes,
  restless   \* history: feeds whose schedule changed since their last success

cadenceVars == <<wanted, active, age, attempt, due, ran, toTimer, changes, restless>>

\* A feed waits for the end of the fetches under way, for the hourly timer, and
\* for the fetches before it.
Slack == TimerHours + Len(FeedOrder) * MaxRunHours + Len(FeedOrder) * MaxRunHours
OldestAge == LongestInterval + Slack + 1

CadenceInit ==
  /\ wanted = [o \in Organizations |-> [f \in ScheduledFeeds |-> DefaultInterval]]
  /\ active = Organizations
  /\ age = [f \in ScheduledFeeds |-> OldestAge]
  /\ attempt = [f \in ScheduledFeeds |-> Slack + 1]
  /\ due = {} /\ ran = 0 /\ toTimer = 0
  /\ changes = 0 /\ restless = ScheduledFeeds

Demand(f) == {wanted[o][f] : o \in active} \ {0}

\* effective_schedule: the tightest demand; a deployment with no tenant refreshes.
EffectiveInterval(f) == IF Demand(f) = {} THEN DefaultInterval ELSE Min(Demand(f))
EffectiveEnabled(f)  == Demand(f) # {} \/ active = {}

\* The last run, whatever came of it.
Bug_SinceLastRun(f) == IF attempt[f] < age[f] THEN attempt[f] ELSE age[f]

\* last_run: the last one that succeeded.
SinceLastRun(f) == age[f]

Due(f) == EffectiveEnabled(f) /\ SinceLastRun(f) >= EffectiveInterval(f)

\* The timer starts the service, which asks once.
Tick ==
  /\ toTimer = 0 /\ due = {}
  /\ due' = {i \in DOMAIN FeedOrder : Due(FeedOrder[i])}
  /\ toTimer' = TimerHours /\ ran' = 0
  /\ UNCHANGED <<wanted, active, age, attempt, changes, restless>>

\* The service is still active: the timer starts nothing.
TickMissed ==
  /\ toTimer = 0 /\ due # {}
  /\ toTimer' = TimerHours
  /\ UNCHANGED <<wanted, active, age, attempt, due, ran, changes, restless>>

\* One feed failing does not stop the others.
Fetched(ok) ==
  LET f == FeedOrder[Min(due)] IN
  /\ due # {}
  /\ attempt' = [attempt EXCEPT ![f] = 0]
  /\ age' = IF ok THEN [age EXCEPT ![f] = 0] ELSE age
  /\ restless' = IF ok THEN restless \ {f} ELSE restless
  /\ due' = due \ {Min(due)} /\ ran' = 0
  /\ UNCHANGED <<wanted, active, toTimer, changes>>

Older(n, most) == IF n < most THEN n + 1 ELSE n

HourPasses ==
  /\ toTimer > 0
  /\ due # {} => ran < MaxRunHours
  /\ toTimer' = toTimer - 1
  /\ age' = [f \in ScheduledFeeds |-> Older(age[f], OldestAge)]
  /\ attempt' = [f \in ScheduledFeeds |-> Older(attempt[f], Slack + 1)]
  /\ ran' = IF due = {} THEN 0 ELSE ran + 1
  /\ UNCHANGED <<wanted, active, due, changes, restless>>

\* set_schedule, for a feed; an interval out of bounds is refused.
AskFor(o, f, hours) ==
  /\ changes < MaxChanges /\ changes' = changes + 1
  /\ wanted' = [wanted EXCEPT ![o][f] = hours] /\ wanted' # wanted
  /\ restless' = restless \cup {f}
  /\ UNCHANGED <<active, age, attempt, due, ran, toTimer>>

SetActive(o) ==
  /\ changes < MaxChanges /\ changes' = changes + 1
  /\ active' = IF o \in active THEN active \ {o} ELSE active \cup {o}
  /\ restless' = ScheduledFeeds
  /\ UNCHANGED <<wanted, age, attempt, due, ran, toTimer>>

CadenceNext ==
  \/ Tick \/ TickMissed \/ HourPasses
  \/ \E ok \in BOOLEAN : Fetched(ok)
  \/ \E o \in Organizations : \/ SetActive(o)
                              \/ \E f \in ScheduledFeeds, h \in Intervals \cup {0} : AskFor(o, f, h)

CadenceSpec == CadenceInit /\ [][CadenceNext]_cadenceVars

-----------------------------------------------------------------------------
CadenceTypeOK ==
  /\ wanted \in [Organizations -> [ScheduledFeeds -> Intervals \cup {0, DefaultInterval}]]
  /\ active \subseteq Organizations
  /\ age \in [ScheduledFeeds -> 0 .. OldestAge] /\ attempt \in [ScheduledFeeds -> 0 .. Slack + 1]
  /\ due \subseteq DOMAIN FeedOrder /\ ran \in 0 .. MaxRunHours
  /\ toTimer \in 0 .. TimerHours /\ changes \in 0 .. MaxChanges /\ restless \subseteq ScheduledFeeds

\* "The only option where nobody gets less than they configured": no organization
\* that has the feed on waits longer than its own interval and what an hourly tick
\* and the other fetches take, unless the fetch was tried a moment ago and failed;
\* a failure makes nobody wait a whole interval again.
NobodyGetsLess ==
  \A o \in active, f \in ScheduledFeeds \ restless :
     wanted[o][f] # 0
     => age[f] <= wanted[o][f] + Slack \/ attempt[f] <= Slack
=============================================================================
