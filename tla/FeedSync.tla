------------------------------ MODULE FeedSync ------------------------------
(***************************************************************************)
(* Intelligence: feed runs that fill the global corpus in several commits   *)
(* (intel/feeds, services/intelligence), and the walk over the tenants that *)
(* turns what they touched into findings and scores                          *)
(* (services/intel_pipeline).                                                *)
(*                                                                           *)
(* A run may fail, or its process die, between any two commits.  NVD is      *)
(* pulled by one process at a time, the oneshot unit; EPSS and KEV may run   *)
(* beside it, from an operator's shell or an upload.                         *)
(***************************************************************************)
EXTENDS Integers, FiniteSets, Sequences
LOCAL INSTANCE FiniteSetsExt

CONSTANTS
  Cves,
  Tenants,       \* active organizations, each with assets every CVE affects
  MaxRevision,   \* bound: revisions NVD publishes
  MaxDay,        \* bound: days EPSS scores
  MaxRuns,       \* bound: feed runs
  MaxStops,      \* bound: runs that fail or die
  MaxListed      \* bound: CVEs CISA lists

ASSUME FeedSyncAssumption ==
  Cves # {} /\ {MaxRevision, MaxDay, MaxRuns, MaxStops, MaxListed} \subseteq Nat

VARIABLES
  modified,    \* what NVD has of each CVE: the number of its last revision, 0 for none
  day,         \* the last day FIRST scored
  catalogue,   \* what CISA lists
  corpus,      \* the row of each CVE
  runs,        \* feed_runs, in the order they were started
  job,         \* the process of each feed
  finding,     \* what the finding of each tenant and CVE was computed from
  interrupted, \* <<feed, CVE>> a walk did not get to, and no later walk did
  stops        \* runs that failed or died

feedVars == <<modified, day, catalogue, corpus, runs, job, finding, interrupted, stops>>

Feeds == {"nvd", "epss", "kev"}
RunStates == {"running", "succeeded", "failed"}
FeedRun == [feed : Feeds, watermark : Nat, status : RunStates]

\* known: the row exists, as a stub where revision is 0.
Cve == [known : BOOLEAN, revision : Nat, score : Nat, kev : BOOLEAN, refused : Nat]
NoCve == [known |-> FALSE, revision |-> 0, score |-> 0, kev |-> FALSE, refused |-> 0]

Job == [step : {"idle", "pulling", "telling"}, run : Nat, end : Nat,
        todo : SUBSET Cves, touched : SUBSET Cves, tenants : SUBSET Tenants]
NoJob == [step |-> "idle", run |-> 0, end |-> 0, todo |-> {}, touched |-> {}, tenants |-> {}]

Shown == [revision : Nat, score : Nat, kev : BOOLEAN]
NoFinding == [revision |-> 0, score |-> 0, kev |-> FALSE]
Current(c) ==
  [revision |-> corpus[c].revision, score |-> corpus[c].score, kev |-> corpus[c].kev]

Revisions == Max({modified[c] : c \in Cves})

\* The watermark of last_successful_run; a failed run is none.
Bug_Watermark ==
  LET nvd == {i \in DOMAIN runs : runs[i].feed = "nvd" /\ runs[i].status # "running"}
  IN  IF nvd = {} THEN 0 ELSE runs[Max(nvd)].watermark

Watermark ==
  LET nvd == {i \in DOMAIN runs : runs[i].feed = "nvd" /\ runs[i].status = "succeeded"}
  IN  IF nvd = {} THEN 0 ELSE runs[Max(nvd)].watermark

-----------------------------------------------------------------------------
(* A run. *)

Begin(f, watermark, end, todo) ==
  /\ job[f].step = "idle" /\ Len(runs) < MaxRuns
  /\ runs' = Append(runs, [feed |-> f, watermark |-> watermark, status |-> "running"])
  /\ job' = [job EXCEPT ![f] = [step |-> "pulling", run |-> Len(runs) + 1, end |-> end,
                                 todo |-> todo, touched |-> {}, tenants |-> {}]]
  /\ UNCHANGED <<modified, day, catalogue, corpus, finding, interrupted, stops>>

\* nvd_window, whose end is the run's watermark.  The boundary is asked for again.
NvdWindow ==
  Begin("nvd", Revisions, Revisions,
        {c \in Cves : modified[c] # 0 /\ modified[c] >= Watermark})

\* A record that is revised meanwhile has left the window: the next one has it.
PullCommit(c, cve) ==
  /\ corpus' = [corpus EXCEPT ![c] = cve]
  /\ UNCHANGED <<modified, day, catalogue, runs, finding, interrupted, stops>>

Touched(f, c) == job' = [job EXCEPT ![f].todo = @ \ {c}, ![f].touched = @ \cup {c}]
Passed(f, c)  == job' = [job EXCEPT ![f].todo = @ \ {c}]

\* upsert_cve, in a page of its own.
UpsertCve(c) ==
  /\ job["nvd"].step = "pulling" /\ c \in job["nvd"].todo
  /\ modified[c] <= job["nvd"].end
  /\ Touched("nvd", c)
  /\ PullCommit(c, [corpus[c] EXCEPT !.known = TRUE, !.revision = modified[c]])

\* The savepoint of a record the database refuses, which the run names.
RejectCve(c) ==
  /\ job["nvd"].step = "pulling" /\ c \in job["nvd"].todo
  /\ modified[c] <= job["nvd"].end
  /\ Passed("nvd", c)
  /\ PullCommit(c, [corpus[c] EXCEPT !.refused = modified[c]])

LeftWindow(c) ==
  /\ job["nvd"].step = "pulling" /\ c \in job["nvd"].todo
  /\ modified[c] > job["nvd"].end
  /\ Passed("nvd", c)
  /\ PullCommit(c, corpus[c])

\* sync_epss: the day's file, in batches; a CVE that is not known is skipped.
SyncEpss == day > 0 /\ Begin("epss", day, day, Cves)

ScoreBatch(c) ==
  /\ job["epss"].step = "pulling" /\ c \in job["epss"].todo
  /\ IF corpus[c].known
     THEN Touched("epss", c) /\ PullCommit(c, [corpus[c] EXCEPT !.score = job["epss"].end])
     ELSE Passed("epss", c) /\ PullCommit(c, corpus[c])

\* ingest_kev, one transaction with a stub for every CVE that is not known.
SyncKev ==
  /\ catalogue # {} /\ job["kev"].step = "idle" /\ Len(runs) < MaxRuns
  /\ runs' = Append(runs, [feed |-> "kev", watermark |-> 0, status |-> "succeeded"])
  /\ corpus' = [c \in Cves |-> IF c \in catalogue
                               THEN [corpus[c] EXCEPT !.known = TRUE, !.kev = TRUE]
                               ELSE corpus[c]]
  /\ job' = [job EXCEPT !["kev"] = [step |-> "telling", run |-> Len(runs) + 1, end |-> 0,
                                     todo |-> {}, touched |-> catalogue, tenants |-> Tenants]]
  /\ UNCHANGED <<modified, day, catalogue, finding, interrupted, stops>>

\* feed_run closes, and refresh_after_feed begins.
FeedRunEnds(f) ==
  /\ job[f].step = "pulling" /\ job[f].todo = {}
  /\ runs' = [runs EXCEPT ![job[f].run].status = "succeeded"]
  /\ job' = [job EXCEPT ![f].step = "telling", ![f].tenants = Tenants]
  /\ UNCHANGED <<modified, day, catalogue, corpus, finding, interrupted, stops>>

\* What a run that does not finish leaves for the next one of its feed.
Interrupt(f) ==
  /\ job' = [job EXCEPT ![f] = NoJob]
  /\ interrupted' = IF f = "nvd" /\ job[f].step = "pulling" THEN interrupted
                    ELSE interrupted \cup ({f} \X job[f].touched)
  /\ stops < MaxStops /\ stops' = stops + 1
  /\ UNCHANGED <<modified, day, catalogue, corpus, finding>>

\* The failure is recorded in a word of its own.
Bug_FailRun(f) ==
  /\ job[f].step = "pulling"
  /\ runs' = [runs EXCEPT ![job[f].run].status = "interrupted"]
  /\ Interrupt(f)

\* The network fails: sync_nvd commits the failure; sync_epss rolls back its mark.
FailRun(f) ==
  /\ job[f].step = "pulling"
  /\ runs' = IF f = "nvd" THEN [runs EXCEPT ![job[f].run].status = "failed"] ELSE runs
  /\ Interrupt(f)

\* The process dies, or the walk over the tenants raises.
Die(f) ==
  /\ job[f].step # "idle"
  /\ UNCHANGED runs
  /\ Interrupt(f)

-----------------------------------------------------------------------------
(* refresh_after_feed. *)

\* correlate_new_cves, committed tenant by tenant.
CorrelateNewCves(o) ==
  /\ job["nvd"].step = "telling" /\ o \in job["nvd"].tenants
  /\ finding' = [finding EXCEPT ![o] = [c \in Cves |->
       IF c \in job["nvd"].touched THEN Current(c) ELSE finding[o][c]]]
  /\ job' = [job EXCEPT !["nvd"].tenants = @ \ {o}]
  /\ UNCHANGED <<modified, day, catalogue, corpus, runs, interrupted, stops>>

\* input_from_rows: the score a finding has is kept, the flag is the CVE's as well.
Rescored(shown, cve) ==
  [shown EXCEPT !.score = IF @ # 0 THEN @ ELSE cve.score, !.kev = @ \/ cve.kev]

\* rescore_for_cves: the findings there are, not new ones.
RescoreForCves(f, o) ==
  /\ f # "nvd" /\ job[f].step = "telling" /\ o \in job[f].tenants
  /\ finding' = [finding EXCEPT ![o] = [c \in Cves |->
       IF c \in job[f].touched /\ finding[o][c].revision # 0
       THEN Rescored(finding[o][c], corpus[c]) ELSE finding[o][c]]]
  /\ job' = [job EXCEPT ![f].tenants = @ \ {o}]
  /\ UNCHANGED <<modified, day, catalogue, corpus, runs, interrupted, stops>>

WalkDone(f) ==
  /\ job[f].step = "telling" /\ job[f].tenants = {}
  /\ interrupted' = interrupted \ ({f} \X job[f].touched)
  /\ job' = [job EXCEPT ![f] = NoJob]
  /\ UNCHANGED <<modified, day, catalogue, corpus, runs, finding, stops>>

-----------------------------------------------------------------------------
(* The sources. *)

Revise(c) ==
  /\ Revisions < MaxRevision
  /\ modified' = [modified EXCEPT ![c] = Revisions + 1]
  /\ UNCHANGED <<day, catalogue, corpus, runs, job, finding, interrupted, stops>>

ScoreDay ==
  /\ day < MaxDay
  /\ day' = day + 1
  /\ UNCHANGED <<modified, catalogue, corpus, runs, job, finding, interrupted, stops>>

ListExploited(c) ==
  /\ c \notin catalogue /\ Cardinality(catalogue) < MaxListed
  /\ catalogue' = catalogue \cup {c}
  /\ UNCHANGED <<modified, day, corpus, runs, job, finding, interrupted, stops>>

FeedInit ==
  /\ modified = [c \in Cves |-> 0] /\ day = 0 /\ catalogue = {}
  /\ corpus = [c \in Cves |-> NoCve] /\ runs = <<>>
  /\ job = [f \in Feeds |-> NoJob]
  /\ finding = [o \in Tenants |-> [c \in Cves |-> NoFinding]]
  /\ interrupted = {} /\ stops = 0

FeedNext ==
  \/ NvdWindow \/ SyncEpss \/ SyncKev \/ ScoreDay
  \/ \E c \in Cves : UpsertCve(c) \/ RejectCve(c) \/ LeftWindow(c) \/ ScoreBatch(c)
                     \/ Revise(c) \/ ListExploited(c)
  \/ \E f \in Feeds : FeedRunEnds(f) \/ FailRun(f) \/ Die(f) \/ WalkDone(f)
                      \/ \E o \in Tenants : RescoreForCves(f, o)
  \/ \E o \in Tenants : CorrelateNewCves(o)

FeedSpec == FeedInit /\ [][FeedNext]_feedVars

-----------------------------------------------------------------------------
FeedTypeOK ==
  /\ modified \in [Cves -> Nat] /\ day \in Nat /\ catalogue \subseteq Cves
  /\ corpus \in [Cves -> Cve] /\ runs \in Seq(FeedRun)
  /\ job \in [Feeds -> Job]
  /\ finding \in [Tenants -> [Cves -> Shown]]
  /\ interrupted \subseteq Feeds \X Cves

\* Runs that fail, that die and stay "running", records refused and records revised
\* during the pull: what NVD revised up to the watermark is in the corpus, unless
\* the database refused it (nvd_window, "losing a record that changed inside it").
NoRevisionMissed ==
  \A c \in Cves :
     modified[c] # 0 /\ modified[c] <= Watermark
     => corpus[c].revision = modified[c] \/ corpus[c].refused = modified[c]

\* A tenant that has not been told of what the corpus knows is about to be told,
\* by the run that is under way or because the next one pulls it again; or the
\* walk of the feed was interrupted after its run had succeeded; or the database
\* refused the revision, or one after it, on another attempt.  A finding that has
\* a score keeps it until NVD revises the CVE: only the first one must arrive.
UntoldIsExplained ==
  \A o \in Tenants, c \in Cves :
     LET Pending(f) == \/ c \in job[f].touched /\ (job[f].step = "pulling" \/ o \in job[f].tenants)
                       \/ <<f, c>> \in interrupted
         shown == finding[o][c]
     IN  /\ shown.revision # corpus[c].revision
              => \/ Pending("nvd") \/ corpus[c].refused >= corpus[c].revision
                 \/ corpus[c].revision >= Watermark \/ modified[c] > Watermark
         /\ shown.revision # 0 /\ shown.score = 0 /\ corpus[c].score # 0 => Pending("epss") \/ Pending("nvd")
         /\ shown.revision # 0 /\ shown.kev # corpus[c].kev => Pending("kev") \/ Pending("nvd")

\* Whatever order the feeds run in, a CVE stays flagged as exploited and scored
\* once it was: NVD fills the stub KEV made and takes nothing away (ingest_kev,
\* "the one failure mode this feed cannot have").
UrgencyIsKept ==
  \A c \in Cves : /\ corpus[c].kev => corpus'[c].kev
                  /\ corpus[c].score # 0 => corpus'[c].score # 0

\* What the three feeds and their order owe the corpus and the tenants
\* (services/intelligence.py, services/intel_pipeline.py).
IntelligenceIsKept ==
  [][(NoRevisionMissed /\ UntoldIsExplained)' /\ UrgencyIsKept]_feedVars

-----------------------------------------------------------------------------
(* What the documents say and the code does otherwise. *)

\* "Re-score open findings whose CVE just changed urgency.  Used by EPSS and KEV."
\* (services/intel_pipeline.rescore_for_cves): when no feed is at work and none was
\* interrupted, a finding is scored with what FIRST and CISA say of its CVE.
UrgencyIsTold ==
  (interrupted = {} /\ \A f \in Feeds : job[f].step = "idle")
  => \A o \in Tenants, c \in Cves :
       finding[o][c].revision # 0
       => finding[o][c].score = corpus[c].score /\ finding[o][c].kev = corpus[c].kev
=============================================================================
