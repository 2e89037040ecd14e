--------------------------- MODULE PlatformProofs ---------------------------
(***************************************************************************)
(* Theorems of FeedSync, for every set of CVEs and of tenants and however   *)
(* many runs fail or die; and of OrgSettings, for every set of requests.    *)
(***************************************************************************)
EXTENDS FeedSync, OrgSettings, SequenceTheorems, TLAPS
LOCAL INSTANCE FiniteSetsExt

(***************************************************************************)
(* The feeds.                                                              *)
(***************************************************************************)

\* The runs whose watermark counts.
Done(rs) == {i \in DOMAIN rs : rs[i].feed = "nvd" /\ rs[i].status = "succeeded"}

\* What a pull makes of its job when it writes a CVE.
LEMMA TouchedJob ==
  ASSUME job \in [Feeds -> Job], NEW f \in Feeds, NEW c \in Cves, Touched(f, c)
  PROVE  /\ job' \in [Feeds -> Job]
         /\ job'[f] = [step |-> job[f].step, run |-> job[f].run, end |-> job[f].end,
                       todo |-> job[f].todo \ {c}, touched |-> job[f].touched \cup {c}, tenants |-> job[f].tenants]
         /\ \A g \in Feeds \ {f} : job'[g] = job[g]
BY DEF Touched, Job

\* What a pull makes of its job when it passes a CVE over.
LEMMA PassedJob ==
  ASSUME job \in [Feeds -> Job], NEW f \in Feeds, NEW c \in Cves, Passed(f, c)
  PROVE  /\ job' \in [Feeds -> Job]
         /\ job'[f] = [step |-> job[f].step, run |-> job[f].run, end |-> job[f].end,
                       todo |-> job[f].todo \ {c}, touched |-> job[f].touched, tenants |-> job[f].tenants]
         /\ \A g \in Feeds \ {f} : job'[g] = job[g]
BY DEF Passed, Job

\* A run that begins: its job, and its row at the end of the rows.
LEMMA BegunJob ==
  ASSUME job \in [Feeds -> Job], runs \in Seq(FeedRun), NEW f \in Feeds, NEW w \in Nat, NEW end \in Nat, NEW todo \in SUBSET Cves, Begin(f, w, end, todo)
  PROVE  /\ job' \in [Feeds -> Job]
         /\ job'[f] = [step |-> "pulling", run |-> Len(runs) + 1, end |-> end, todo |-> todo, touched |-> {}, tenants |-> {}]
         /\ \A g \in Feeds \ {f} : job'[g] = job[g]
         /\ runs' \in Seq(FeedRun) /\ DOMAIN runs' = 1 .. Len(runs) + 1
         /\ runs'[Len(runs) + 1] = [feed |-> f, watermark |-> w, status |-> "running"]
         /\ \A i \in DOMAIN runs : runs'[i] = runs[i]
<1>1. Len(runs) \in Nat /\ DOMAIN runs = 1 .. Len(runs)
  OBVIOUS
<1> DEFINE row == [feed |-> f, watermark |-> w, status |-> "running"]
<1>2. row \in FeedRun
  BY DEF FeedRun, RunStates
<1>3. runs' = Append(runs, row)
  BY DEF Begin
<1> HIDE DEF row
<1>4. /\ runs' \in Seq(FeedRun) /\ Len(runs') = Len(runs) + 1
      /\ runs'[Len(runs) + 1] = row /\ \A i \in DOMAIN runs : runs'[i] = runs[i]
  BY <1>1, <1>2, <1>3, AppendProperties
<1>5. DOMAIN runs' = 1 .. Len(runs) + 1
  BY <1>4
<1> DEFINE new == [step |-> "pulling", run |-> Len(runs) + 1, end |-> end, todo |-> todo, touched |-> {}, tenants |-> {}]
<1>6. job' = [job EXCEPT ![f] = new]
  BY DEF Begin
<1>8. new \in Job
  BY <1>1 DEF Job
<1> HIDE DEF new
<1>9. job'[f] = new /\ job' \in [Feeds -> Job] /\ \A g \in Feeds \ {f} : job'[g] = job[g]
  BY <1>6, <1>8
<1> QED BY <1>4, <1>5, <1>9 DEF row, new

\* A row that is closed.
LEMMA MarkedRun ==
  ASSUME runs \in Seq(FeedRun), NEW k \in DOMAIN runs, NEW st \in RunStates, runs' = [runs EXCEPT ![k].status = st]
  PROVE  /\ runs' \in Seq(FeedRun) /\ DOMAIN runs' = DOMAIN runs
         /\ runs'[k] = [feed |-> runs[k].feed, watermark |-> runs[k].watermark, status |-> st]
         /\ \A i \in DOMAIN runs \ {k} : runs'[i] = runs[i]
<1>1. Len(runs) \in Nat /\ DOMAIN runs = 1 .. Len(runs) /\ runs[k] \in FeedRun
  OBVIOUS
<1> DEFINE row == [runs[k] EXCEPT !.status = st]
<1>2. row = [feed |-> runs[k].feed, watermark |-> runs[k].watermark, status |-> st] /\ row \in FeedRun
  BY <1>1 DEF FeedRun
<1>3. runs' = [runs EXCEPT ![k] = row]
  OBVIOUS
<1> HIDE DEF row
<1>4. runs'[k] = row /\ DOMAIN runs' = DOMAIN runs /\ \A i \in DOMAIN runs \ {k} : runs'[i] = runs[i]
  BY <1>3
<1>5. runs' \in Seq(FeedRun)
  <2>1. k \in 1 .. Len(runs)
    BY <1>1
  <2>2. [runs EXCEPT ![k] = row] \in Seq(FeedRun)
    BY <1>2, <2>1, ExceptSeq
  <2> QED BY <1>3, <2>2
<1> QED BY <1>2, <1>4, <1>5

-----------------------------------------------------------------------------
\* Somebody of the tenant o is about to be told of the CVE.
Awaited(f, o, c) ==
  \/ c \in job[f].touched /\ (job[f].step = "pulling" \/ o \in job[f].tenants)
  \/ <<f, c>> \in interrupted

\* What the tenant shows is not what the feed has brought.
Stale(f, o, c) ==
  LET shown == finding[o][c]
  IN  \/ f = "nvd" /\ shown.revision # corpus[c].revision
      \/ f = "epss" /\ shown.revision # 0 /\ shown.score = 0 /\ corpus[c].score # 0
      \/ f = "kev" /\ shown.revision # 0 /\ shown.kev # corpus[c].kev

\* The feed has a run that is not closed.
Pulling(f) == job[f].step = "pulling"

\* Nothing is ahead of where it comes from.
Behind ==
  /\ \E c \in Cves : \A d \in Cves : modified[d] <= modified[c]
  /\ \A c \in Cves : corpus[c].revision <= modified[c]
  /\ \A o \in Tenants, c \in Cves :
       finding[o][c].revision <= corpus[c].revision /\ (finding[o][c].kev => corpus[c].kev)

\* A pull has its row, and the one of NVD is the last of its feed.
Rows ==
  /\ \A f \in Feeds : /\ job[f].step = "idle" => job[f] = NoJob
                      /\ Pulling(f) => f # "kev" /\ job[f].run \in DOMAIN runs /\ runs[job[f].run].feed = f
  /\ Pulling("nvd") => /\ runs[job["nvd"].run].watermark = job["nvd"].end
                       /\ runs[job["nvd"].run].status = "running"
                       /\ \A i \in Done(runs) : i < job["nvd"].run
  /\ Pulling("epss") => job["epss"].end > 0
  /\ Done(runs) = {} \/ \E i \in Done(runs) : \A j \in Done(runs) : j <= i

\* The watermark, the end of the pull and what NVD has come in this order.
Marks ==
  /\ Watermark <= Revisions
  /\ Pulling("nvd") => Watermark <= job["nvd"].end /\ job["nvd"].end <= Revisions

\* What a pull of NVD will have done at its end.
Pulled ==
  LET j == job["nvd"]
  IN  Pulling("nvd") =>
        /\ \A c \in Cves : modified[c] # 0 /\ modified[c] <= j.end
             => c \in j.todo \/ corpus[c].revision = modified[c] \/ corpus[c].refused = modified[c]
        /\ \A c \in j.todo : modified[c] >= Watermark
        /\ \A c \in j.touched : corpus[c].revision >= Watermark
        /\ \A o \in Tenants, c \in Cves : Stale("nvd", o, c)
             => \/ c \in j.todo \/ Awaited("nvd", o, c) \/ corpus[c].refused >= corpus[c].revision
                \/ corpus[c].revision >= j.end \/ modified[c] > j.end

\* What EPSS and KEV brought is shown or awaited, and a tenant the walk has passed is
\* not behind its feed.
Told ==
  \A f \in Feeds, o \in Tenants, c \in Cves :
    /\ job[f].step = "telling" /\ c \in job[f].touched /\ o \notin job[f].tenants => ~Stale(f, o, c)
    /\ f # "nvd" /\ Stale(f, o, c) => Awaited(f, o, c)

\* A revision that is not shown is awaited, was refused, or will be pulled again.
NvdTold ==
  \A o \in Tenants, c \in Cves : Stale("nvd", o, c)
    => \/ Awaited("nvd", o, c) \/ corpus[c].refused >= corpus[c].revision
       \/ corpus[c].revision >= Watermark \/ modified[c] > Watermark

\* The inductive invariant.
FeedInv ==
  /\ FeedTypeOK /\ Behind /\ Rows /\ Marks
  /\ NoRevisionMissed /\ Pulled /\ Told /\ NvdTold

-----------------------------------------------------------------------------
\* The greatest element of a set, named.
LEMMA TopIsMax ==
  ASSUME NEW S, S \subseteq Nat, NEW x \in S, \A y \in S : y <= x
  PROVE  Max(S) = x
<1> DEFINE P(m) == m \in S /\ \A y \in S : m >= y
<1>1. P(x)
  OBVIOUS
<1>2. Max(S) = CHOOSE m : P(m)
  BY Zenon DEF Max
<1>3. P(CHOOSE m : P(m))
  <2> HIDE DEF P
  <2> QED BY <1>1, Zenon
<1>4. \A m : P(m) => m = x
  OBVIOUS
<1> HIDE DEF P
<1> QED BY <1>2, <1>3, <1>4, Zenon

\* The last revision is that of some CVE.
LEMMA RevisionsTop ==
  ASSUME modified \in [Cves -> Nat], NEW c \in Cves, \A d \in Cves : modified[d] <= modified[c]
  PROVE  Revisions = modified[c]
<1>1. {modified[d] : d \in Cves} \subseteq Nat /\ modified[c] \in {modified[d] : d \in Cves}
  OBVIOUS
<1>2. \A y \in {modified[d] : d \in Cves} : y <= modified[c]
  OBVIOUS
<1> QED BY <1>1, <1>2, TopIsMax DEF Revisions

\* No CVE is ahead of the last revision.
LEMMA RevisionsFacts ==
  ASSUME FeedTypeOK, Behind
  PROVE  Revisions \in Nat /\ \A d \in Cves : modified[d] <= Revisions
<1>1. PICK c \in Cves : \A d \in Cves : modified[d] <= modified[c]
  BY DEF Behind
<1>2. modified \in [Cves -> Nat]
  BY DEF FeedTypeOK
<1>3. Revisions = modified[c]
  BY <1>1, <1>2, RevisionsTop
<1> QED BY <1>1, <1>2, <1>3

\* The last run that succeeded, named.
LEMMA DoneTop ==
  ASSUME NEW rs \in Seq(FeedRun), NEW i \in Done(rs), \A j \in Done(rs) : j <= i
  PROVE  Max(Done(rs)) = i
<1>1. Done(rs) \subseteq Nat
  BY DEF Done
<1> QED BY <1>1, TopIsMax

\* The watermark is that of the last run that succeeded.
LEMMA WatermarkIs ==
  ASSUME runs \in Seq(FeedRun), NEW i \in Done(runs), \A j \in Done(runs) : j <= i
  PROVE  Watermark = runs[i].watermark
<1>1. Max(Done(runs)) = i
  BY DoneTop
<1>2. Watermark = IF Done(runs) = {} THEN 0 ELSE runs[Max(Done(runs))].watermark
  BY DEF Watermark, Done
<1> QED BY <1>1, <1>2

\* Before the first run everything is asked for.
LEMMA NoWatermark == ASSUME Done(runs) = {} PROVE Watermark = 0
BY DEF Watermark, Done

\* The watermark is a number.
LEMMA WatermarkType ==
  ASSUME FeedTypeOK, Rows
  PROVE  Watermark \in Nat
<1>1. runs \in Seq(FeedRun)
  BY DEF FeedTypeOK
<1>2. CASE Done(runs) = {}
  BY <1>2, NoWatermark
<1>3. CASE Done(runs) # {}
  <2>1. PICK i \in Done(runs) : \A j \in Done(runs) : j <= i
    BY <1>3 DEF Rows
  <2>2. i \in DOMAIN runs
    BY DEF Done
  <2>3. runs[i] \in FeedRun
    BY <1>1, <2>2
  <2> QED BY <1>1, <2>1, <2>3, WatermarkIs DEF FeedRun
<1> QED BY <1>2, <1>3

\* The same runs have succeeded.
LEMMA SameWatermark ==
  ASSUME FeedTypeOK, Rows, runs' \in Seq(FeedRun), Done(runs') = Done(runs),
         \A i \in Done(runs) : runs'[i].watermark = runs[i].watermark
  PROVE  Watermark' = Watermark
<1>1. runs \in Seq(FeedRun)
  BY DEF FeedTypeOK
<1>2. CASE Done(runs) = {}
  <2>1. Watermark' = 0
    BY <1>2 DEF Watermark, Done
  <2> QED BY <1>2, <2>1, NoWatermark
<1>3. CASE Done(runs) # {}
  <2>1. PICK i \in Done(runs) : \A j \in Done(runs) : j <= i
    BY <1>3 DEF Rows
  <2>2. Max(Done(runs)) = i
    BY <1>1, <2>1, DoneTop
  <2>3. Watermark' = IF Done(runs') = {} THEN 0 ELSE runs'[Max(Done(runs'))].watermark
    BY DEF Watermark, Done
  <2> QED BY <1>1, <1>3, <2>1, <2>2, <2>3, WatermarkIs
<1> QED BY <1>2, <1>3

-----------------------------------------------------------------------------
(* A page of NVD. *)

\* One record is written, refused or passed over.
LEMMA PullKeeps ==
  ASSUME FeedInv, NEW c \in Cves, NEW row \in Cve, Pulling("nvd"), c \in job["nvd"].todo, PullCommit(c, row),
         row.score = corpus[c].score, row.kev = corpus[c].kev,
         \/ /\ Touched("nvd", c) /\ modified[c] <= job["nvd"].end
            /\ row.revision = modified[c] /\ row.refused = corpus[c].refused
         \/ /\ Passed("nvd", c) /\ modified[c] <= job["nvd"].end
            /\ row.revision = corpus[c].revision /\ row.refused = modified[c]
         \/ /\ Passed("nvd", c) /\ modified[c] > job["nvd"].end
            /\ row.revision = corpus[c].revision /\ row.refused = corpus[c].refused
  PROVE  FeedInv'
<1> DEFINE j == job["nvd"]
<1>1. /\ UNCHANGED <<modified, day, catalogue, runs, finding, interrupted, stops>>
      /\ Watermark' = Watermark /\ Revisions' = Revisions
  BY DEF PullCommit, Watermark, Revisions
<1>2. /\ job \in [Feeds -> Job] /\ "nvd" \in Feeds /\ corpus \in [Cves -> Cve] /\ modified \in [Cves -> Nat]
      /\ corpus[c] \in Cve /\ modified[c] \in Nat /\ j \in Job
  BY DEF FeedInv, FeedTypeOK, Feeds
<1>3. PICK t \in SUBSET Cves :
        /\ job' \in [Feeds -> Job]
        /\ job'["nvd"] = [step |-> j.step, run |-> j.run, end |-> j.end,
                          todo |-> j.todo \ {c}, touched |-> t, tenants |-> j.tenants]
        /\ \A g \in Feeds \ {"nvd"} : job'[g] = job[g]
        /\ \/ /\ t = j.touched \cup {c} /\ modified[c] <= j.end
              /\ row.revision = modified[c] /\ row.refused = corpus[c].refused
           \/ /\ t = j.touched /\ modified[c] <= j.end
              /\ row.revision = corpus[c].revision /\ row.refused = modified[c]
           \/ /\ t = j.touched /\ modified[c] > j.end
              /\ row.revision = corpus[c].revision /\ row.refused = corpus[c].refused
  <2>1. j.touched \in SUBSET Cves
    BY <1>2 DEF Job
  <2>2. CASE Touched("nvd", c)
    BY <1>2, <2>1, <2>2, TouchedJob, PassedJob
  <2>3. CASE Passed("nvd", c) /\ ~Touched("nvd", c)
    BY <1>2, <2>1, <2>3, PassedJob
  <2> QED BY <2>2, <2>3
<1>4. /\ corpus' \in [Cves -> Cve] /\ corpus'[c] = row /\ \A d \in Cves \ {c} : corpus'[d] = corpus[d]
  BY <1>2 DEF PullCommit
<1>5. /\ j'.step = "pulling" /\ j'.run = j.run /\ j'.end = j.end /\ j'.todo = j.todo \ {c} /\ j'.touched = t
      /\ j'.tenants = j.tenants
  BY <1>3 DEF Pulling
<1>6. FeedTypeOK'
  BY <1>1, <1>3, <1>4 DEF FeedInv, FeedTypeOK
<1>7. Behind'
  <2>1. \A d \in Cves : corpus'[d].revision <= modified[d] /\ corpus[d].revision <= corpus'[d].revision
    BY <1>2, <1>3, <1>4 DEF FeedInv, Behind, Cve
  <2>2. \A d \in Cves : corpus'[d].kev = corpus[d].kev
    BY <1>4
  <2>3. \A o \in Tenants, d \in Cves : finding[o][d].revision \in Nat /\ corpus[d].revision \in Nat /\ corpus'[d].revision \in Nat
    BY <1>4 DEF FeedInv, FeedTypeOK, Shown, Cve
  <2> QED BY <1>1, <2>1, <2>2, <2>3 DEF FeedInv, Behind
<1>8. Rows'
  BY <1>1, <1>3 DEF FeedInv, Rows, Pulling, Feeds, Done, NoJob
<1>9. Marks'
  BY <1>1, <1>5 DEF FeedInv, Marks, Pulling
<1>10. NoRevisionMissed'
  BY <1>1, <1>3, <1>4 DEF FeedInv, NoRevisionMissed
<1>11. Pulled'
  <2>1. j.todo \subseteq Cves /\ j.touched \subseteq Cves /\ j.end \in Nat /\ Watermark \in Nat
    BY <1>2, WatermarkType DEF Job, FeedInv
  <2>2. \A d \in Cves : modified[d] # 0 /\ modified[d] <= j.end
          => d \in j'.todo \/ corpus'[d].revision = modified[d] \/ corpus'[d].refused = modified[d]
    BY <1>2, <1>3, <1>4, <1>5, <2>1 DEF FeedInv, Pulled
  <2>3. \A d \in j'.todo : modified[d] >= Watermark
    BY <1>5 DEF FeedInv, Pulled
  <2>4. \A d \in j'.touched : corpus'[d].revision >= Watermark
    BY <1>3, <1>4, <1>5, <2>1 DEF FeedInv, Pulled
  <2>5. ASSUME NEW o \in Tenants, NEW d \in Cves, Stale("nvd", o, d)'
        PROVE  \/ d \in j'.todo \/ Awaited("nvd", o, d)' \/ corpus'[d].refused >= corpus'[d].revision
               \/ corpus'[d].revision >= j.end \/ modified[d] > j.end
    <3>1. CASE d # c
      <4>1. Stale("nvd", o, d) /\ corpus'[d] = corpus[d]
        BY <1>1, <1>4, <2>5, <3>1 DEF Stale
      <4>2. Awaited("nvd", o, d) => Awaited("nvd", o, d)'
        BY <1>1, <1>3, <1>5, <3>1 DEF Awaited
      <4> QED BY <1>5, <3>1, <4>1, <4>2 DEF FeedInv, Pulled
    <3>2. CASE d = c
      <4>1. corpus[c].revision <= modified[c]
        BY DEF FeedInv, Behind
      <4>2. t = j.touched \cup {c} => Awaited("nvd", o, d)'
        BY <1>5, <3>2 DEF Awaited
      <4> QED BY <1>2, <1>3, <1>4, <3>2, <4>1, <4>2 DEF Cve
    <3> QED BY <3>1, <3>2
  <2> QED BY <1>1, <1>5, <2>2, <2>3, <2>4, <2>5 DEF Pulled
<1>12. Told'
  BY <1>1, <1>2, <1>3, <1>4 DEF FeedInv, Told, Stale, Awaited, Pulling, Feeds
<1>13. NvdTold'
  <2>1. ASSUME NEW o \in Tenants, NEW d \in Cves, Stale("nvd", o, d)'
        PROVE  \/ Awaited("nvd", o, d)' \/ corpus'[d].refused >= corpus'[d].revision
               \/ corpus'[d].revision >= Watermark \/ modified[d] > Watermark
    <3>1. CASE d # c
      <4>1. Stale("nvd", o, d) /\ corpus'[d] = corpus[d]
        BY <1>1, <1>4, <2>1, <3>1 DEF Stale
      <4>2. Awaited("nvd", o, d) => Awaited("nvd", o, d)'
        BY <1>1, <1>3, <1>5, <3>1 DEF Awaited
      <4> QED BY <4>1, <4>2 DEF FeedInv, NvdTold
    <3>2. CASE d = c
      <4>1. corpus[c].revision <= modified[c] /\ Watermark <= j.end /\ Watermark \in Nat /\ j.end \in Nat
        BY <1>2, WatermarkType DEF FeedInv, Behind, Marks, Job
      <4>2. t = j.touched \cup {c} => Awaited("nvd", o, d)'
        BY <1>5, <3>2 DEF Awaited
      <4> QED BY <1>2, <1>3, <1>4, <3>2, <4>1, <4>2 DEF Cve
    <3> QED BY <3>1, <3>2
  <2> QED BY <1>1, <2>1 DEF NvdTold
<1> QED BY <1>6, <1>7, <1>8, <1>9, <1>10, <1>11, <1>12, <1>13 DEF FeedInv

\* Every action of a page.
LEMMA PagesKeep ==
  ASSUME FeedInv, NEW c \in Cves, UpsertCve(c) \/ RejectCve(c) \/ LeftWindow(c)
  PROVE  FeedInv'
<1>1. corpus[c] \in Cve /\ modified[c] \in Nat
  BY DEF FeedInv, FeedTypeOK
<1>2. CASE UpsertCve(c)
  <2> DEFINE row == [corpus[c] EXCEPT !.known = TRUE, !.revision = modified[c]]
  <2>1. row \in Cve /\ row.revision = modified[c] /\ row.refused = corpus[c].refused
        /\ row.score = corpus[c].score /\ row.kev = corpus[c].kev
    BY <1>1 DEF Cve
  <2>2. PullCommit(c, row) /\ Touched("nvd", c) /\ Pulling("nvd") /\ c \in job["nvd"].todo /\ modified[c] <= job["nvd"].end
    BY <1>2 DEF UpsertCve, Pulling
  <2> HIDE DEF row
  <2> QED BY <2>1, <2>2, PullKeeps
<1>3. CASE RejectCve(c)
  <2> DEFINE row == [corpus[c] EXCEPT !.refused = modified[c]]
  <2>1. row \in Cve /\ row.revision = corpus[c].revision /\ row.refused = modified[c]
        /\ row.score = corpus[c].score /\ row.kev = corpus[c].kev
    BY <1>1 DEF Cve
  <2>2. PullCommit(c, row) /\ Passed("nvd", c) /\ Pulling("nvd") /\ c \in job["nvd"].todo /\ modified[c] <= job["nvd"].end
    BY <1>3 DEF RejectCve, Pulling
  <2> HIDE DEF row
  <2> QED BY <2>1, <2>2, PullKeeps
<1>4. CASE LeftWindow(c)
  BY <1>1, <1>4, PullKeeps DEF LeftWindow, Pulling
<1> QED BY <1>2, <1>3, <1>4

-----------------------------------------------------------------------------
(* The other steps of a run. *)

\* A batch of EPSS.
LEMMA ScoreBatchKeeps ==
  ASSUME FeedInv, NEW c \in Cves, ScoreBatch(c)
  PROVE  FeedInv'
<1> DEFINE j == job["epss"]
<1>1. /\ UNCHANGED <<modified, day, catalogue, runs, finding, interrupted, stops>>
      /\ Watermark' = Watermark /\ Revisions' = Revisions
  BY DEF ScoreBatch, PullCommit, Watermark, Revisions
<1>2. /\ job \in [Feeds -> Job] /\ "epss" \in Feeds /\ corpus \in [Cves -> Cve] /\ corpus[c] \in Cve /\ j \in Job
      /\ Pulling("epss") /\ j.end \in Nat /\ j.end > 0
  BY DEF FeedInv, FeedTypeOK, Feeds, ScoreBatch, Pulling, Rows, Job
<1>3. PICK t \in SUBSET Cves, row \in Cve :
        /\ job' \in [Feeds -> Job]
        /\ job'["epss"] = [step |-> j.step, run |-> j.run, end |-> j.end,
                           todo |-> j.todo \ {c}, touched |-> t, tenants |-> j.tenants]
        /\ \A g \in Feeds \ {"epss"} : job'[g] = job[g]
        /\ corpus' = [corpus EXCEPT ![c] = row]
        /\ row.revision = corpus[c].revision /\ row.kev = corpus[c].kev /\ row.refused = corpus[c].refused
        /\ \/ t = j.touched \cup {c} /\ row.score = j.end
           \/ t = j.touched /\ row.score = corpus[c].score
  <2>1. j.touched \in SUBSET Cves
    BY <1>2 DEF Job
  <2>2. CASE corpus[c].known
    <3> DEFINE row == [corpus[c] EXCEPT !.score = j.end]
    <3>1. /\ row \in Cve /\ row.revision = corpus[c].revision /\ row.kev = corpus[c].kev
          /\ row.refused = corpus[c].refused /\ row.score = j.end
      BY <1>2 DEF Cve
    <3>2. corpus' = [corpus EXCEPT ![c] = row] /\ Touched("epss", c)
      BY <2>2 DEF ScoreBatch, PullCommit
    <3> HIDE DEF row
    <3> QED BY <1>2, <2>1, <3>1, <3>2, TouchedJob
  <2>3. CASE ~corpus[c].known
    <3>1. corpus' = [corpus EXCEPT ![c] = corpus[c]] /\ Passed("epss", c)
      BY <2>3 DEF ScoreBatch, PullCommit
    <3> QED BY <1>2, <2>1, <3>1, PassedJob
  <2> QED BY <2>2, <2>3
<1>4. /\ corpus' \in [Cves -> Cve] /\ corpus'[c] = row /\ \A d \in Cves \ {c} : corpus'[d] = corpus[d]
  BY <1>2, <1>3
<1>5. /\ j'.step = "pulling" /\ j'.run = j.run /\ j'.end = j.end /\ j'.todo = j.todo \ {c} /\ j'.touched = t
      /\ j'.tenants = j.tenants /\ job'["nvd"] = job["nvd"] /\ job'["kev"] = job["kev"]
  BY <1>2, <1>3 DEF Pulling, Feeds
<1>6. \A d \in Cves : corpus'[d].revision = corpus[d].revision /\ corpus'[d].refused = corpus[d].refused
                      /\ corpus'[d].kev = corpus[d].kev
  BY <1>3, <1>4
<1>7. FeedTypeOK'
  BY <1>1, <1>3, <1>4 DEF FeedInv, FeedTypeOK
<1>8. Behind'
  BY <1>1, <1>6 DEF FeedInv, Behind
<1>9. Rows'
  BY <1>1, <1>2, <1>3, <1>5 DEF FeedInv, Rows, Pulling, Feeds, Done, NoJob
<1>10. Marks' /\ NoRevisionMissed'
  BY <1>1, <1>5, <1>6 DEF FeedInv, Marks, Pulling, NoRevisionMissed
<1>11. Pulled' /\ NvdTold'
  <2>1. \A d \in job["nvd"].touched \cup job["nvd"].todo : d \in Cves
    BY DEF FeedInv, FeedTypeOK, Job, Feeds
  <2> QED BY <1>1, <1>5, <1>6, <2>1 DEF FeedInv, Pulled, NvdTold, Pulling, Stale, Awaited
<1>12. Told'
  BY <1>1, <1>2, <1>3, <1>4, <1>5, <1>6 DEF FeedInv, Told, Stale, Awaited, Pulling, Feeds
<1> QED BY <1>7, <1>8, <1>9, <1>10, <1>11, <1>12 DEF FeedInv

\* A pull of NVD begins: it asks again for all it does not know to have.
LEMMA NvdWindowKeeps ==
  ASSUME FeedInv, NvdWindow
  PROVE  FeedInv'
<1> DEFINE todo == {c \in Cves : modified[c] # 0 /\ modified[c] >= Watermark}
<1>1. Revisions \in Nat /\ Watermark \in Nat /\ (\A c \in Cves : modified[c] <= Revisions) /\ Watermark <= Revisions
  BY RevisionsFacts, WatermarkType DEF FeedInv, Marks
<1>2. /\ Begin("nvd", Revisions, Revisions, todo) /\ todo \in SUBSET Cves /\ job["nvd"].step = "idle"
      /\ UNCHANGED <<modified, day, catalogue, corpus, finding, interrupted, stops>> /\ Revisions' = Revisions
  BY DEF NvdWindow, Begin, Revisions
<1>3. job \in [Feeds -> Job] /\ runs \in Seq(FeedRun) /\ "nvd" \in Feeds /\ job["nvd"] = NoJob
  BY <1>2 DEF FeedInv, FeedTypeOK, Feeds, Rows
<1> HIDE DEF todo
<1> DEFINE n == Len(runs) + 1
<1>4. /\ job' \in [Feeds -> Job]
      /\ job'["nvd"] = [step |-> "pulling", run |-> n, end |-> Revisions, todo |-> todo, touched |-> {}, tenants |-> {}]
      /\ \A g \in Feeds \ {"nvd"} : job'[g] = job[g]
      /\ runs' \in Seq(FeedRun) /\ DOMAIN runs' = 1 .. n
      /\ runs'[n] = [feed |-> "nvd", watermark |-> Revisions, status |-> "running"]
      /\ \A i \in DOMAIN runs : runs'[i] = runs[i]
  BY <1>1, <1>2, <1>3, BegunJob
<1>5. DOMAIN runs = 1 .. n - 1 /\ n \in Nat
  BY <1>3
<1>6. Done(runs') = Done(runs) /\ \A i \in Done(runs) : runs'[i] = runs[i] /\ i < n
  BY <1>4, <1>5 DEF Done
<1>7. Watermark' = Watermark
  BY <1>4, <1>6, SameWatermark DEF FeedInv
<1>8. FeedTypeOK'
  BY <1>2, <1>4 DEF FeedInv, FeedTypeOK
<1>9. Behind' /\ NoRevisionMissed'
  BY <1>2, <1>7 DEF FeedInv, Behind, NoRevisionMissed
<1>10. Rows'
  BY <1>4, <1>5, <1>6 DEF FeedInv, Rows, Pulling, Feeds
<1>11. Marks'
  BY <1>1, <1>2, <1>4, <1>7 DEF FeedInv, Marks, Pulling
<1>12. Pulled'
  <2>1. \A c \in Cves : modified[c] # 0 /\ c \notin todo => modified[c] <= Watermark
    BY <1>1 DEF FeedInv, FeedTypeOK, todo
  <2>2. \A c \in todo : modified[c] >= Watermark
    BY DEF todo
  <2>3. \A o \in Tenants, c \in Cves : Stale("nvd", o, c) => modified[c] # 0 /\ modified[c] >= corpus[c].revision
    BY DEF FeedInv, FeedTypeOK, Behind, Stale, Cve, Shown
  <2>4. \A o \in Tenants, c \in Cves : Stale("nvd", o, c) /\ c \notin todo =>
           Awaited("nvd", o, c)' \/ corpus[c].refused >= corpus[c].revision
    <3>1. \A o \in Tenants, c \in Cves : Awaited("nvd", o, c) => Awaited("nvd", o, c)'
      BY <1>2, <1>3 DEF Awaited, NoJob
    <3> QED BY <1>1, <2>3, <3>1 DEF FeedInv, FeedTypeOK, NvdTold, todo, Cve
  <2>5. /\ job'["nvd"].end = Revisions /\ job'["nvd"].todo = todo /\ job'["nvd"].touched = {}
    BY <1>4
  <2> QED BY <1>2, <1>7, <2>1, <2>2, <2>4, <2>5 DEF FeedInv, NoRevisionMissed, Pulled, Stale
<1>13. Told' /\ NvdTold'
  BY <1>2, <1>3, <1>4, <1>7 DEF FeedInv, Told, NvdTold, Stale, Awaited, Feeds, NoJob
<1> QED BY <1>8, <1>9, <1>10, <1>11, <1>12, <1>13 DEF FeedInv

\* A run of EPSS begins.
LEMMA SyncEpssKeeps ==
  ASSUME FeedInv, SyncEpss
  PROVE  FeedInv'
<1>1. /\ Begin("epss", day, day, Cves) /\ day \in Nat /\ day > 0 /\ job["epss"].step = "idle"
      /\ UNCHANGED <<modified, day, catalogue, corpus, finding, interrupted, stops>> /\ Revisions' = Revisions
  BY DEF SyncEpss, Begin, Revisions, FeedInv, FeedTypeOK
<1>2. job \in [Feeds -> Job] /\ runs \in Seq(FeedRun) /\ "epss" \in Feeds /\ job["epss"] = NoJob
  BY <1>1 DEF FeedInv, FeedTypeOK, Feeds, Rows
<1> DEFINE n == Len(runs) + 1
<1>3. /\ job' \in [Feeds -> Job]
      /\ job'["epss"] = [step |-> "pulling", run |-> n, end |-> day, todo |-> Cves, touched |-> {}, tenants |-> {}]
      /\ \A g \in Feeds \ {"epss"} : job'[g] = job[g]
      /\ runs' \in Seq(FeedRun) /\ DOMAIN runs' = 1 .. n
      /\ runs'[n] = [feed |-> "epss", watermark |-> day, status |-> "running"]
      /\ \A i \in DOMAIN runs : runs'[i] = runs[i]
  BY <1>1, <1>2, BegunJob
<1>4. DOMAIN runs = 1 .. n - 1 /\ n \in Nat
  BY <1>2
<1>5. Done(runs') = Done(runs) /\ \A i \in Done(runs) : runs'[i] = runs[i]
  BY <1>3, <1>4 DEF Done
<1>6. Watermark' = Watermark
  BY <1>3, <1>5, SameWatermark DEF FeedInv
<1>7. job'["nvd"] = job["nvd"] /\ job'["kev"] = job["kev"] /\ job'["epss"].step = "pulling" /\ job'["epss"].end = day
  BY <1>3 DEF Feeds
<1>8. FeedTypeOK'
  BY <1>1, <1>3 DEF FeedInv, FeedTypeOK
<1>9. Behind' /\ NoRevisionMissed'
  BY <1>1, <1>6 DEF FeedInv, Behind, NoRevisionMissed
<1>10. Rows'
  BY <1>1, <1>3, <1>4, <1>5, <1>7 DEF FeedInv, Rows, Pulling, Feeds
<1>11. Marks'
  BY <1>1, <1>6, <1>7 DEF FeedInv, Marks, Pulling
<1>12. Pulled' /\ NvdTold'
  BY <1>1, <1>6, <1>7 DEF FeedInv, Pulled, NvdTold, Pulling, Stale, Awaited
<1>13. Told'
  BY <1>1, <1>2, <1>3 DEF FeedInv, Told, Stale, Awaited, Feeds, NoJob
<1> QED BY <1>8, <1>9, <1>10, <1>11, <1>12, <1>13 DEF FeedInv

\* The catalogue is taken in at once, and its walk begins.
LEMMA SyncKevKeeps ==
  ASSUME FeedInv, SyncKev
  PROVE  FeedInv'
<1> DEFINE n == Len(runs) + 1
           row == [feed |-> "kev", watermark |-> 0, status |-> "succeeded"]
           new == [step |-> "telling", run |-> n, end |-> 0, todo |-> {}, touched |-> catalogue, tenants |-> Tenants]
<1>1. /\ UNCHANGED <<modified, day, catalogue, finding, interrupted, stops>> /\ Revisions' = Revisions
      /\ runs' = Append(runs, row) /\ job' = [job EXCEPT !["kev"] = new]
  BY DEF SyncKev, Revisions
<1>2. /\ job \in [Feeds -> Job] /\ runs \in Seq(FeedRun) /\ "kev" \in Feeds /\ catalogue \subseteq Cves
      /\ job["kev"] = NoJob
  BY DEF SyncKev, FeedInv, FeedTypeOK, Feeds, Rows
<1>3. DOMAIN runs = 1 .. n - 1 /\ n \in Nat /\ row \in FeedRun /\ new \in Job
  BY <1>2 DEF FeedRun, RunStates, Job, Feeds
<1> HIDE DEF row
<1>4. /\ runs' \in Seq(FeedRun) /\ Len(runs') = n /\ runs'[n] = row /\ \A i \in DOMAIN runs : runs'[i] = runs[i]
  BY <1>1, <1>2, <1>3, AppendProperties
<1>5. DOMAIN runs' = 1 .. n /\ row.feed = "kev"
  BY <1>4 DEF row
<1>6. Done(runs') = Done(runs) /\ \A i \in Done(runs) : runs'[i] = runs[i]
  BY <1>3, <1>4, <1>5 DEF Done
<1>7. Watermark' = Watermark
  BY <1>4, <1>6, SameWatermark DEF FeedInv
<1>8. /\ job' \in [Feeds -> Job] /\ job'["nvd"] = job["nvd"] /\ job'["epss"] = job["epss"] /\ job'["kev"] = new
  BY <1>1, <1>2, <1>3 DEF Feeds
<1>9. /\ corpus' \in [Cves -> Cve]
      /\ \A c \in Cves : /\ corpus'[c].revision = corpus[c].revision /\ corpus'[c].refused = corpus[c].refused
                         /\ corpus'[c].score = corpus[c].score
                         /\ c \notin catalogue => corpus'[c] = corpus[c]
                         /\ corpus[c].kev => corpus'[c].kev
  BY DEF SyncKev, FeedInv, FeedTypeOK, Cve
<1>10. FeedTypeOK'
  BY <1>1, <1>4, <1>8, <1>9 DEF FeedInv, FeedTypeOK
<1>11. Behind'
  BY <1>1, <1>9 DEF FeedInv, Behind
<1>12. Rows'
  BY <1>3, <1>4, <1>5, <1>6, <1>8 DEF FeedInv, Rows, Pulling, Feeds
<1>13. Marks' /\ NoRevisionMissed'
  BY <1>1, <1>7, <1>8, <1>9 DEF FeedInv, Marks, Pulling, NoRevisionMissed
<1>14. Pulled' /\ NvdTold'
  <2>1. \A d \in job["nvd"].touched \cup job["nvd"].todo : d \in Cves
    BY DEF FeedInv, FeedTypeOK, Job, Feeds
  <2> QED BY <1>1, <1>7, <1>8, <1>9, <2>1 DEF FeedInv, Pulled, NvdTold, Pulling, Stale, Awaited
<1>15. Told'
  <2>1. ASSUME NEW o \in Tenants, NEW c \in Cves, NEW f \in {"nvd", "epss"}
        PROVE  /\ Stale(f, o, c)' = Stale(f, o, c) /\ Awaited(f, o, c)' = Awaited(f, o, c) /\ job'[f] = job[f]
    BY <1>1, <1>8, <1>9 DEF Stale, Awaited
  <2>2. ASSUME NEW o \in Tenants, NEW c \in Cves, Stale("kev", o, c)'
        PROVE  Awaited("kev", o, c)'
    <3>1. CASE c \in catalogue
      BY <1>8, <3>1 DEF Awaited
    <3>2. CASE c \notin catalogue
      <4>1. Stale("kev", o, c)
        BY <1>1, <1>9, <2>2, <3>2 DEF Stale
      <4>2. <<"kev", c>> \in interrupted
        BY <1>2, <4>1 DEF FeedInv, Told, Awaited, NoJob
      <4> QED BY <1>1, <4>2 DEF Awaited
    <3> QED BY <3>1, <3>2
  <2>3. job'["kev"].tenants = Tenants
    BY <1>8
  <2> QED BY <2>1, <2>2, <2>3 DEF FeedInv, Told, Feeds
<1> QED BY <1>10, <1>11, <1>12, <1>13, <1>14, <1>15 DEF FeedInv

\* A run succeeds: the watermark moves to where its window ended.
LEMMA EndingKeeps ==
  ASSUME FeedInv, NEW f \in Feeds, FeedRunEnds(f)
  PROVE  FeedInv'
<1> DEFINE n == job[f].run
<1>1. /\ UNCHANGED <<modified, day, catalogue, corpus, finding, interrupted, stops>> /\ Revisions' = Revisions
      /\ runs' = [runs EXCEPT ![n].status = "succeeded"]
      /\ Pulling(f) /\ job[f].todo = {} /\ n \in DOMAIN runs /\ f # "kev" /\ runs[n].feed = f
  BY DEF FeedRunEnds, Pulling, Revisions, FeedInv, Rows
<1>2. job \in [Feeds -> Job] /\ runs \in Seq(FeedRun) /\ "succeeded" \in RunStates /\ job[f] \in Job
  BY DEF FeedInv, FeedTypeOK, RunStates
<1>3. /\ runs' \in Seq(FeedRun) /\ DOMAIN runs' = DOMAIN runs
      /\ runs'[n] = [feed |-> runs[n].feed, watermark |-> runs[n].watermark, status |-> "succeeded"]
      /\ \A i \in DOMAIN runs \ {n} : runs'[i] = runs[i]
  BY <1>1, <1>2, MarkedRun
<1>4. /\ job' \in [Feeds -> Job] /\ \A g \in Feeds \ {f} : job'[g] = job[g]
      /\ job'[f] = [step |-> "telling", run |-> n, end |-> job[f].end, todo |-> {},
                    touched |-> job[f].touched, tenants |-> Tenants]
  BY <1>1, <1>2 DEF FeedRunEnds, Job
<1>5. /\ job'[f].step = "telling" /\ job'[f].touched = job[f].touched /\ job'[f].tenants = Tenants
      /\ job'[f].run = n /\ job'[f].end = job[f].end /\ ~Pulling(f)'
  BY <1>4 DEF Pulling
<1>0. \A i \in DOMAIN runs : runs'[i].feed = runs[i].feed
  BY <1>3
<1>6. FeedTypeOK'
  BY <1>1, <1>3, <1>4 DEF FeedInv, FeedTypeOK
<1>7. Behind'
  BY <1>1 DEF FeedInv, Behind
<1>8. \A g \in Feeds, o \in Tenants, c \in Cves :
         (Awaited(g, o, c) => Awaited(g, o, c)') /\ Stale(g, o, c)' = Stale(g, o, c)
  BY <1>1, <1>4, <1>5 DEF Awaited, Stale
<1>9. Told'
  BY <1>4, <1>5, <1>8 DEF FeedInv, Told
<1>10. CASE f = "nvd"
  <2>1. Done(runs') = Done(runs) \cup {n} /\ \A i \in Done(runs') : i <= n
    <3>1. \A i \in DOMAIN runs : i # n => (i \in Done(runs') <=> i \in Done(runs))
      BY <1>3 DEF Done
    <3>2. n \in Done(runs')
      BY <1>1, <1>3, <1>10 DEF Done
    <3>3. \A i \in Done(runs) : i < n
      BY <1>1, <1>10 DEF FeedInv, Rows
    <3>4. Done(runs') \subseteq DOMAIN runs /\ Done(runs) \subseteq DOMAIN runs
      BY <1>3 DEF Done
    <3>5. DOMAIN runs \subseteq Nat
      <4>1. \A i \in DOMAIN runs : i \in Nat
        BY <1>2
      <4> QED BY <4>1, Zenon
    <3>6. n \in DOMAIN runs
      BY <1>1
    <3> HIDE DEF n
    <3>7. Done(runs') = Done(runs) \cup {n}
      BY <3>1, <3>2, <3>4, <3>6
    <3>8. \A i \in Done(runs') : i <= n
      BY <3>3, <3>4, <3>5, <3>6, <3>7
    <3> QED BY <3>7, <3>8
  <2>2. Watermark' = job["nvd"].end
    <3>1. n \in Done(runs')
      BY <2>1
    <3>2. Max(Done(runs')) = n
      BY <1>3, <2>1, <3>1, DoneTop
    <3>3. Watermark' = IF Done(runs') = {} THEN 0 ELSE runs'[Max(Done(runs'))].watermark
      BY DEF Watermark, Done
    <3>4. runs'[n].watermark = job["nvd"].end
      BY <1>1, <1>3, <1>10 DEF FeedInv, Rows
    <3> QED BY <3>1, <3>2, <3>3, <3>4
  <2>3. Rows'
    <3>1. /\ \A g \in Feeds : job[g].step = "idle" => job[g] = NoJob
          /\ \A g \in Feeds : Pulling(g) => g # "kev" /\ job[g].run \in DOMAIN runs' /\ runs'[job[g].run].feed = g
          /\ Pulling("epss") => job["epss"].end > 0
      BY <1>1, <1>3, <1>0 DEF FeedInv, Rows
    <3>2. n \in Done(runs') /\ \A i \in Done(runs') : i <= n
      BY <2>1
    <3>3. ~Pulling("nvd")' /\ (job["nvd"].step # "idle") /\ job'["epss"] = job["epss"] /\ job'["kev"] = job["kev"]
      BY <1>1, <1>4, <1>5, <1>10 DEF Pulling, Feeds
    <3>4. job'["nvd"].step = "telling"
      BY <1>5, <1>10
    <3> QED BY <3>1, <3>2, <3>3, <3>4 DEF Rows, Pulling, Feeds
  <2>4. Marks' /\ Pulled'
    BY <1>1, <1>5, <1>10, <2>2 DEF FeedInv, Marks, Pulled, Pulling
  <2>5. NoRevisionMissed'
    BY <1>1, <1>10, <2>2 DEF FeedInv, Pulled, NoRevisionMissed
  <2>6. NvdTold'
    BY <1>1, <1>8, <1>10, <2>2 DEF FeedInv, Pulled, NvdTold
  <2> QED BY <1>6, <1>7, <1>9, <2>3, <2>4, <2>5, <2>6 DEF FeedInv
<1>11. CASE f = "epss"
  <2>1. Done(runs') = Done(runs) /\ \A i \in Done(runs) : runs'[i] = runs[i]
    BY <1>1, <1>3, <1>11 DEF Done
  <2>2. Watermark' = Watermark
    BY <1>3, <2>1, SameWatermark DEF FeedInv
  <2>3. job'["nvd"] = job["nvd"] /\ job'["kev"] = job["kev"]
    BY <1>4, <1>11 DEF Feeds
  <2>4. Rows'
    <3>1. Pulling("nvd") => job["nvd"].run # n
      <4>1. Pulling("nvd") => runs[job["nvd"].run].feed = "nvd"
        BY DEF FeedInv, Rows, Feeds
      <4>2. runs[n].feed = "epss"
        BY <1>1, <1>11
      <4> HIDE DEF n
      <4> QED BY <4>1, <4>2
    <3>2. /\ job'["epss"].step = "telling" /\ ~Pulling("epss")' /\ Pulling("nvd")' = Pulling("nvd")
          /\ Pulling("kev")' = Pulling("kev")
      BY <1>5, <1>11, <2>3 DEF Pulling
    <3>3. Pulling("nvd") => runs'[job["nvd"].run] = runs[job["nvd"].run]
      <4>1. Pulling("nvd") => job["nvd"].run \in DOMAIN runs
        BY DEF FeedInv, Rows, Feeds
      <4> HIDE DEF n
      <4> QED BY <1>3, <3>1, <4>1
    <3>4. \A g \in Feeds : g = "nvd" \/ g = "epss" \/ g = "kev"
      BY DEF Feeds
    <3> QED BY <1>3, <2>1, <2>3, <3>2, <3>3, <3>4 DEF FeedInv, Rows, Feeds
  <2>5. Marks' /\ NoRevisionMissed'
    BY <1>1, <2>2, <2>3 DEF FeedInv, Marks, NoRevisionMissed, Pulling
  <2>6. Pulled' /\ NvdTold'
    BY <1>1, <2>2, <2>3 DEF FeedInv, Pulled, NvdTold, Pulling, Awaited, Stale
  <2> QED BY <1>6, <1>7, <1>9, <2>4, <2>5, <2>6 DEF FeedInv
<1> QED BY <1>1, <1>10, <1>11 DEF Feeds

\* A run fails or dies: the watermark stays where it was.
LEMMA InterruptKeeps ==
  ASSUME FeedInv, NEW f \in Feeds, FailRun(f) \/ Die(f)
  PROVE  FeedInv'
<1> DEFINE n == job[f].run
<1>1. /\ UNCHANGED <<modified, day, catalogue, corpus, finding>> /\ Revisions' = Revisions
      /\ job' = [job EXCEPT ![f] = NoJob]
      /\ interrupted' = IF f = "nvd" /\ Pulling(f) THEN interrupted ELSE interrupted \cup ({f} \X job[f].touched)
  BY DEF FailRun, Die, Interrupt, Revisions, Pulling
<1>2. /\ job \in [Feeds -> Job] /\ runs \in Seq(FeedRun) /\ job[f] \in Job /\ NoJob \in Job /\ NoJob.step = "idle"
      /\ NoJob.touched = {} /\ job[f].touched \subseteq Cves
  BY DEF FeedInv, FeedTypeOK, Job, NoJob
<1>3. /\ job' \in [Feeds -> Job] /\ job'[f] = NoJob /\ \A g \in Feeds \ {f} : job'[g] = job[g]
  BY <1>1, <1>2
<1>4. /\ runs' \in Seq(FeedRun) /\ DOMAIN runs' = DOMAIN runs
      /\ \/ runs' = runs
         \/ /\ f = "nvd" /\ Pulling(f) /\ runs'[n].status = "failed" /\ runs'[n].feed = runs[n].feed
            /\ \A i \in DOMAIN runs \ {n} : runs'[i] = runs[i]
  <2>1. CASE runs' = runs
    BY <1>2, <2>1
  <2>2. CASE runs' # runs
    <3>1. f = "nvd" /\ Pulling(f) /\ runs' = [runs EXCEPT ![n].status = "failed"]
      BY <2>2 DEF FailRun, Die, Pulling
    <3>2. n \in DOMAIN runs /\ "failed" \in RunStates
      BY <3>1 DEF FeedInv, Rows, RunStates
    <3>3. /\ runs' \in Seq(FeedRun) /\ DOMAIN runs' = DOMAIN runs
          /\ runs'[n] = [feed |-> runs[n].feed, watermark |-> runs[n].watermark, status |-> "failed"]
          /\ \A i \in DOMAIN runs \ {n} : runs'[i] = runs[i]
      BY <1>2, <3>1, <3>2, MarkedRun
    <3>4. runs'[n].status = "failed" /\ runs'[n].feed = runs[n].feed
      BY <3>3
    <3> QED BY <3>1, <3>3, <3>4
  <2> QED BY <2>1, <2>2
<1>5. Done(runs') = Done(runs) /\ \A i \in Done(runs) : runs'[i] = runs[i]
  <2>1. f = "nvd" /\ Pulling(f) => n \notin Done(runs)
    BY DEF FeedInv, Rows, Done
  <2>2. \A i \in DOMAIN runs : i \in Done(runs') <=> i \in Done(runs)
    BY <1>4, <2>1 DEF Done
  <2> QED BY <1>4, <2>1, <2>2 DEF Done
<1>6. Watermark' = Watermark
  BY <1>4, <1>5, SameWatermark DEF FeedInv
<1>7. FeedTypeOK'
  BY <1>1, <1>2, <1>3, <1>4 DEF FeedInv, FeedTypeOK
<1>8. Behind' /\ NoRevisionMissed'
  BY <1>1, <1>6 DEF FeedInv, Behind, NoRevisionMissed
<1>9. Rows'
  <2>1. \A g \in Feeds \ {f} : Pulling(g) => runs'[job[g].run].feed = g
    BY <1>4 DEF FeedInv, Rows
  <2>2. f # "nvd" => runs' = runs
    BY <1>4
  <2> QED BY <1>2, <1>3, <1>4, <1>5, <2>1, <2>2 DEF FeedInv, Rows, Pulling, Feeds
<1>10. Marks'
  BY <1>1, <1>2, <1>3, <1>6 DEF FeedInv, Marks, Pulling, Feeds
<1>11. \A g \in Feeds, o \in Tenants, c \in Cves : Stale(g, o, c)' = Stale(g, o, c)
  BY <1>1 DEF Stale
<1>12. \A g \in Feeds, o \in Tenants, c \in Cves :
          Awaited(g, o, c) => Awaited(g, o, c)' \/ (g = "nvd" /\ f = "nvd" /\ Pulling(f) /\ c \in job[f].touched)
  BY <1>1, <1>2, <1>3 DEF Awaited, Pulling
<1>13. Pulled'
  <2>1. CASE f = "nvd"
    BY <1>2, <1>3, <2>1 DEF Pulled, Pulling
  <2>2. CASE f # "nvd"
    BY <1>1, <1>3, <1>6, <1>11, <1>12, <2>2 DEF FeedInv, Pulled, Pulling, Feeds
  <2> QED BY <2>1, <2>2
<1>14. NvdTold'
  BY <1>1, <1>6, <1>11, <1>12 DEF FeedInv, NvdTold, Pulled, Feeds
<1>15. Told'
  BY <1>2, <1>3, <1>11, <1>12 DEF FeedInv, Told
<1> QED BY <1>7, <1>8, <1>9, <1>10, <1>13, <1>14, <1>15 DEF FeedInv

-----------------------------------------------------------------------------
(* The walk over the tenants. *)

\* The findings of one tenant are brought up to what the feed has touched.
LEMMA TellingKeeps ==
  ASSUME FeedInv, NEW f \in Feeds, NEW o \in Tenants, job[f].step = "telling",
         UNCHANGED <<modified, day, catalogue, corpus, runs, interrupted, stops>>,
         job' = [job EXCEPT ![f].tenants = @ \ {o}],
         finding' \in [Tenants -> [Cves -> Shown]],
         \A p \in Tenants \ {o} : finding'[p] = finding[p],
         \A c \in Cves :
           \/ finding'[o][c] = finding[o][c] /\ (c \in job[f].touched => ~Stale(f, o, c))
           \/ finding'[o][c] = Current(c)
           \/ /\ f # "nvd" /\ c \in job[f].touched /\ finding[o][c].revision # 0
              /\ finding'[o][c].revision = finding[o][c].revision
              /\ finding'[o][c].score = IF finding[o][c].score # 0 THEN finding[o][c].score ELSE corpus[c].score
              /\ finding'[o][c].kev = (finding[o][c].kev \/ corpus[c].kev)
  PROVE  FeedInv'
<1>1. Watermark' = Watermark /\ Revisions' = Revisions
  BY DEF Watermark, Revisions
<1>2. job \in [Feeds -> Job] /\ job[f] \in Job /\ corpus \in [Cves -> Cve] /\ finding \in [Tenants -> [Cves -> Shown]]
  BY DEF FeedInv, FeedTypeOK
<1>3. /\ job' \in [Feeds -> Job] /\ \A g \in Feeds \ {f} : job'[g] = job[g]
      /\ job'[f].step = "telling" /\ job'[f].touched = job[f].touched /\ job'[f].tenants = job[f].tenants \ {o}
      /\ ~Pulling(f)' /\ ~Pulling(f)
  BY <1>2 DEF Job, Pulling
<1>4. \A c \in Cves : Current(c) = [revision |-> corpus[c].revision, score |-> corpus[c].score, kev |-> corpus[c].kev]
  BY DEF Current
<1>5. FeedTypeOK'
  BY <1>3 DEF FeedInv, FeedTypeOK
<1>6. ASSUME NEW c \in Cves
      PROVE  finding'[o][c].revision <= corpus[c].revision /\ (finding'[o][c].kev => corpus[c].kev)
  <2>1. /\ finding[o][c].revision <= corpus[c].revision /\ (finding[o][c].kev => corpus[c].kev)
        /\ corpus[c].revision \in Nat
    BY <1>2 DEF FeedInv, Behind, Cve
  <2>2. Current(c).revision = corpus[c].revision /\ Current(c).kev = corpus[c].kev
    BY <1>4
  <2>3. finding'[o][c].revision <= corpus[c].revision
    BY <2>1, <2>2
  <2>4. finding'[o][c].kev => corpus[c].kev
    BY <2>1, <2>2
  <2> QED BY <2>3, <2>4
<1>7. Behind'
  BY <1>6 DEF FeedInv, Behind
<1>8. Rows' /\ Marks' /\ NoRevisionMissed'
  BY <1>1, <1>3 DEF FeedInv, Rows, Marks, NoRevisionMissed, Pulling, Feeds
\* A tenant's finding does not fall behind, and is not behind this feed any more.
<1>9. \A g \in Feeds, c \in Cves : Stale(g, o, c)' => Stale(g, o, c)
  BY <1>2, <1>4 DEF FeedInv, Behind, Stale, Cve, Shown
<1>10. ASSUME NEW c \in Cves, c \in job[f].touched
       PROVE  ~Stale(f, o, c)'
  <2>1. CASE finding'[o][c] = finding[o][c] /\ ~Stale(f, o, c)
    BY <2>1 DEF Stale
  <2>2. CASE finding'[o][c] = Current(c)
    <3>1. /\ finding'[o][c].revision = corpus[c].revision /\ finding'[o][c].score = corpus[c].score
          /\ finding'[o][c].kev = corpus[c].kev
      BY <1>4, <2>2
    <3> QED BY <3>1 DEF Stale
  <2>3. CASE /\ f # "nvd" /\ finding'[o][c].revision = finding[o][c].revision
             /\ finding'[o][c].score = IF finding[o][c].score # 0 THEN finding[o][c].score ELSE corpus[c].score
             /\ finding'[o][c].kev = (finding[o][c].kev \/ corpus[c].kev)
    <3>1. finding'[o][c].score = 0 => corpus[c].score = 0
      BY <2>3
    <3>2. finding'[o][c].kev = corpus[c].kev
      <4>1. (finding[o][c].kev => corpus[c].kev) /\ corpus[c].kev \in BOOLEAN /\ finding[o][c].kev \in BOOLEAN
        BY <1>2 DEF FeedInv, Behind, Cve, Shown
      <4> QED BY <2>3, <4>1
    <3> QED BY <2>3, <3>1, <3>2 DEF Stale
  <2> QED BY <1>10, <2>1, <2>2, <2>3
<1>11. \A g \in Feeds, p \in Tenants \ {o}, c \in Cves : Stale(g, p, c)' = Stale(g, p, c)
  BY DEF Stale
<1>12. \A g \in Feeds, p \in Tenants, c \in Cves : Awaited(g, p, c) /\ Stale(g, p, c)' => Awaited(g, p, c)'
  BY <1>3, <1>10 DEF Awaited, Pulling
<1>13. \A g \in Feeds, p \in Tenants, c \in Cves : Stale(g, p, c)' => Stale(g, p, c)
  BY <1>9, <1>11
<1>14. Told'
  <2>1. ASSUME NEW g \in Feeds, NEW p \in Tenants, NEW c \in Cves, Stale(g, p, c)'
        PROVE  /\ ~(job'[g].step = "telling" /\ c \in job'[g].touched /\ p \notin job'[g].tenants)
               /\ g # "nvd" => Awaited(g, p, c)'
    BY <1>3, <1>10, <1>12, <1>13, <2>1 DEF FeedInv, Told
  <2> QED BY <2>1 DEF Told
<1>15. Pulled'
  <2>1. CASE f = "nvd"
    BY <1>3, <2>1 DEF Pulled, Pulling
  <2>2. CASE f # "nvd"
    <3>1. job'["nvd"] = job["nvd"]
      BY <1>3, <2>2 DEF Feeds
    <3>2. "nvd" \in Feeds
      BY DEF Feeds
    <3> QED BY <1>1, <1>12, <1>13, <3>1, <3>2 DEF FeedInv, Pulled, Pulling
  <2> QED BY <2>1, <2>2
<1>16. NvdTold'
  <2>1. "nvd" \in Feeds
    BY DEF Feeds
  <2> QED BY <1>1, <1>12, <1>13, <2>1 DEF FeedInv, NvdTold
<1> QED BY <1>5, <1>7, <1>8, <1>14, <1>15, <1>16 DEF FeedInv

\* A tenant is correlated or rescored.
LEMMA WalkKeeps ==
  ASSUME FeedInv, NEW o \in Tenants, CorrelateNewCves(o) \/ \E f \in Feeds : RescoreForCves(f, o)
  PROVE  FeedInv'
<1>1. /\ corpus \in [Cves -> Cve] /\ finding \in [Tenants -> [Cves -> Shown]] /\ job \in [Feeds -> Job]
      /\ \A c \in Cves : Current(c) \in Shown
  BY DEF FeedInv, FeedTypeOK, Current, Shown, Cve
<1>2. CASE CorrelateNewCves(o)
  <2> DEFINE row == [c \in Cves |-> IF c \in job["nvd"].touched THEN Current(c) ELSE finding[o][c]]
  <2>1. /\ UNCHANGED <<modified, day, catalogue, corpus, runs, interrupted, stops>> /\ job["nvd"].step = "telling"
        /\ job' = [job EXCEPT !["nvd"].tenants = @ \ {o}] /\ finding' = [finding EXCEPT ![o] = row]
    BY <1>2 DEF CorrelateNewCves
  <2>2. row \in [Cves -> Shown]
    BY <1>1
  <2>3. \A c \in Cves : \/ row[c] = finding[o][c] /\ c \notin job["nvd"].touched
                        \/ row[c] = Current(c)
    OBVIOUS
  <2> HIDE DEF row
  <2>4. finding' \in [Tenants -> [Cves -> Shown]] /\ finding'[o] = row /\ \A p \in Tenants \ {o} : finding'[p] = finding[p]
    BY <1>1, <2>1, <2>2
  <2>5. "nvd" \in Feeds
    BY DEF Feeds
  <2> QED BY <2>1, <2>3, <2>4, <2>5, TellingKeeps
<1>3. ASSUME NEW f \in Feeds, RescoreForCves(f, o)
      PROVE  FeedInv'
  <2> DEFINE row == [c \in Cves |-> IF c \in job[f].touched /\ finding[o][c].revision # 0
                                    THEN Rescored(finding[o][c], corpus[c]) ELSE finding[o][c]]
  <2>1. /\ UNCHANGED <<modified, day, catalogue, corpus, runs, interrupted, stops>> /\ job[f].step = "telling"
        /\ job' = [job EXCEPT ![f].tenants = @ \ {o}] /\ finding' = [finding EXCEPT ![o] = row] /\ f # "nvd"
    BY <1>3 DEF RescoreForCves
  <2>2. ASSUME NEW c \in Cves
        PROVE  LET new == Rescored(finding[o][c], corpus[c])
               IN  /\ new \in Shown /\ new.revision = finding[o][c].revision
                   /\ new.score = IF finding[o][c].score # 0 THEN finding[o][c].score ELSE corpus[c].score
                   /\ new.kev = (finding[o][c].kev \/ corpus[c].kev)
    <3>1. finding[o][c] \in Shown /\ corpus[c] \in Cve
      BY <1>1
    <3> QED BY <3>1 DEF Rescored, Shown, Cve
  <2>3. row \in [Cves -> Shown]
    BY <1>1, <2>2
  <2>4. \A c \in Cves :
           \/ row[c] = finding[o][c] /\ (c \notin job[f].touched \/ finding[o][c].revision = 0)
           \/ /\ c \in job[f].touched /\ finding[o][c].revision # 0
              /\ row[c].revision = finding[o][c].revision
              /\ row[c].score = IF finding[o][c].score # 0 THEN finding[o][c].score ELSE corpus[c].score
              /\ row[c].kev = (finding[o][c].kev \/ corpus[c].kev)
    BY <2>2
  <2> HIDE DEF row
  <2>5. finding' \in [Tenants -> [Cves -> Shown]] /\ finding'[o] = row /\ \A p \in Tenants \ {o} : finding'[p] = finding[p]
    BY <1>1, <2>1, <2>3
  <2>6. \A c \in Cves : finding[o][c].revision = 0 => ~Stale(f, o, c)
    BY <2>1 DEF Stale
  <2> QED BY <2>1, <2>4, <2>5, <2>6, TellingKeeps
<1> QED BY <1>2, <1>3

\* The walk is over: no tenant is behind what the feed touched.
LEMMA WalkDoneKeeps ==
  ASSUME FeedInv, NEW f \in Feeds, WalkDone(f)
  PROVE  FeedInv'
<1>1. /\ UNCHANGED <<modified, day, catalogue, corpus, runs, finding, stops>>
      /\ Watermark' = Watermark /\ Revisions' = Revisions
      /\ job' = [job EXCEPT ![f] = NoJob] /\ job[f].step = "telling" /\ job[f].tenants = {}
      /\ interrupted' = interrupted \ ({f} \X job[f].touched)
  BY DEF WalkDone, Watermark, Revisions
<1>2. job \in [Feeds -> Job] /\ NoJob \in Job /\ NoJob.step = "idle"
  BY DEF FeedInv, FeedTypeOK, Job, NoJob
<1>3. job' \in [Feeds -> Job] /\ job'[f] = NoJob /\ \A g \in Feeds \ {f} : job'[g] = job[g]
  BY <1>1, <1>2
<1>4. FeedTypeOK'
  BY <1>1, <1>3 DEF FeedInv, FeedTypeOK
<1>5. Behind' /\ NoRevisionMissed'
  BY <1>1 DEF FeedInv, Behind, NoRevisionMissed
<1>6. Rows' /\ Marks'
  BY <1>1, <1>2, <1>3 DEF FeedInv, Rows, Marks, Pulling, Feeds
<1>7. \A g \in Feeds, o \in Tenants, c \in Cves : Stale(g, o, c)' = Stale(g, o, c)
  BY <1>1 DEF Stale
<1>8. \A o \in Tenants, c \in Cves : c \in job[f].touched => ~Stale(f, o, c)
  BY <1>1 DEF FeedInv, Told
<1>9. \A g \in Feeds, o \in Tenants, c \in Cves : Awaited(g, o, c) /\ Stale(g, o, c) => Awaited(g, o, c)'
  BY <1>1, <1>3, <1>8 DEF Awaited
<1>10. Pulled'
  <2>1. CASE f = "nvd"
    BY <1>2, <1>3, <2>1 DEF Pulled, Pulling
  <2>2. CASE f # "nvd"
    BY <1>1, <1>3, <1>7, <1>9, <2>2 DEF FeedInv, Pulled, Pulling, Feeds
  <2> QED BY <2>1, <2>2
<1>11. NvdTold'
  BY <1>1, <1>7, <1>9 DEF FeedInv, NvdTold, Feeds
<1>12. Told'
  BY <1>2, <1>3, <1>7, <1>9 DEF FeedInv, Told
<1> QED BY <1>4, <1>5, <1>6, <1>10, <1>11, <1>12 DEF FeedInv

-----------------------------------------------------------------------------
(* The sources. *)

\* NVD revises, FIRST scores and CISA lists.
LEMMA SourcesKeep ==
  ASSUME FeedInv, ScoreDay \/ \E c \in Cves : Revise(c) \/ ListExploited(c)
  PROVE  FeedInv'
<1>1. ASSUME UNCHANGED <<modified, corpus, runs, job, finding, interrupted, stops>>, day' \in Nat, catalogue' \subseteq Cves
      PROVE  FeedInv'
  <2>1. Watermark' = Watermark /\ Revisions' = Revisions
    BY <1>1 DEF Watermark, Revisions
  <2>2. FeedTypeOK' /\ Behind' /\ Rows' /\ Marks' /\ NoRevisionMissed'
    BY <1>1, <2>1 DEF FeedInv, FeedTypeOK, Behind, Rows, Marks, NoRevisionMissed, Pulling
  <2>3. Pulled' /\ Told' /\ NvdTold'
    BY <1>1, <2>1 DEF FeedInv, Pulled, Told, NvdTold, Pulling, Stale, Awaited
  <2> QED BY <2>2, <2>3 DEF FeedInv
<1>2. ASSUME NEW c \in Cves, Revise(c)
      PROVE  FeedInv'
  <2>1. Revisions \in Nat /\ Watermark \in Nat /\ (\A d \in Cves : modified[d] <= Revisions) /\ modified \in [Cves -> Nat]
    BY RevisionsFacts, WatermarkType DEF FeedInv, FeedTypeOK
  <2>2. /\ modified' = [modified EXCEPT ![c] = Revisions + 1] /\ Watermark' = Watermark
        /\ UNCHANGED <<day, catalogue, corpus, runs, job, finding, interrupted, stops>>
    BY <1>2 DEF Revise, Watermark
  <2>3. /\ modified' \in [Cves -> Nat] /\ modified'[c] = Revisions + 1
        /\ \A d \in Cves \ {c} : modified'[d] = modified[d]
        /\ \A d \in Cves : modified'[d] <= modified'[c] /\ modified[d] <= modified'[d]
    BY <2>1, <2>2
  <2>4. Revisions' = Revisions + 1
    <3>1. Revisions' = Max({modified'[d] : d \in Cves})
      BY DEF Revisions
    <3>2. {modified'[d] : d \in Cves} \subseteq Nat /\ modified'[c] \in {modified'[d] : d \in Cves}
      BY <2>3
    <3>3. \A y \in {modified'[d] : d \in Cves} : y <= modified'[c]
      BY <2>3
    <3> QED BY <2>3, <3>1, <3>2, <3>3, TopIsMax
  <2>5. FeedTypeOK'
    BY <2>2, <2>3 DEF FeedInv, FeedTypeOK
  <2>6. Behind'
    <3>1. \A d \in Cves : corpus[d].revision <= modified'[d]
      <4>1. \A d \in Cves : corpus[d].revision \in Nat
        BY DEF FeedInv, FeedTypeOK, Cve
      <4> QED BY <2>1, <2>3, <4>1 DEF FeedInv, Behind
    <3> QED BY <2>2, <2>3, <3>1 DEF FeedInv, Behind
  <2>7. Rows'
    BY <2>2 DEF FeedInv, Rows, Pulling
  <2>8. job["nvd"].end \in Nat /\ (Pulling("nvd") => job["nvd"].end <= Revisions) /\ Watermark <= Revisions
    BY DEF FeedInv, FeedTypeOK, Job, Feeds, Marks
  <2>9. Marks'
    BY <2>1, <2>2, <2>4, <2>8 DEF FeedInv, Marks, Pulling
  <2>10. NoRevisionMissed'
    BY <2>1, <2>2, <2>3, <2>8 DEF FeedInv, NoRevisionMissed
  <2>11. Pulled'
    <3>1. job["nvd"].todo \subseteq Cves /\ job["nvd"].touched \subseteq Cves
      BY DEF FeedInv, FeedTypeOK, Job, Feeds
    <3> QED BY <2>1, <2>2, <2>3, <2>8, <3>1 DEF FeedInv, Pulled, Pulling, Stale, Awaited
  <2>12. Told' /\ NvdTold'
    BY <2>1, <2>2, <2>3, <2>8 DEF FeedInv, Told, NvdTold, Stale, Awaited
  <2> QED BY <2>5, <2>6, <2>7, <2>9, <2>10, <2>11, <2>12 DEF FeedInv
<1>3. CASE ScoreDay
  BY <1>1, <1>3 DEF ScoreDay, FeedInv, FeedTypeOK
<1>4. ASSUME NEW c \in Cves, ListExploited(c)
      PROVE  FeedInv'
  BY <1>1, <1>4 DEF ListExploited, FeedInv, FeedTypeOK
<1> QED BY <1>2, <1>3, <1>4

\* The invariant holds at the start.
LEMMA FeedStart == FeedInit => FeedInv
<1> SUFFICES ASSUME FeedInit PROVE FeedInv
  OBVIOUS
<1>1. /\ \A c \in Cves : modified[c] = 0 /\ corpus[c] = NoCve
      /\ \A o \in Tenants, c \in Cves : finding[o][c] = NoFinding
      /\ \A f \in Feeds : job[f] = NoJob
      /\ runs = <<>> /\ day = 0 /\ catalogue = {} /\ interrupted = {}
  BY DEF FeedInit
<1>2. /\ NoCve.revision = 0 /\ NoCve.score = 0 /\ ~NoCve.kev /\ NoCve \in Cve
      /\ NoFinding.revision = 0 /\ ~NoFinding.kev /\ NoFinding \in Shown
      /\ NoJob.step = "idle" /\ NoJob \in Job
  BY DEF NoCve, NoFinding, NoJob, Cve, Shown, Job
<1>3. FeedTypeOK
  BY <1>1, <1>2 DEF FeedInit, FeedTypeOK
<1>4. Done(runs) = {}
  BY <1>1 DEF Done
<1>5. Watermark = 0
  BY <1>4, NoWatermark
<1>6. Behind
  BY <1>1, <1>2, FeedSyncAssumption DEF Behind
<1>7. Revisions \in Nat
  BY <1>3, <1>6, RevisionsFacts
<1>8. \A f \in Feeds : ~Pulling(f) /\ job[f].step = "idle"
  BY <1>1, <1>2 DEF Pulling
<1>9. Rows /\ Marks /\ NoRevisionMissed /\ Pulled
  BY <1>1, <1>2, <1>4, <1>5, <1>7, <1>8 DEF Rows, Marks, NoRevisionMissed, Pulled, Feeds
<1>10. Told /\ NvdTold
  BY <1>1, <1>2, <1>8 DEF Told, NvdTold, Stale
<1> QED BY <1>3, <1>6, <1>9, <1>10 DEF FeedInv

\* Every step keeps the invariant.
LEMMA FeedStep == FeedInv /\ [FeedNext]_feedVars => FeedInv'
<1> SUFFICES ASSUME FeedInv, [FeedNext]_feedVars PROVE FeedInv'
  OBVIOUS
<1>1. CASE UNCHANGED feedVars
  <2>1. Watermark' = Watermark /\ Revisions' = Revisions
    BY <1>1 DEF feedVars, Watermark, Revisions
  <2>2. FeedTypeOK' /\ Behind' /\ Rows' /\ Marks' /\ NoRevisionMissed'
    BY <1>1, <2>1 DEF feedVars, FeedInv, FeedTypeOK, Behind, Rows, Marks, NoRevisionMissed, Pulling
  <2>3. Pulled' /\ Told' /\ NvdTold'
    BY <1>1, <2>1 DEF feedVars, FeedInv, Pulled, Told, NvdTold, Pulling, Stale, Awaited
  <2> QED BY <2>2, <2>3 DEF FeedInv
<1> QED BY <1>1, PagesKeep, ScoreBatchKeeps, NvdWindowKeeps, SyncEpssKeeps, SyncKevKeeps, EndingKeeps,
           InterruptKeeps, WalkKeeps, WalkDoneKeeps, SourcesKeep DEF FeedNext

\* The invariant holds of every behaviour.
LEMMA FeedInvariant == FeedSpec => []FeedInv
BY FeedStart, FeedStep, PTL DEF FeedSpec

\* The corpus, the runs and what the tenants show keep their types.
THEOREM FeedTypeCorrect == FeedSpec => []FeedTypeOK
BY FeedInvariant, PTL DEF FeedInv

\* What explains a tenant that was not told.
LEMMA Explained == FeedInv => UntoldIsExplained
<1> SUFFICES ASSUME FeedInv, NEW o \in Tenants, NEW c \in Cves
             PROVE  LET Pending(f) == \/ c \in job[f].touched /\ (job[f].step = "pulling" \/ o \in job[f].tenants)
                                      \/ <<f, c>> \in interrupted
                        shown == finding[o][c]
                    IN  /\ shown.revision # corpus[c].revision
                             => \/ Pending("nvd") \/ corpus[c].refused >= corpus[c].revision
                                \/ corpus[c].revision >= Watermark \/ modified[c] > Watermark
                        /\ shown.revision # 0 /\ shown.score = 0 /\ corpus[c].score # 0 => Pending("epss") \/ Pending("nvd")
                        /\ shown.revision # 0 /\ shown.kev # corpus[c].kev => Pending("kev") \/ Pending("nvd")
  BY DEF UntoldIsExplained
<1>1. /\ finding[o][c].revision # corpus[c].revision => Stale("nvd", o, c)
      /\ finding[o][c].revision # 0 /\ finding[o][c].score = 0 /\ corpus[c].score # 0 => Stale("epss", o, c)
      /\ finding[o][c].revision # 0 /\ finding[o][c].kev # corpus[c].kev => Stale("kev", o, c)
  BY DEF Stale
<1>2. /\ Stale("epss", o, c) => Awaited("epss", o, c)
      /\ Stale("kev", o, c) => Awaited("kev", o, c)
  BY DEF FeedInv, Told, Feeds
<1>3. Stale("nvd", o, c) => \/ Awaited("nvd", o, c) \/ corpus[c].refused >= corpus[c].revision
                            \/ corpus[c].revision >= Watermark \/ modified[c] > Watermark
  BY DEF FeedInv, NvdTold
<1> QED BY <1>1, <1>2, <1>3 DEF Awaited

\* No step takes a flag or a score back.
LEMMA Urgent == FeedInv /\ [FeedNext]_feedVars => UrgencyIsKept
<1> SUFFICES ASSUME FeedInv, [FeedNext]_feedVars, NEW c \in Cves
             PROVE  (corpus[c].kev => corpus'[c].kev) /\ (corpus[c].score # 0 => corpus'[c].score # 0)
  BY DEF UrgencyIsKept
<1>1. corpus \in [Cves -> Cve] /\ corpus[c] \in Cve
  BY DEF FeedInv, FeedTypeOK
<1>2. ASSUME NEW d \in Cves, NEW row, corpus' = [corpus EXCEPT ![d] = row],
             row.kev = corpus[d].kev, corpus[d].score # 0 => row.score # 0
      PROVE  (corpus[c].kev => corpus'[c].kev) /\ (corpus[c].score # 0 => corpus'[c].score # 0)
  BY <1>1, <1>2
<1>3. ASSUME NEW d \in Cves, UpsertCve(d) \/ RejectCve(d) \/ LeftWindow(d)
      PROVE  (corpus[c].kev => corpus'[c].kev) /\ (corpus[c].score # 0 => corpus'[c].score # 0)
  <2>1. corpus[d] \in Cve
    BY <1>1
  <2> DEFINE pulled == [corpus[d] EXCEPT !.known = TRUE, !.revision = modified[d]]
             refused == [corpus[d] EXCEPT !.refused = modified[d]]
  <2>2. pulled.kev = corpus[d].kev /\ pulled.score = corpus[d].score
    BY <2>1 DEF Cve
  <2>3. refused.kev = corpus[d].kev /\ refused.score = corpus[d].score
    BY <2>1 DEF Cve
  <2>4. \E row \in {pulled, refused, corpus[d]} : corpus' = [corpus EXCEPT ![d] = row]
    BY <1>3 DEF UpsertCve, RejectCve, LeftWindow, PullCommit
  <2> HIDE DEF pulled, refused
  <2> QED BY <1>2, <2>2, <2>3, <2>4
<1>4. ASSUME NEW d \in Cves, ScoreBatch(d)
      PROVE  (corpus[c].kev => corpus'[c].kev) /\ (corpus[c].score # 0 => corpus'[c].score # 0)
  <2> DEFINE new == [corpus[d] EXCEPT !.score = job["epss"].end]
  <2>1. corpus[d] \in Cve /\ job["epss"].end \in Nat /\ job["epss"].end > 0
    BY <1>1, <1>4 DEF ScoreBatch, FeedInv, FeedTypeOK, Rows, Pulling, Job, Feeds
  <2>2. new.kev = corpus[d].kev /\ new.score = job["epss"].end /\ new.score # 0
    BY <2>1 DEF Cve
  <2>3. corpus' = [corpus EXCEPT ![d] = new] \/ corpus' = [corpus EXCEPT ![d] = corpus[d]]
    BY <1>4 DEF ScoreBatch, PullCommit
  <2> HIDE DEF new
  <2> QED BY <1>2, <2>2, <2>3
<1>5. CASE SyncKev
  BY <1>1, <1>5 DEF SyncKev, Cve
<1>6. CASE UNCHANGED corpus
  BY <1>6
<1> QED BY <1>3, <1>4, <1>5, <1>6
     DEF FeedNext, feedVars, NvdWindow, SyncEpss, Begin, ScoreDay, Revise, ListExploited, FeedRunEnds, FailRun, Die,
         Interrupt, WalkDone, RescoreForCves, CorrelateNewCves

\* Whatever fails or dies between the commits of the feeds, no revision up to the
\* watermark is missed, a tenant that was not told is about to be or an interrupted walk
\* says why, and the flag and the score of a CVE are never taken back
\* (services/intelligence.py, services/intel_pipeline.py).
THEOREM IntelligenceKept == FeedSpec => IntelligenceIsKept
<1>1. FeedInv => NoRevisionMissed /\ UntoldIsExplained
  BY Explained DEF FeedInv
<1> QED BY FeedInvariant, <1>1, Urgent, PTL DEF FeedSpec, IntelligenceIsKept

(***************************************************************************)
(* The settings.                                                           *)
(***************************************************************************)

\* What a section may hold, and what a directory that is switched on needs.
Fits(s, v) ==
  /\ s \in Switches => v \in BOOLEAN
  /\ s \in Directories => v \in Directory /\ (v.enabled => v.complete)
  /\ s \in {"radius", "oidc"} => (v.enabled => v.secret)
  /\ s = "digest" => v \in Digest

Fit(d) == DOMAIN d = Sections /\ \A s \in Sections : Fits(s, d[s])

\* A section that is not contended is the same in every copy that is held.
Undisputed(d) == \A s \in Sections \ contended : d[s] = told[s]

\* The digest process loaded a document by which the digest was due.
WasDue ==
  LET last == tick.seen["digest"].last
  IN  tick.loaded => last = Never \/ hours - last >= GuardHours

\* The inductive invariant: whoever holds a copy holds every undisputed section.
SettingsInv ==
  /\ Fit(settings) /\ Fit(told) /\ Undisputed(settings)
  /\ DOMAIN request = Requests
  /\ \A r \in Requests : request[r].loaded \in BOOLEAN /\ Fit(request[r].seen)
                         /\ (request[r].loaded => Undisputed(request[r].seen))
  /\ tick.loaded \in BOOLEAN /\ Fit(tick.seen) /\ (tick.loaded => Undisputed(tick.seen))
  /\ hours \in 0 .. MaxHours /\ writes \in 0 .. MaxWrites /\ contended \subseteq Sections
  /\ WasDue

\* The sections, and which of them is what.
LEMMA SectionNames ==
  /\ \A s \in Sections : s \in Switches \/ s \in Directories \/ s = "digest"
  /\ Switches \subseteq Sections /\ Directories \subseteq Sections /\ "digest" \in Sections
  /\ Switches \cap Directories = {} /\ "digest" \notin Switches \cup Directories
  /\ "radius" \in Directories /\ "oidc" \in Directories /\ "ldap" \in Directories
BY DEF Sections, Switches, Directories

\* A document that fits is a document, and its directories are complete.
LEMMA FitDocuments ==
  ASSUME NEW d, Fit(d)
  PROVE  /\ Document(d)
         /\ \A s \in Directories : d[s].enabled => d[s].complete
         /\ \A s \in {"radius", "oidc"} : d[s].enabled => d[s].secret
BY SectionNames DEF Fit, Fits, Document

\* The document a tenant starts with fits.
LEMMA ShippedFits == Fit(Shipped) /\ Shipped["digest"].last = Never
BY OrgSettingsAssumption DEF Fit, Fits, Shipped, Sections, Switches, Directories, Directory, Digest, Never

\* A document with one section replaced.
LEMMA SavedFits ==
  ASSUME NEW d, NEW s \in Sections, NEW v, Fit(d), Fits(s, v)
  PROVE  Fit(Saved(d, s, v)) /\ Saved(d, s, v)[s] = v
         /\ \A x \in Sections \ {s} : Saved(d, s, v)[x] = d[x]
BY DEF Fit, Saved

\* The section written is what it was given; the others are the writer's copy of
\* them, and a section only that copy knows otherwise was contended.
LEMMA WriteKeeps ==
  ASSUME SettingsInv, NEW copy, Fit(copy), Undisputed(copy), NEW s \in Sections, NEW v, Fits(s, v),
         NEW others \in BOOLEAN, Write(copy, s, v, others),
         DOMAIN request' = Requests,
         \A r \in Requests : request'[r] = Idle \/ (request'[r] = request[r] /\ (request[r].loaded => others)),
         tick' = Idle \/ (tick' = tick /\ (tick.loaded => others))
  PROVE  SettingsInv'
<1>1. /\ settings' = Saved(copy, s, v) /\ told' = Saved(told, s, v)
      /\ contended' = IF others THEN contended \cup {s} ELSE contended \ {s}
      /\ writes' = writes + 1 /\ writes < MaxWrites /\ hours' = hours
  BY DEF Write, Saved
<1>2. /\ Fit(settings') /\ Fit(told')
      /\ settings'[s] = v /\ told'[s] = v
      /\ \A x \in Sections \ {s} : settings'[x] = copy[x] /\ told'[x] = told[x]
  BY <1>1, SavedFits DEF SettingsInv
<1>3. Undisputed(settings)'
  BY <1>1, <1>2 DEF Undisputed
<1>4. ASSUME NEW d, Undisputed(d), others
      PROVE  \A x \in Sections \ contended' : d[x] = told'[x]
  BY <1>1, <1>2, <1>4 DEF Undisputed
<1>5. Idle.loaded = FALSE /\ Fit(Idle.seen)
  BY ShippedFits DEF Idle
<1> DEFINE Held(d) == \A x \in Sections \ contended' : d[x] = told'[x]
<1>6. ASSUME NEW r \in Requests
      PROVE  /\ request'[r].loaded \in BOOLEAN /\ Fit(request'[r].seen)
             /\ request'[r].loaded => Held(request'[r].seen)
  <2>1. CASE request'[r] = Idle
    BY <1>5, <2>1
  <2>2. CASE request'[r] = request[r] /\ (request[r].loaded => others)
    <3>1. request[r].loaded \in BOOLEAN /\ Fit(request[r].seen)
      BY DEF SettingsInv
    <3>2. ASSUME request[r].loaded PROVE Held(request[r].seen)
      <4>1. Undisputed(request[r].seen) /\ others
        BY <2>2, <3>2 DEF SettingsInv
      <4> QED BY <1>4, <4>1
    <3> HIDE DEF Held
    <3> QED BY <2>2, <3>1, <3>2
  <2> QED BY <2>1, <2>2
<1>7. /\ tick'.loaded \in BOOLEAN /\ Fit(tick'.seen)
      /\ tick'.loaded => Held(tick'.seen)
  <2>1. CASE tick' = Idle
    BY <1>5, <2>1
  <2>2. CASE tick' = tick /\ (tick.loaded => others)
    <3>1. tick.loaded \in BOOLEAN /\ Fit(tick.seen)
      BY DEF SettingsInv
    <3>2. ASSUME tick.loaded PROVE Held(tick.seen)
      <4>1. Undisputed(tick.seen) /\ others
        BY <2>2, <3>2 DEF SettingsInv
      <4> QED BY <1>4, <4>1
    <3> HIDE DEF Held
    <3> QED BY <2>2, <3>1, <3>2
  <2> QED BY <2>1, <2>2
<1>8. writes' \in 0 .. MaxWrites /\ hours' \in 0 .. MaxHours /\ contended' \subseteq Sections
  BY <1>1, OrgSettingsAssumption DEF SettingsInv
<1>9. WasDue'
  BY <1>1, <1>5 DEF SettingsInv, WasDue
<1> QED BY <1>2, <1>3, <1>6, <1>7, <1>8, <1>9 DEF SettingsInv, Fit, Undisputed

\* A request writes what it loaded, with one section replaced.
LEMMA SaveKeeps ==
  ASSUME SettingsInv, NEW r \in Requests, NEW s \in Sections, NEW v, Fits(s, v), Save(r, s, v)
  PROVE  SettingsInv'
<1> DEFINE others == tick.loaded \/ \E q \in Requests \ {r} : request[q].loaded
<1>1. others \in BOOLEAN /\ (tick.loaded => others) /\ (\A q \in Requests \ {r} : request[q].loaded => others)
  BY DEF SettingsInv
<1>2. /\ Write(request[r].seen, s, v, others) /\ request[r].loaded
      /\ request' = [request EXCEPT ![r] = Idle] /\ tick' = tick
  BY DEF Save
<1> HIDE DEF others
<1>3. /\ DOMAIN request' = Requests /\ request'[r] = Idle
      /\ \A q \in Requests \ {r} : request'[q] = request[q]
  BY <1>2 DEF SettingsInv
<1>4. Fit(request[r].seen) /\ Undisputed(request[r].seen)
  BY <1>2 DEF SettingsInv
<1> QED BY <1>1, <1>2, <1>3, <1>4, WriteKeeps

\* A form laid over a directory, once validate has accepted it.
LEMMA DirectoryFits ==
  ASSUME SettingsInv, NEW r \in Requests, NEW s \in Directories,
         NEW on \in BOOLEAN, NEW complete \in BOOLEAN, NEW secret \in BOOLEAN
  PROVE  LET new == Merged(request[r].seen[s], on, complete, secret)
         IN  /\ new = [enabled |-> on, complete |-> complete, secret |-> secret \/ request[r].seen[s].secret]
             /\ new \in Directory
<1>1. request[r].seen[s].secret \in BOOLEAN
  BY SectionNames DEF SettingsInv, Fit, Fits, Directory
<1> QED BY <1>1 DEF Merged, Directory

\* What the digest and its policy write of their section.
LEMMA DigestFits ==
  ASSUME SettingsInv, NEW r \in Requests
  PROVE  /\ \A on \in BOOLEAN, h \in 0 .. DayHours - 1 :
              Fits("digest", [request[r].seen["digest"] EXCEPT !.enabled = on, !.hour = h])
         /\ Fits("digest", Marked(request[r].seen)) /\ Fits("digest", Marked(tick.seen))
<1>1. request[r].seen["digest"] \in Digest /\ tick.seen["digest"] \in Digest
  BY SectionNames DEF SettingsInv, Fit, Fits
<1>2. hours \in Int
  BY OrgSettingsAssumption DEF SettingsInv
<1>3. \A d \in Digest : [d EXCEPT !.last = hours] \in Digest
  BY <1>2 DEF Digest
<1>4. \A d \in Digest, on \in BOOLEAN, h \in 0 .. DayHours - 1 : [d EXCEPT !.enabled = on, !.hour = h] \in Digest
  BY DEF Digest
<1>5. "digest" \notin Switches /\ "digest" \notin Directories
  BY SectionNames
<1>6. \A v \in Digest : Fits("digest", v)
  BY <1>5 DEF Fits
<1> QED BY <1>1, <1>3, <1>4, <1>6 DEF Marked

\* Every form of the console.
LEMMA RequestKeeps ==
  ASSUME SettingsInv, NEW r \in Requests,
         \/ SetScanning(r) \/ SetMode(r) \/ SetRiskRegister(r) \/ SetSchedule(r) \/ SetAutoticket(r)
         \/ SetPolicy(r) \/ SetLdap(r) \/ SetRadius(r) \/ SetOidc(r) \/ DigestSend(r)
  PROVE  SettingsInv'
<1>1. CASE SetScanning(r) \/ SetMode(r) \/ SetRiskRegister(r) \/ SetSchedule(r) \/ SetAutoticket(r)
  <2>1. ASSUME NEW s \in Switches, NEW on \in BOOLEAN, Save(r, s, on)
        PROVE  SettingsInv'
    <3>1. s \in Sections /\ Fits(s, on)
      BY SectionNames DEF Fits
    <3> QED BY <2>1, <3>1, SaveKeeps
  <2> QED BY <1>1, <2>1 DEF SetScanning, SetMode, SetRiskRegister, SetSchedule, SetAutoticket, Switches
<1>2. CASE SetPolicy(r) \/ DigestSend(r)
  BY <1>2, DigestFits, SaveKeeps, SectionNames DEF SetPolicy, DigestSend
<1>3. CASE SetLdap(r)
  <2>1. PICK on \in BOOLEAN, complete \in BOOLEAN, clear \in BOOLEAN, secret \in BOOLEAN :
          LET new == Merged(request[r].seen["ldap"], on, complete, secret)
          IN  LdapAccepts(new) /\ Save(r, "ldap", [new EXCEPT !.secret = @ /\ ~clear])
    BY <1>3 DEF SetLdap
  <2> DEFINE new == Merged(request[r].seen["ldap"], on, complete, secret)
             cleared == [new EXCEPT !.secret = @ /\ ~clear]
  <2>2. new \in Directory /\ (new.enabled => new.complete)
    BY <2>1, DirectoryFits, SectionNames DEF LdapAccepts
  <2>3. Save(r, "ldap", cleared)
    BY <2>1
  <2> HIDE DEF new
  <2>4. cleared \in Directory /\ cleared.enabled = new.enabled /\ cleared.complete = new.complete
    BY <2>2 DEF Directory
  <2> HIDE DEF cleared
  <2>5. Fits("ldap", cleared)
    BY <2>2, <2>4, SectionNames DEF Fits
  <2> QED BY <2>3, <2>5, SaveKeeps, SectionNames
<1>4. CASE SetRadius(r) \/ SetOidc(r)
  <2>1. ASSUME NEW s \in {"radius", "oidc"}, NEW on \in BOOLEAN, NEW complete \in BOOLEAN, NEW secret \in BOOLEAN,
               LET new == Merged(request[r].seen[s], on, complete, secret)
               IN  (new.enabled => new.complete /\ new.secret) /\ Save(r, s, new)
        PROVE  SettingsInv'
    <3> DEFINE new == Merged(request[r].seen[s], on, complete, secret)
    <3>1. s \in Directories /\ s \in Sections /\ s \notin Switches /\ s # "digest"
      BY SectionNames
    <3>2. new \in Directory /\ (new.enabled => new.complete /\ new.secret) /\ Save(r, s, new)
      BY <2>1, <3>1, DirectoryFits
    <3> HIDE DEF new
    <3>3. Fits(s, new)
      BY <3>1, <3>2 DEF Fits
    <3> QED BY <3>1, <3>2, <3>3, SaveKeeps
  <2> QED BY <1>4, <2>1 DEF SetRadius, SetOidc, RadiusAccepts, OidcAccepts
<1> QED BY <1>1, <1>2, <1>3, <1>4

\* The digest process and the clock.
LEMMA DigestKeeps ==
  ASSUME SettingsInv, RunCli \/ MarkRun \/ DieDigest \/ Hour
  PROVE  SettingsInv'
<1>1. Idle.loaded = FALSE /\ Fit(Idle.seen)
  BY ShippedFits DEF Idle
<1>2. hours \in Nat /\ MaxHours \in Nat /\ GuardHours \in Nat
  BY OrgSettingsAssumption DEF SettingsInv
<1>3. CASE RunCli
  <2>1. tick' = [loaded |-> TRUE, seen |-> settings] /\ DueNow(settings["digest"])
        /\ UNCHANGED <<settings, request, hours, writes, told, contended>>
    BY <1>3 DEF RunCli
  <2>2. tick'.loaded = TRUE /\ tick'.seen = settings
    BY <2>1
  <2>3. WasDue'
    BY <2>1, <2>2 DEF WasDue, DueNow
  <2> QED BY <2>1, <2>2, <2>3 DEF SettingsInv, Undisputed
<1>4. CASE MarkRun
  <2> DEFINE others == \E r \in Requests : request[r].loaded
  <2>1. others \in BOOLEAN /\ \A r \in Requests : request[r].loaded => others
    BY DEF SettingsInv
  <2>2. /\ Write(tick.seen, "digest", Marked(tick.seen), others) /\ tick.loaded
        /\ tick' = Idle /\ request' = request
    BY <1>4 DEF MarkRun
  <2> HIDE DEF others
  <2>3. Fits("digest", Marked(tick.seen))
    <3>1. tick.seen["digest"] \in Digest
      BY SectionNames DEF SettingsInv, Fit, Fits
    <3>2. Marked(tick.seen) \in Digest
      BY <1>2, <3>1 DEF Marked, Digest
    <3> QED BY <3>2, SectionNames DEF Fits
  <2>4. Fit(tick.seen) /\ Undisputed(tick.seen)
    BY <2>2 DEF SettingsInv
  <2> QED BY <2>1, <2>2, <2>3, <2>4, WriteKeeps, SectionNames DEF SettingsInv
<1>5. CASE DieDigest
  BY <1>1, <1>5 DEF DieDigest, SettingsInv, Undisputed, WasDue
<1>6. CASE Hour
  <2>1. hours' = hours + 1 /\ hours' \in 0 .. MaxHours
    BY <1>2, <1>6 DEF Hour
  <2>2. UNCHANGED <<settings, request, tick, writes, told, contended>>
    BY <1>6 DEF Hour
  <2>3. WasDue'
    <3>1. tick.seen["digest"].last \in Int
      BY SectionNames DEF SettingsInv, Fit, Fits, Digest
    <3> QED BY <1>2, <2>1, <2>2, <3>1 DEF SettingsInv, WasDue
  <2> QED BY <2>1, <2>2, <2>3 DEF SettingsInv, Undisputed
<1> QED BY <1>3, <1>4, <1>5, <1>6

\* Every step keeps the invariant.
LEMMA SettingsStep == SettingsInv /\ [SettingsNext]_settingsVars => SettingsInv'
<1> SUFFICES ASSUME SettingsInv, [SettingsNext]_settingsVars PROVE SettingsInv'
  OBVIOUS
<1>1. ASSUME NEW r \in Requests, Load(r) \/ Refuse(r)
      PROVE  SettingsInv'
  <2> DEFINE p == request'[r]
  <2>1. /\ UNCHANGED <<settings, tick, hours, writes, told, contended>>
        /\ DOMAIN request' = Requests /\ \A q \in Requests \ {r} : request'[q] = request[q]
    BY <1>1 DEF Load, Refuse, SettingsInv
  <2>2. p.loaded \in BOOLEAN /\ Fit(p.seen) /\ (p.loaded => Undisputed(p.seen))
    <3>1. CASE Load(r)
      <4>1. p = [loaded |-> TRUE, seen |-> settings]
        BY <3>1 DEF Load, SettingsInv
      <4> HIDE DEF p
      <4>2. p.loaded = TRUE /\ p.seen = settings
        BY <4>1
      <4> QED BY <4>2 DEF SettingsInv
    <3>2. CASE Refuse(r)
      <4>1. p = Idle
        BY <3>2 DEF Refuse, SettingsInv
      <4> HIDE DEF p
      <4>2. p.loaded = FALSE /\ p.seen = Shipped
        BY <4>1 DEF Idle
      <4> QED BY <4>2, ShippedFits
    <3> QED BY <1>1, <3>1, <3>2
  <2> HIDE DEF p
  <2>3. \A q \in Requests : request'[q].loaded \in BOOLEAN /\ Fit(request'[q].seen)
                            /\ (request'[q].loaded => Undisputed(request'[q].seen))
    BY <2>1, <2>2 DEF p, SettingsInv
  <2> QED BY <2>1, <2>3 DEF SettingsInv, Undisputed, WasDue
<1>2. CASE UNCHANGED settingsVars
  BY <1>2 DEF settingsVars, SettingsInv, Undisputed, WasDue
<1> QED BY <1>1, <1>2, RequestKeeps, DigestKeeps DEF SettingsNext

\* The invariant holds at the start.
LEMMA SettingsStart == SettingsInit => SettingsInv
<1> SUFFICES ASSUME SettingsInit PROVE SettingsInv
  OBVIOUS
<1>1. Idle.loaded = FALSE /\ Idle.seen = Shipped
  BY DEF Idle
<1>2. 0 \in 0 .. MaxHours /\ 0 \in 0 .. MaxWrites
  BY OrgSettingsAssumption
<1> QED BY <1>1, <1>2, ShippedFits DEF SettingsInit, SettingsInv, Undisputed, WasDue

\* The invariant holds of every behaviour.
LEMMA SettingsInvariant == SettingsSpec => []SettingsInv
BY SettingsStart, SettingsStep, PTL DEF SettingsSpec

\* The document, its copies and the clock keep their types.
THEOREM SettingsTypeCorrect == SettingsSpec => []SettingsTypeOK
<1>1. SettingsInv => SettingsTypeOK
  BY FitDocuments DEF SettingsInv, SettingsTypeOK
<1> QED BY SettingsInvariant, <1>1, PTL

\* The timer's commit comes a day's guard after the last digest, unless the mark was
\* put back meanwhile.
LEMMA CommitsOnce ==
  ASSUME SettingsInv, [SettingsNext]_settingsVars
  PROVE  DigestOnce
<1> SUFFICES ASSUME tick.loaded, ~tick'.loaded, writes' # writes, "digest" \notin contended
             PROVE  told["digest"].last = Never \/ hours - told["digest"].last >= GuardHours
  BY DEF DigestOnce
<1>1. tick.seen["digest"] = told["digest"]
  BY SectionNames DEF SettingsInv, Undisputed
<1> QED BY <1>1 DEF SettingsInv, WasDue

\* A section is lost only to a writer that overlapped its last one, a directory that is
\* switched on is complete, and a restarted timer sends no second digest
\* (models/tenancy.Organization.settings).
THEOREM SettingsKept == SettingsSpec => SettingsAreKept
<1>1. SettingsInv => LostOnlyToOverlap /\ EnabledIsComplete
  BY FitDocuments DEF SettingsInv, Undisputed, LostOnlyToOverlap, EnabledIsComplete
<1>2. SettingsInv' => (LostOnlyToOverlap /\ EnabledIsComplete)'
  BY FitDocuments DEF SettingsInv, Undisputed, LostOnlyToOverlap, EnabledIsComplete
<1>3. SettingsInv /\ SettingsInv' /\ [SettingsNext]_settingsVars =>
        [(LostOnlyToOverlap /\ EnabledIsComplete)' /\ DigestOnce]_settingsVars
  BY <1>2, CommitsOnce
<1> QED BY SettingsInvariant, <1>3, PTL DEF SettingsSpec, SettingsAreKept
=============================================================================
