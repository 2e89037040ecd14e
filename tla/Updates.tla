------------------------------- MODULE Updates -------------------------------
(***************************************************************************)
(* The in-product upgrade: the API's check, its uploads in chunks and its   *)
(* request file (services/updates, api/v1/updates), and the root updater    *)
(* that takes one request after the other (scripts/veyrs-updater.sh).       *)
(*                                                                          *)
(* The API has four worker processes that share nothing but the disk; the   *)
(* updater runs under a file lock and may be killed between two steps, in   *)
(* which case the request stays in the spool and is taken again.            *)
(***************************************************************************)
EXTENDS Integers, FiniteSets, Sequences

CONSTANTS
  Operators,     \* platform administrators that ask for an update
  Workers,       \* API processes that receive chunks
  Uploads,       \* identifiers of uploads
  Newest,        \* releases are 0 .. Newest; 0 is installed at the start
  Chunks,        \* chunks of a release's tarball
  Hosts          \* the kinds of installation considered

ASSUME UpdatesAssumption ==
  /\ Newest \in Nat /\ Chunks \in Nat \ {0} /\ Uploads # {}
  /\ \A h \in Hosts : h.asks \in Nat /\ h.kills \in Nat /\ h.uploads \in 0 .. Newest

VARIABLES
  host,      \* its mode, how backups are arranged, which releases carry a signature;
             \* bounds: updates asked for, kills of the updater, and the newest release
             \* that is uploaded (0: the copies were uploaded before)
  site,      \* the installed tree and the release the API runs
  backups,   \* what the pre-update hook saved
  upstream,  \* the latest published release
  check,     \* the cached answer about it; 0 if the check failed or never ran
  asking,    \* an apply request of each operator
  trail,     \* audit records of requested updates
  spool,     \* request files
  updater,   \* the privileged run
  kills,
  staging,   \* uploads that are not finished
  sending,   \* the upload request each worker handles
  shelf      \* finished uploads: the chunks of each release's tarball

updatesVars == <<host, site, backups, upstream, check, asking, trail, spool, updater,
                 kills, staging, sending, shelf>>

Releases == 0 .. Newest
Sources == {"release", "upload"}
Tarball == Seq(1 .. Chunks)
Whole == [i \in 1 .. Chunks |-> i]
NoFile == <<>>

Request == [id : Nat, target : Releases, source : Sources]
NoRequest == [id |-> 0, target |-> 0, source |-> "release"]

Steps == {"idle", "request", "preflight", "download", "verify", "backup", "install", "health"}
IdleUpdater == [step |-> "idle", request |-> NoRequest, work |-> NoFile]
IdleAsking == [step |-> "idle", request |-> NoRequest]
IdleSending == [step |-> "idle", upload |-> CHOOSE u \in Uploads : TRUE, chunk |-> 1]
NoUpload == [version |-> 0, bytes |-> NoFile]

\* backup_configured
BackupConfigured == host.backup # "none"

-----------------------------------------------------------------------------
(* The API asks. *)

Publish ==
  /\ host.uploads = 0 /\ upstream < Newest
  /\ upstream' = upstream + 1
  /\ UNCHANGED <<host, site, backups, check, asking, trail, spool, updater, kills,
                 staging, sending, shelf>>

\* latest_release, when its entry has expired or a refresh is asked for: the
\* answer, or the failure, replaces the entry.
LatestRelease(ok) ==
  /\ check' = IF ok THEN upstream ELSE 0
  /\ UNCHANGED <<host, site, backups, upstream, asking, trail, spool, updater, kills,
                 staging, sending, shelf>>

\* _can_apply
CanApply ==
  /\ host.mode = "native"
  /\ check > site.running
  /\ check \in host.signed
  /\ BackupConfigured
  /\ spool = {}

\* _can_apply_local, whose verification is the API's own.
CanApplyLocal(v) ==
  /\ host.mode = "native"
  /\ v > site.running
  /\ shelf[v] = Whole /\ v \in host.signed
  /\ BackupConfigured
  /\ spool = {}

\* apply_update: status
ApplyUpdate(o, source, v) ==
  /\ asking[o].step = "idle" /\ Cardinality(trail) < host.asks
  /\ source = "release" => CanApply /\ v = check
  /\ source = "upload" => CanApplyLocal(v)
  /\ asking' = [asking EXCEPT ![o] =
       [step |-> "checked", request |-> [id |-> 0, target |-> v, source |-> source]]]
  /\ UNCHANGED <<host, site, backups, upstream, check, trail, spool, updater, kills,
                 staging, sending, shelf>>

\* apply_update: audit.record and commit
Audit(o) ==
  /\ asking[o].step = "checked"
  /\ LET id == Cardinality(trail) + 1
     IN  /\ trail' = trail \cup {id}
         /\ asking' = [asking EXCEPT ![o] =
              [step |-> "audited", request |-> [@.request EXCEPT !.id = id]]]
  /\ UNCHANGED <<host, site, backups, upstream, check, spool, updater, kills,
                 staging, sending, shelf>>

\* request_apply looks for pending requests, and refuses.
SeePending(o) ==
  /\ asking[o].step = "audited"
  /\ asking' = [asking EXCEPT ![o] =
       IF spool = {} THEN [@ EXCEPT !.step = "unopposed"] ELSE IdleAsking]
  /\ UNCHANGED <<host, site, backups, upstream, check, trail, spool, updater, kills,
                 staging, sending, shelf>>

\* request_apply renames the finished file into place.
WriteRequest(o) ==
  /\ asking[o].step = "unopposed"
  /\ spool' = spool \cup {asking[o].request}
  /\ asking' = [asking EXCEPT ![o] = IdleAsking]
  /\ UNCHANGED <<host, site, backups, upstream, check, trail, updater, kills,
                 staging, sending, shelf>>

-----------------------------------------------------------------------------
(* Uploads. *)

\* upload_start, which also removes the abandoned ones.
UploadStart(u, v, stale) ==
  /\ staging[u] = NoUpload /\ u \notin stale
  /\ staging' = [x \in Uploads |-> IF x = u THEN [version |-> v, bytes |-> NoFile]
                                   ELSE IF x \in stale THEN NoUpload ELSE staging[x]]
  /\ UNCHANGED <<host, site, backups, upstream, check, asking, trail, spool, updater,
                 kills, sending, shelf>>

\* upload_chunk compares the offset with the bytes on disk ...
UploadChunk(w, u, chunk) ==
  /\ sending[w].step = "idle" /\ staging[u] # NoUpload
  /\ Len(staging[u].bytes) = chunk - 1
  /\ sending' = [sending EXCEPT ![w] = [step |-> "checked", upload |-> u, chunk |-> chunk]]
  /\ UNCHANGED <<host, site, backups, upstream, check, asking, trail, spool, updater,
                 kills, staging, shelf>>

\* ... and appends, if the directory is still there.
AppendChunk(w) ==
  LET u == sending[w].upload
  IN  /\ sending[w].step = "checked"
      /\ staging' = [staging EXCEPT ![u] =
           IF @ = NoUpload THEN @
           ELSE [version |-> @.version, bytes |-> Append(@.bytes, sending[w].chunk)]]
      /\ sending' = [sending EXCEPT ![w] = IdleSending]
      /\ UNCHANGED <<host, site, backups, upstream, check, asking, trail, spool, updater,
                     kills, shelf>>

\* upload_finish counts the bytes ...
UploadFinish(w, u) ==
  /\ sending[w].step = "idle" /\ staging[u] # NoUpload
  /\ Len(staging[u].bytes) = Chunks
  /\ sending' = [sending EXCEPT ![w] = [step |-> "counted", upload |-> u, chunk |-> 1]]
  /\ UNCHANGED <<host, site, backups, upstream, check, asking, trail, spool, updater,
                 kills, staging, shelf>>

\* ... moves an older copy away ...
RemoveOldCopy(w) ==
  LET v == staging[sending[w].upload].version
  IN  /\ sending[w].step = "counted" /\ v # 0
      /\ shelf' = [shelf EXCEPT ![v] = NoFile]
      /\ sending' = [sending EXCEPT ![w].step = "cleared"]
      /\ UNCHANGED <<host, site, backups, upstream, check, asking, trail, spool, updater,
                     kills, staging>>

\* ... and renames the upload into its place, which must still be free.
PlaceCopy(w) ==
  LET u == sending[w].upload
  IN  /\ sending[w].step = "cleared" /\ staging[u] # NoUpload
      /\ shelf[staging[u].version] = NoFile
      /\ shelf' = [shelf EXCEPT ![staging[u].version] = staging[u].bytes]
      /\ staging' = [staging EXCEPT ![u] = NoUpload]
      /\ sending' = [sending EXCEPT ![w] = IdleSending]
      /\ UNCHANGED <<host, site, backups, upstream, check, asking, trail, spool, updater, kills>>

\* A worker dies, or the file system refuses, at any point.
WorkerFails(w) ==
  /\ sending[w].step # "idle"
  /\ sending' = [sending EXCEPT ![w] = IdleSending]
  /\ UNCHANGED <<host, site, backups, upstream, check, asking, trail, spool, updater,
                 kills, staging, shelf>>

DeleteUpload(v) ==
  /\ shelf[v] # NoFile
  /\ shelf' = [shelf EXCEPT ![v] = NoFile]
  /\ UNCHANGED <<host, site, backups, upstream, check, asking, trail, spool, updater,
                 kills, staging, sending>>

-----------------------------------------------------------------------------
(* The updater. *)

Target == updater.request.target

\* It takes the first file by name, that is by the second it was asked in.
TakeRequest(r) ==
  /\ updater.step = "idle" /\ r \in spool
  /\ updater' = [IdleUpdater EXCEPT !.step = "request", !.request = r]
  /\ UNCHANGED <<host, site, backups, upstream, check, asking, trail, spool, kills,
                 staging, sending, shelf>>

\* A stage of its own for the signature, which recent_status has no name for.
Bug_Advance(step) ==
  /\ updater' = [updater EXCEPT !.step = IF step = "verify" THEN "signature" ELSE step]
  /\ UNCHANGED <<host, upstream, check, trail, spool, kills, staging, sending, shelf>>

Advance(step) ==
  /\ updater' = [updater EXCEPT !.step = step]
  /\ UNCHANGED <<host, upstream, check, trail, spool, kills, staging, sending, shelf>>

Preflight ==
  /\ updater.step = "request"
  /\ host.mode = "native" /\ BackupConfigured
  /\ Target > site.installed
  /\ updater' = [updater EXCEPT !.step = "preflight"]
  /\ UNCHANGED <<host, site, backups, upstream, check, asking, trail, spool, kills,
                 staging, sending, shelf>>

\* Everything after this step reads the copy.
Download ==
  /\ updater.step = "preflight" /\ Target \in host.signed
  /\ LET file == IF updater.request.source = "release" THEN Whole ELSE shelf[Target]
     IN  /\ file # NoFile
         /\ updater' = [updater EXCEPT !.step = "download", !.work = file]
  /\ UNCHANGED <<host, site, backups, upstream, check, asking, trail, spool, kills,
                 staging, sending, shelf>>

\* What the API verified is taken to be verified.
Bug_Verify == updater.step = "download" /\ UNCHANGED <<site, backups, asking>> /\ Advance("verify")

\* verify-release.sh: the hashes and their signature.
Verify ==
  /\ updater.step = "download"
  /\ updater.work = Whole
  /\ UNCHANGED <<site, backups, asking>>
  /\ Advance("verify")

Backup ==
  /\ updater.step = "verify"
  /\ backups' = IF host.backup = "hook"
                THEN backups \cup {[release |-> site.installed, whole |-> site.whole]}
                ELSE backups
  /\ UNCHANGED <<site, asking>>
  /\ Advance("backup")

\* veyrs-setup.sh replaces the tree, and with it what names its release ...
InstallBegin(named) ==
  /\ updater.step = "backup"
  /\ site' = [site EXCEPT !.installed = IF named THEN Target ELSE @, !.whole = FALSE,
                          !.content = updater.work]
  /\ UNCHANGED <<backups, asking>>
  /\ Advance("install")

\* ... migrates the database and restarts the API, whose requests are lost.
InstallEnd ==
  /\ updater.step = "install"
  /\ site' = [site EXCEPT !.whole = TRUE, !.installed = Target, !.running = Target]
  /\ asking' = [o \in Operators |-> IdleAsking]
  /\ UNCHANGED backups
  /\ Advance("health")

\* finish: the request is removed whatever the outcome.
Finish ==
  /\ updater.step # "idle"
  /\ spool' = spool \ {updater.request}
  /\ updater' = IdleUpdater
  /\ UNCHANGED <<host, site, backups, upstream, check, asking, trail, kills,
                 staging, sending, shelf>>

\* succeeded; any step may fail; a step whose guard does not hold is refused.
Succeed == updater.step = "health" /\ Finish
Stop == updater.step # "health" /\ Finish

\* SIGKILL or a power loss: on_exit does not run.
Kill ==
  /\ updater.step # "idle" /\ kills < host.kills
  /\ updater' = IdleUpdater
  /\ kills' = kills + 1
  /\ UNCHANGED <<host, site, backups, upstream, check, asking, trail, spool,
                 staging, sending, shelf>>

-----------------------------------------------------------------------------
UpdatesInit ==
  /\ host \in Hosts
  /\ site = [installed |-> 0, running |-> 0, whole |-> TRUE, content |-> Whole]
  /\ backups = {} /\ upstream = 0 /\ check = 0
  /\ asking = [o \in Operators |-> IdleAsking]
  /\ trail = {} /\ spool = {} /\ updater = IdleUpdater /\ kills = 0
  /\ staging = [u \in Uploads |-> NoUpload]
  /\ sending = [w \in Workers |-> IdleSending]
  /\ shelf \in {[v \in Releases |-> IF v \in V THEN Whole ELSE NoFile] :
                V \in IF host.uploads > 0 THEN {{}} ELSE {{}, {1}}}

ApiNext ==
  \/ Publish
  \/ \E ok \in BOOLEAN : LatestRelease(ok)
  \/ \E o \in Operators :
       \/ \E source \in Sources, v \in Releases : ApplyUpdate(o, source, v)
       \/ Audit(o) \/ SeePending(o) \/ WriteRequest(o)

UploadNext ==
  \/ \E u \in Uploads, v \in 1 .. host.uploads, stale \in SUBSET Uploads : UploadStart(u, v, stale)
  \/ \E w \in Workers :
       \/ \E u \in Uploads :
            UploadFinish(w, u) \/ \E chunk \in 1 .. Chunks : UploadChunk(w, u, chunk)
       \/ AppendChunk(w) \/ RemoveOldCopy(w) \/ PlaceCopy(w) \/ WorkerFails(w)
  \/ \E v \in Releases : DeleteUpload(v)

UpdaterNext ==
  \/ \E r \in spool : TakeRequest(r)
  \/ Preflight \/ Download \/ Verify \/ Backup \/ InstallEnd
  \/ \E named \in BOOLEAN : InstallBegin(named)
  \/ Succeed \/ Stop \/ Kill

UpdatesNext == ApiNext \/ UploadNext \/ UpdaterNext

UpdatesSpec == UpdatesInit /\ [][UpdatesNext]_updatesVars

-----------------------------------------------------------------------------
UpdatesTypeOK ==
  /\ host \in Hosts
  /\ site \in [installed : Releases, running : Releases, whole : BOOLEAN, content : Tarball]
  /\ backups \subseteq [release : Releases, whole : BOOLEAN]
  /\ upstream \in Releases /\ check \in Releases
  /\ asking \in [Operators -> [step : {"idle", "checked", "audited", "unopposed"},
                               request : Request]]
  /\ trail \subseteq Nat /\ spool \subseteq Request
  /\ updater \in [step : Steps, request : Request, work : Tarball]
  /\ kills \in Nat
  /\ staging \in [Uploads -> [version : Releases, bytes : Tarball]]
  /\ sending \in [Workers -> [step : {"idle", "checked", "counted", "cleared"},
                              upload : Uploads, chunk : 1 .. Chunks]]
  /\ shelf \in [Releases -> Tarball]

\* Every request the updater can take was recorded before, by whom and for what,
\* even if the API dies between the record and the file (apply_update, "an update
\* nobody can trace is the one outcome this ordering rules out").
UpdatesAreTraceable == \A r \in spool : r.id \in trail

\* Two administrators that both saw an empty spool, an older upload next to a
\* newer release, a request taken again after a kill: none installs an older
\* release over a newer one.
InstallsOnlyForward == site.installed' >= site.installed

\* What is installed is a whole, signed release, although chunks sent twice, two
\* uploads of one release and a copy replaced meanwhile leave anything on the shelf.
InstalledIsIntact == site.content = Whole /\ (site.installed = 0 \/ site.installed \in host.signed)

\* An install that stopped half way, even one begun over another that did, left a
\* backup of the whole tree the API still runs, unless there is no hook.
BrokenInstallHasBackup ==
  ~site.whole /\ host.backup = "hook"
    => \E b \in backups : b.whole /\ b.release = site.running

\* What an upgrade owes the host, whoever asks for it, twice, and wherever the
\* updater is killed (services/updates.py, scripts/veyrs-updater.sh).
UpgradesAreSafe ==
  [][/\ (UpdatesAreTraceable /\ InstalledIsIntact /\ BrokenInstallHasBackup)'
     /\ InstallsOnlyForward]_updatesVars
=============================================================================
