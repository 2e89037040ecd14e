-------------------------- MODULE OperationsProofs --------------------------
(***************************************************************************)
(* Theorems of the services that act on the host and on other systems:      *)
(* Updates, SecretStore, Outbox, ScannerSync, and of MCOperations that puts  *)
(* them side by side.                                                        *)
(***************************************************************************)
EXTENDS MCOperations, FiniteSetTheorems, SequenceTheorems, TLAPS

(***************************************************************************)
(* Proofs about Updates: every request can be traced, only a whole and      *)
(* signed release is installed, never an older one, and a broken install    *)
(* has a backup, wherever the updater is killed and whoever asks twice.     *)
(*                                                                           *)
(* The updater's position in its script says what it has established about  *)
(* its copy and its target (Progress); the tree that is not broken is the    *)
(* one the API runs, so the backup before the first install is of it         *)
(* (Backed); a request is recorded before it can be written (Traced).        *)
(***************************************************************************)

\* A request is recorded before its file is written.
Traced ==
  /\ IsFiniteSet(trail)
  /\ \A r \in spool : r.id \in trail
  /\ \A o \in Operators : asking[o].step \in {"audited", "unopposed"} => asking[o].request.id \in trail

\* What each step of the updater's script has established.
Progress ==
  /\ updater.step \in {"preflight", "download", "verify", "backup"} => Target > site.installed
  /\ updater.step = "install" => Target >= site.installed
  /\ updater.step \in {"download", "verify", "backup", "install"} => Target \in host.signed
  /\ updater.step \in {"verify", "backup", "install"} => updater.work = Whole
  /\ InstalledIsIntact

\* The backup the updater has taken, and the one a broken tree needs.
Backed ==
  /\ site.whole => site.installed = site.running
  /\ updater.step = "backup" /\ host.backup = "hook" /\ site.whole =>
       \E b \in backups : b.whole /\ b.release = site.installed
  /\ BrokenInstallHasBackup

UpdatesInv == UpdatesTypeOK /\ Traced /\ Progress /\ Backed

-----------------------------------------------------------------------------
LEMMA TypesOfConstants ==
  /\ Whole \in Tarball /\ NoFile \in Tarball
  /\ NoRequest \in Request
  /\ IdleUpdater \in [step : Steps, request : Request, work : Tarball]
  /\ IdleAsking \in [step : {"idle", "checked", "audited", "unopposed"}, request : Request]
  /\ IdleSending \in [step : {"idle", "checked", "counted", "cleared"}, upload : Uploads,
                      chunk : 1 .. Chunks]
  /\ NoUpload \in [version : Releases, bytes : Tarball]
<1>1. Whole \in Tarball
  BY UpdatesAssumption DEF Whole, Tarball
<1>2. NoFile \in Tarball
  BY DEF NoFile, Tarball
<1>3. (CHOOSE u \in Uploads : TRUE) \in Uploads
  BY UpdatesAssumption
<1> QED
  BY <1>1, <1>2, <1>3, UpdatesAssumption DEF NoRequest, Request, Releases, Sources, IdleUpdater, Steps,
     IdleAsking, IdleSending, NoUpload

\* A release appears upstream.
LEMMA PublishKeeps ==
  ASSUME UpdatesInv, Publish
  PROVE  UpdatesInv'
<1> USE DEF UpdatesInv, Publish
<1>1. UpdatesTypeOK'
  <2>1. upstream' \in Releases
    BY UpdatesAssumption DEF UpdatesTypeOK, Releases
  <2> QED BY <2>1 DEF UpdatesTypeOK
<1>2. Traced' /\ Progress' /\ Backed'
  BY DEF UpdatesTypeOK, Traced, Progress, Backed, InstalledIsIntact, BrokenInstallHasBackup, Target
<1> QED BY <1>1, <1>2

\* The cached answer is replaced.
LEMMA LatestReleaseKeeps ==
  ASSUME UpdatesInv, NEW ok \in BOOLEAN, LatestRelease(ok)
  PROVE  UpdatesInv'
<1> USE DEF UpdatesInv, LatestRelease
<1>1. UpdatesTypeOK'
  <2>1. check' \in Releases
    BY UpdatesAssumption DEF UpdatesTypeOK, Releases
  <2> QED BY <2>1 DEF UpdatesTypeOK
<1>2. Traced' /\ Progress' /\ Backed'
  BY DEF UpdatesTypeOK, Traced, Progress, Backed, InstalledIsIntact, BrokenInstallHasBackup, Target
<1> QED BY <1>1, <1>2

\* A request that is only checked has no identifier yet.
LEMMA ApplyUpdateKeeps ==
  ASSUME UpdatesInv, NEW o \in Operators, NEW source \in Sources, NEW v \in Releases, ApplyUpdate(o, source, v)
  PROVE  UpdatesInv'
<1> USE DEF UpdatesInv, ApplyUpdate
<1>1. UpdatesTypeOK'
  BY DEF UpdatesTypeOK, Request
<1>2. Traced'
  BY DEF UpdatesTypeOK, Traced
<1>3. Progress' /\ Backed'
  BY DEF UpdatesTypeOK, Traced, Progress, Backed, InstalledIsIntact, BrokenInstallHasBackup, Target
<1> QED BY <1>1, <1>2, <1>3

\* The record comes with the identifier.
LEMMA AuditKeeps ==
  ASSUME UpdatesInv, NEW o \in Operators, Audit(o)
  PROVE  UpdatesInv'
<1> USE DEF UpdatesInv, Audit
<1>1. Cardinality(trail) \in Nat
  BY FS_CardinalityType DEF Traced
<1>2. UpdatesTypeOK'
  <2>1. [asking[o].request EXCEPT !.id = Cardinality(trail) + 1] \in Request
    BY <1>1 DEF UpdatesTypeOK, Request
  <2> QED BY <1>1, <2>1 DEF UpdatesTypeOK
<1>3. Traced'
  <2> DEFINE id == Cardinality(trail) + 1
             asked == [step |-> "audited", request |-> [asking[o].request EXCEPT !.id = id]]
  <2>1. asked.request.id = id
    BY DEF UpdatesTypeOK, Request
  <2>2. asking' = [asking EXCEPT ![o] = asked] /\ trail' = trail \cup {id}
    OBVIOUS
  <2> HIDE DEF id, asked
  <2>3. IsFiniteSet(trail \cup {id})
    BY FS_AddElement DEF Traced
  <2> QED BY <2>1, <2>2, <2>3 DEF Traced, UpdatesTypeOK
<1>4. Progress' /\ Backed'
  BY DEF UpdatesTypeOK, Traced, Progress, Backed, InstalledIsIntact, BrokenInstallHasBackup, Target
<1> QED BY <1>1, <1>2, <1>3, <1>4

\* A request refused is forgotten.
LEMMA SeePendingKeeps ==
  ASSUME UpdatesInv, NEW o \in Operators, SeePending(o)
  PROVE  UpdatesInv'
<1> USE DEF UpdatesInv, SeePending
<1>1. UpdatesTypeOK'
  <2>1. asking[o].request \in Request
    BY DEF UpdatesTypeOK
  <2>2. [asking[o] EXCEPT !.step = "unopposed"] = [step |-> "unopposed", request |-> asking[o].request]
    BY DEF UpdatesTypeOK
  <2> QED BY <2>1, <2>2, TypesOfConstants DEF UpdatesTypeOK
<1>2. Traced'
  BY DEF UpdatesTypeOK, Traced, IdleAsking
<1>3. Progress' /\ Backed'
  BY DEF UpdatesTypeOK, Traced, Progress, Backed, InstalledIsIntact, BrokenInstallHasBackup, Target
<1> QED BY <1>1, <1>2, <1>3

\* The file written is of a recorded request.
LEMMA WriteRequestKeeps ==
  ASSUME UpdatesInv, NEW o \in Operators, WriteRequest(o)
  PROVE  UpdatesInv'
<1> USE DEF UpdatesInv, WriteRequest
<1>1. UpdatesTypeOK'
  BY TypesOfConstants DEF UpdatesTypeOK
<1>2. Traced'
  BY DEF UpdatesTypeOK, Traced, IdleAsking
<1>3. Progress' /\ Backed'
  BY DEF UpdatesTypeOK, Traced, Progress, Backed, InstalledIsIntact, BrokenInstallHasBackup, Target
<1> QED BY <1>1, <1>2, <1>3

\* An upload is for a release that exists.
LEMMA UploadStartKeeps ==
  ASSUME UpdatesInv, NEW u \in Uploads, NEW v \in 1 .. host.uploads, NEW stale \in SUBSET Uploads, UploadStart(u, v, stale)
  PROVE  UpdatesInv'
<1> USE DEF UpdatesInv, UploadStart
<1>1. UpdatesTypeOK'
  <2>1. v \in Releases
    BY UpdatesAssumption DEF UpdatesTypeOK, Releases
  <2> QED BY <2>1, TypesOfConstants DEF UpdatesTypeOK, NoFile
<1>2. Traced' /\ Progress' /\ Backed'
  BY DEF UpdatesTypeOK, Traced, Progress, Backed, InstalledIsIntact, BrokenInstallHasBackup, Target
<1> QED BY <1>1, <1>2

\* A chunk is checked.
LEMMA UploadChunkKeeps ==
  ASSUME UpdatesInv, NEW w \in Workers, NEW u \in Uploads, NEW chunk \in 1 .. Chunks, UploadChunk(w, u, chunk)
  PROVE  UpdatesInv'
<1> USE DEF UpdatesInv, UploadChunk
<1>1. UpdatesTypeOK'
  BY DEF UpdatesTypeOK
<1>2. Traced' /\ Progress' /\ Backed'
  BY DEF UpdatesTypeOK, Traced, Progress, Backed, InstalledIsIntact, BrokenInstallHasBackup, Target
<1> QED BY <1>1, <1>2

\* What is appended is a chunk.
LEMMA AppendChunkKeeps ==
  ASSUME UpdatesInv, NEW w \in Workers, AppendChunk(w)
  PROVE  UpdatesInv'
<1> USE DEF UpdatesInv, AppendChunk
<1>1. UpdatesTypeOK'
  <2> DEFINE s == staging[sending[w].upload]
  <2>1. s.version \in Releases /\ s.bytes \in Tarball /\ sending[w].chunk \in 1 .. Chunks
    BY DEF UpdatesTypeOK
  <2>2. Append(s.bytes, sending[w].chunk) \in Tarball
    BY <2>1, AppendProperties DEF Tarball
  <2> QED BY <2>1, <2>2, TypesOfConstants DEF UpdatesTypeOK
<1>2. Traced' /\ Progress' /\ Backed'
  BY DEF UpdatesTypeOK, Traced, Progress, Backed, InstalledIsIntact, BrokenInstallHasBackup, Target
<1> QED BY <1>1, <1>2

\* A whole upload is counted.
LEMMA UploadFinishKeeps ==
  ASSUME UpdatesInv, NEW w \in Workers, NEW u \in Uploads, UploadFinish(w, u)
  PROVE  UpdatesInv'
<1> USE DEF UpdatesInv, UploadFinish
<1>1. UpdatesTypeOK'
  BY UpdatesAssumption DEF UpdatesTypeOK
<1>2. Traced' /\ Progress' /\ Backed'
  BY DEF UpdatesTypeOK, Traced, Progress, Backed, InstalledIsIntact, BrokenInstallHasBackup, Target
<1> QED BY <1>1, <1>2

\* An older copy is removed.
LEMMA RemoveOldCopyKeeps ==
  ASSUME UpdatesInv, NEW w \in Workers, RemoveOldCopy(w)
  PROVE  UpdatesInv'
<1> USE DEF UpdatesInv, RemoveOldCopy
<1>1. UpdatesTypeOK'
  BY TypesOfConstants DEF UpdatesTypeOK
<1>2. Traced' /\ Progress' /\ Backed'
  BY DEF UpdatesTypeOK, Traced, Progress, Backed, InstalledIsIntact, BrokenInstallHasBackup, Target
<1> QED BY <1>1, <1>2

\* Anything that was uploaded may take its place.
LEMMA PlaceCopyKeeps ==
  ASSUME UpdatesInv, NEW w \in Workers, PlaceCopy(w)
  PROVE  UpdatesInv'
<1> USE DEF UpdatesInv, PlaceCopy
<1>1. UpdatesTypeOK'
  BY TypesOfConstants DEF UpdatesTypeOK
<1>2. Traced' /\ Progress' /\ Backed'
  BY DEF UpdatesTypeOK, Traced, Progress, Backed, InstalledIsIntact, BrokenInstallHasBackup, Target
<1> QED BY <1>1, <1>2

\* An upload request is lost.
LEMMA WorkerFailsKeeps ==
  ASSUME UpdatesInv, NEW w \in Workers, WorkerFails(w)
  PROVE  UpdatesInv'
<1> USE DEF UpdatesInv, WorkerFails
<1>1. UpdatesTypeOK'
  BY TypesOfConstants DEF UpdatesTypeOK
<1>2. Traced' /\ Progress' /\ Backed'
  BY DEF UpdatesTypeOK, Traced, Progress, Backed, InstalledIsIntact, BrokenInstallHasBackup, Target
<1> QED BY <1>1, <1>2

\* A copy is removed.
LEMMA DeleteUploadKeeps ==
  ASSUME UpdatesInv, NEW v \in Releases, DeleteUpload(v)
  PROVE  UpdatesInv'
<1> USE DEF UpdatesInv, DeleteUpload
<1>1. UpdatesTypeOK'
  BY TypesOfConstants DEF UpdatesTypeOK
<1>2. Traced' /\ Progress' /\ Backed'
  BY DEF UpdatesTypeOK, Traced, Progress, Backed, InstalledIsIntact, BrokenInstallHasBackup, Target
<1> QED BY <1>1, <1>2

\* The script starts over with one request.
LEMMA TakeRequestKeeps ==
  ASSUME UpdatesInv, NEW r \in spool, TakeRequest(r)
  PROVE  UpdatesInv'
<1> USE DEF UpdatesInv, TakeRequest
<1>1. UpdatesTypeOK'
  BY TypesOfConstants DEF UpdatesTypeOK, IdleUpdater, Steps
<1>2. Traced' /\ Progress' /\ Backed'
  BY DEF UpdatesTypeOK, Traced, Progress, Backed, InstalledIsIntact, BrokenInstallHasBackup, IdleUpdater
<1> QED BY <1>1, <1>2

\* The target is newer than the tree.
LEMMA PreflightKeeps ==
  ASSUME UpdatesInv, Preflight
  PROVE  UpdatesInv'
<1> USE DEF UpdatesInv, Preflight
<1>1. UpdatesTypeOK'
  BY DEF UpdatesTypeOK, Steps
<1>2. Traced' /\ Progress' /\ Backed'
  BY DEF UpdatesTypeOK, Traced, Progress, Backed, InstalledIsIntact, BrokenInstallHasBackup, Target
<1> QED BY <1>1, <1>2

\* The target is signed, and the copy is the script's own.
LEMMA DownloadKeeps ==
  ASSUME UpdatesInv, Download
  PROVE  UpdatesInv'
<1> USE DEF UpdatesInv, Download
<1>1. UpdatesTypeOK'
  BY TypesOfConstants DEF UpdatesTypeOK, Steps, Request, Target
<1>2. Traced' /\ Progress' /\ Backed'
  BY DEF UpdatesTypeOK, Traced, Progress, Backed, InstalledIsIntact, BrokenInstallHasBackup, Target
<1> QED BY <1>1, <1>2

\* The copy is whole.
LEMMA VerifyKeeps ==
  ASSUME UpdatesInv, Verify
  PROVE  UpdatesInv'
<1> USE DEF UpdatesInv, Verify
<1>1. UpdatesTypeOK'
  BY DEF UpdatesTypeOK, Steps, Advance
<1>2. Traced' /\ Progress' /\ Backed'
  BY DEF UpdatesTypeOK, Traced, Progress, Backed, InstalledIsIntact, BrokenInstallHasBackup, Target, Advance
<1> QED BY <1>1, <1>2

\* The tree is saved as it is.
LEMMA BackupKeeps ==
  ASSUME UpdatesInv, Backup
  PROVE  UpdatesInv'
<1> USE DEF UpdatesInv, Backup
<1>1. UpdatesTypeOK'
  <2>1. backups' \subseteq [release : Releases, whole : BOOLEAN]
    BY DEF UpdatesTypeOK
  <2> QED BY <2>1 DEF UpdatesTypeOK, Steps, Advance
<1>2. Traced' /\ Progress'
  BY DEF UpdatesTypeOK, Traced, Progress, Backed, InstalledIsIntact, BrokenInstallHasBackup, Target, Advance
<1>3. Backed'
  <2>1. backups \subseteq backups' /\ UNCHANGED <<site, host>>
    BY DEF Advance
  <2>2. ASSUME host.backup = "hook", site.whole
        PROVE  \E b \in backups' : b.whole /\ b.release = site.installed
    <3> DEFINE b == [release |-> site.installed, whole |-> site.whole]
    <3>1. b \in backups' /\ b.whole /\ b.release = site.installed
      BY <2>2
    <3> QED BY <3>1
  <2> QED BY <2>1, <2>2 DEF Backed, BrokenInstallHasBackup, Advance
<1> QED BY <1>1, <1>2, <1>3

\* From here on the tree is broken, and its backup has been taken.
LEMMA InstallBeginKeeps ==
  ASSUME UpdatesInv, NEW named \in BOOLEAN, InstallBegin(named)
  PROVE  UpdatesInv'
<1> USE DEF UpdatesInv, InstallBegin
<1>1. UpdatesTypeOK'
  BY TypesOfConstants DEF UpdatesTypeOK, Steps, Request, Target, Advance
<1>2. Traced'
  BY DEF Traced, Advance
<1>3. Progress'
  BY UpdatesAssumption DEF UpdatesTypeOK, Progress, InstalledIsIntact, Target, Advance, Request, Releases
<1>4. Backed'
  BY DEF UpdatesTypeOK, Backed, BrokenInstallHasBackup, Advance
<1> QED BY <1>1, <1>2, <1>3, <1>4

\* The tree is whole again, and the API runs it.
LEMMA InstallEndKeeps ==
  ASSUME UpdatesInv, InstallEnd
  PROVE  UpdatesInv'
<1> USE DEF UpdatesInv, InstallEnd
<1>1. UpdatesTypeOK'
  BY TypesOfConstants DEF UpdatesTypeOK, Steps, Request, Target, Advance
<1>2. Traced'
  BY DEF Traced, Advance, IdleAsking
<1>3. Progress'
  BY UpdatesAssumption DEF UpdatesTypeOK, Progress, InstalledIsIntact, Target, Advance, Request, Releases
<1>4. Backed'
  BY DEF UpdatesTypeOK, Backed, BrokenInstallHasBackup, Advance
<1> QED BY <1>1, <1>2, <1>3, <1>4

\* The updater has nothing under way.
LEMMA FinishKeeps ==
  ASSUME UpdatesInv, Finish
  PROVE  UpdatesInv'
<1> USE DEF UpdatesInv, Finish
<1>1. UpdatesTypeOK'
  BY TypesOfConstants DEF UpdatesTypeOK
<1>2. Traced' /\ Progress' /\ Backed'
  BY DEF UpdatesTypeOK, Traced, Progress, Backed, InstalledIsIntact, BrokenInstallHasBackup, IdleUpdater
<1> QED BY <1>1, <1>2

\* A killed updater starts over.
LEMMA KillKeeps ==
  ASSUME UpdatesInv, Kill
  PROVE  UpdatesInv'
<1> USE DEF UpdatesInv, Kill
<1>1. UpdatesTypeOK'
  BY TypesOfConstants DEF UpdatesTypeOK
<1>2. Traced' /\ Progress' /\ Backed'
  BY DEF UpdatesTypeOK, Traced, Progress, Backed, InstalledIsIntact, BrokenInstallHasBackup, IdleUpdater
<1> QED BY <1>1, <1>2

-----------------------------------------------------------------------------
LEMMA UpdatesStart == UpdatesInit => UpdatesInv
<1> SUFFICES ASSUME UpdatesInit PROVE UpdatesInv
  OBVIOUS
<1>1. UpdatesTypeOK
  BY TypesOfConstants, UpdatesAssumption DEF UpdatesInit, UpdatesTypeOK, Releases
<1>2. Traced
  BY FS_EmptySet DEF UpdatesInit, Traced, IdleAsking
<1>3. Progress /\ Backed
  BY DEF UpdatesInit, Progress, Backed, InstalledIsIntact, BrokenInstallHasBackup, IdleUpdater
<1> QED BY <1>1, <1>2, <1>3 DEF UpdatesInv

LEMMA UpdatesStep == UpdatesInv /\ [UpdatesNext]_updatesVars => UpdatesInv'
<1> SUFFICES ASSUME UpdatesInv, [UpdatesNext]_updatesVars PROVE UpdatesInv'
  OBVIOUS
<1>1. CASE ApiNext
  BY <1>1, PublishKeeps, LatestReleaseKeeps, ApplyUpdateKeeps, AuditKeeps, SeePendingKeeps,
     WriteRequestKeeps DEF ApiNext
<1>2. CASE UploadNext
  BY <1>2, UploadStartKeeps, UploadChunkKeeps, AppendChunkKeeps, UploadFinishKeeps,
     RemoveOldCopyKeeps, PlaceCopyKeeps, WorkerFailsKeeps, DeleteUploadKeeps DEF UploadNext
<1>3. CASE UpdaterNext
  BY <1>3, TakeRequestKeeps, PreflightKeeps, DownloadKeeps, VerifyKeeps, BackupKeeps,
     InstallBeginKeeps, InstallEndKeeps, FinishKeeps, KillKeeps DEF UpdaterNext, Succeed, Stop
<1>4. CASE UNCHANGED updatesVars
  BY <1>4 DEF UpdatesInv, UpdatesTypeOK, Traced, Progress, Backed, InstalledIsIntact,
     BrokenInstallHasBackup, Target, updatesVars
<1> QED BY <1>1, <1>2, <1>3, <1>4 DEF UpdatesNext

\* The invariant holds throughout.
LEMMA UpdatesInvariant == UpdatesSpec => []UpdatesInv
BY UpdatesStart, UpdatesStep, PTL DEF UpdatesSpec

\* The state of an upgrade keeps its type.
THEOREM UpdatesTypeCorrect == UpdatesSpec => []UpdatesTypeOK
<1>1. UpdatesInv => UpdatesTypeOK
  BY DEF UpdatesInv
<1> QED BY UpdatesInvariant, <1>1, PTL

\* The tree's release never goes back: only the two halves of an install name it, and
\* the target was newer when the script began.
LEMMA TreeMovesForward ==
  ASSUME UpdatesInv, [UpdatesNext]_updatesVars
  PROVE  InstallsOnlyForward
<1>1. site.installed \in Nat
  BY UpdatesAssumption DEF UpdatesInv, UpdatesTypeOK, Releases
<1>2. CASE site' = site
  BY <1>1, <1>2 DEF InstallsOnlyForward
<1>3. CASE site' # site
  <2>1. InstallEnd \/ \E named \in BOOLEAN : InstallBegin(named)
    BY <1>3 DEF updatesVars, UpdatesNext, ApiNext, UploadNext, UpdaterNext, Publish, LatestRelease,
       ApplyUpdate, Audit, SeePending, WriteRequest, UploadStart, UploadChunk, AppendChunk,
       UploadFinish, RemoveOldCopy, PlaceCopy, WorkerFails, DeleteUpload, TakeRequest, Preflight,
       Download, Verify, Backup, Succeed, Stop, Finish, Kill
  <2>2. Target \in Nat
    BY UpdatesAssumption DEF UpdatesInv, UpdatesTypeOK, Target, Request, Releases
  <2>3. Target >= site.installed
    <3>1. updater.step \in {"backup", "install"}
      BY <2>1 DEF InstallEnd, InstallBegin
    <3>2. Target > site.installed \/ Target >= site.installed
      BY <3>1 DEF UpdatesInv, Progress
    <3> QED BY <1>1, <2>2, <3>2
  <2>4. site'.installed \in {Target, site.installed}
    BY <2>1 DEF InstallEnd, InstallBegin, UpdatesInv, UpdatesTypeOK
  <2> QED BY <1>1, <2>2, <2>3, <2>4 DEF InstallsOnlyForward
<1> QED BY <1>2, <1>3

\* Every request an updater may take was recorded, only a whole and signed release is
\* installed and never an older one, and a broken install has its backup, whatever is
\* asked twice, uploaded meanwhile or killed (services/updates.py, veyrs-updater.sh).
THEOREM UpgradesKeptSafe == UpdatesSpec => UpgradesAreSafe
<1>1. UpdatesInv /\ UpdatesInv' /\ [UpdatesNext]_updatesVars =>
        [/\ (UpdatesAreTraceable /\ InstalledIsIntact /\ BrokenInstallHasBackup)'
         /\ InstallsOnlyForward]_updatesVars
  BY TreeMovesForward DEF UpdatesInv, Traced, Progress, Backed, UpdatesAreTraceable
<1> QED BY UpdatesInvariant, <1>1, PTL DEF UpdatesSpec, UpgradesAreSafe

-----------------------------------------------------------------------------
(***************************************************************************)
(* Proofs about SecretStore: a credential survives every save, migration,   *)
(* outage and collection, however they overlap, and a migration that        *)
(* reports no failure has left nothing behind.                               *)
(*                                                                           *)
(* The inductive invariant follows the names of the vault entries.  What a   *)
(* conversion writes is harmless because no row, no pending save and no      *)
(* other converted value names the same entry (Alone, Values); the copies a  *)
(* migration read may be stale, but then their row names another entry       *)
(* (Migration); a key is given out once (Minted); and what a collection is   *)
(* about to delete is neither named nor young (Collection).                  *)
(***************************************************************************)

\* A key is kept by exactly the values that name an entry.
WellFormed(s) == (s.kind \in {"mirror", "vault"}) <=> (s.key # Nothing)

\* The copies that a value names all hold v.
Holds(s, v) ==
  /\ s.kind \in {"mirror", "vault"} => entry[s.key] = v
  /\ s.kind \in {"mirror", "local"} => s.sealed = v

\* Nothing else of the rows, the save or the migration names its entry.
Alone(c, s) ==
  s.key # Nothing =>
    /\ \A d \in Cells \ {c} : cell[d].key # s.key
    /\ \A d \in moving.swapped \ {c} : moving.new[d].key # s.key

Saves == saving # NoSave

Values ==
  /\ \A c \in Cells : WellFormed(cell[c]) /\ Holds(cell[c], latest[c]) /\ Alone(c, cell[c])
  /\ Saves => /\ saving.cell \in Cells /\ WellFormed(saving.stored)
              /\ Holds(saving.stored, saving.value)
              /\ saving.stored.key # Nothing =>
                   /\ saving.stored.key \in young
                   /\ \A c \in Cells : cell[c].key # saving.stored.key /\ moving.read[c].key # saving.stored.key
                   /\ \A c \in moving.swapped : moving.new[c].key # saving.stored.key
              /\ backend # "mirror" => saving.stored.kind = backend

Migration ==
  /\ moving.target = "none" => moving = NoMove
  /\ \A c \in Cells : WellFormed(moving.read[c])
  /\ \A c \in moving.todo \cup moving.swapped : Alone(c, moving.read[c])
  /\ moving.todo \cap moving.swapped = {}
  /\ \A c \in moving.todo :
       moving.read[c].key # Nothing /\ cell[c].key = moving.read[c].key => cell[c] = moving.read[c]
  /\ \A c \in moving.swapped :
       /\ cell[c] = moving.read[c] /\ moving.new[c].kind = moving.target
       /\ WellFormed(moving.new[c]) /\ Holds(moving.new[c], latest[c]) /\ Alone(c, moving.new[c])
       /\ moving.new[c].key # Nothing => moving.new[c].key \in young \cup {cell[c].key}
  /\ moving.target # "none" /\ moving.target = backend /\ backend # "mirror" /\ moving.failed = {} =>
       \A c \in Cells \ (moving.todo \cup moving.swapped) : cell[c].kind \in {"empty", moving.target}

Minted ==
  LET seen == minted \cup {Nothing}
  IN  /\ \A k \in VaultKeys \ minted : entry[k] = 0
      /\ \A c \in Cells : cell[c].key \in seen /\ moving.read[c].key \in seen
      /\ \A c \in moving.swapped : moving.new[c].key \in seen
      /\ saving.stored.key \in seen

Collection ==
  collecting.step = "scanned" =>
    \A c \in Cells : cell[c].key \in collecting.listed => cell[c].key \in collecting.referenced \cup young

SecretInv == SecretTypeOK /\ Values /\ Migration /\ Minted /\ Collection

-----------------------------------------------------------------------------
(* Every step keeps the invariant. *)

\* A save in flight has written an entry nobody names.
LEMMA EncryptKeeps ==
  ASSUME SecretInv, NEW c \in Cells, Encrypt(c)
  PROVE  SecretInv'
<1> USE SecretStoreAssumption DEF SecretInv, Encrypt
<1>1. SecretTypeOK'
  BY DEF SecretTypeOK, Stored, Backends, Fresh, SealAs, Saving, VaultWrite
<1>2. Values'
  BY DEF SecretTypeOK, Values, Migration, Minted, Stored, Backends, Fresh, SealAs, Saving,
         VaultWrite, Saves, NoSave, WellFormed, Holds, Alone
<1>3. Migration'
  BY DEF SecretTypeOK, Migration, Minted, Stored, Backends, Fresh, SealAs, Saving, VaultWrite,
         WellFormed, Holds, Alone
<1>4. Minted'
  BY DEF SecretTypeOK, Minted, Stored, Fresh, SealAs, Saving, VaultWrite
<1>5. Collection'
  BY DEF Collection, VaultWrite
<1> QED BY <1>1, <1>2, <1>3, <1>4, <1>5

\* The committed value names an entry no other value names.
LEMMA CommitSaveKeeps ==
  ASSUME SecretInv, CommitSave
  PROVE  SecretInv'
<1> USE SecretStoreAssumption DEF SecretInv, CommitSave
<1>1. SecretTypeOK'
  BY DEF SecretTypeOK, Values, Stored, NoSave, Empty, Saves, Backends
<1>2. Values'
  BY DEF SecretTypeOK, Values, Stored, NoSave, Empty, Saves, WellFormed, Holds, Alone
<1>3. Migration'
  BY DEF SecretTypeOK, Values, Migration, Stored, Saves, WellFormed, Holds, Alone
<1>4. Minted'
  BY DEF Minted, SecretTypeOK, NoSave, Empty, Saves
<1>5. Collection'
  BY DEF Collection, SecretTypeOK, Values, Saves
<1> QED BY <1>1, <1>2, <1>3, <1>4, <1>5

\* Its entry is left behind.
LEMMA AbortSaveKeeps ==
  ASSUME SecretInv, AbortSave
  PROVE  SecretInv'
<1> USE SecretStoreAssumption DEF SecretInv, AbortSave
<1>1. SecretTypeOK'
  BY DEF SecretTypeOK, Stored, Backends, Empty, NoSave
<1>2. Values'
  BY DEF Values, WellFormed, Holds, Alone, NoSave, Empty, Saves
<1>3. Migration' /\ Minted' /\ Collection'
  BY DEF Collection, Minted, Migration, WellFormed, Holds, Alone, NoSave, Empty, Saves
<1> QED BY <1>1, <1>2, <1>3

\* Every value is read, and none is taken yet.
LEMMA MigrateBeginKeeps ==
  ASSUME SecretInv, NEW target \in Backends, MigrateBegin(target)
  PROVE  SecretInv'
<1> USE SecretStoreAssumption DEF SecretInv, MigrateBegin
<1>1. SecretTypeOK'
  BY DEF SecretTypeOK, NoMove, Stored, Empty
<1>2. Values'
  BY DEF Values, SecretTypeOK, NoMove, WellFormed, Holds, Alone, Saves
<1>3. Migration'
  BY DEF Migration, SecretTypeOK, Values, NoMove, Backends, Stored, WellFormed, Holds, Alone
<1>4. Minted' /\ Collection'
  BY DEF Collection, Minted, SecretTypeOK, NoMove
<1> QED BY <1>1, <1>2, <1>3, <1>4

\* A conversion writes an entry that only the value it converts may name.
LEMMA ConvertKeeps ==
  ASSUME SecretInv, NEW c \in Cells, Convert(c)
  PROVE  SecretInv'
<1> DEFINE s == moving.read[c]
           value == Decrypt(s)
           Sealed(k) == SealAs(value, moving.target, k)
<1> USE SecretStoreAssumption DEF SecretInv
<1>1. /\ s \in Stored /\ WellFormed(s) /\ c \in moving.todo /\ c \notin moving.swapped
      /\ moving.target \in Backends
  <2>1. c \in moving.todo
    BY DEF Convert
  <2>2. moving # NoMove
    BY <2>1 DEF NoMove
  <2>3. moving.target # "none"
    BY <2>2 DEF Migration
  <2> QED BY <2>1, <2>3 DEF SecretTypeOK, Migration
<1>2. value \in Nat /\ (cell[c] = s => value = latest[c])
  <2>1. value \in Nat
    BY <1>1 DEF Decrypt, Stored, SecretTypeOK, WellFormed, Backends, Convert
  <2>2. ASSUME cell[c] = s PROVE value = latest[c]
    BY <2>2, <1>1 DEF Decrypt, Stored, SecretTypeOK, WellFormed, Backends, Values, Holds, Convert
  <2> QED BY <2>1, <2>2
<1>3. PICK k \in VaultKeys \cup {Nothing} :
        /\ moving' = IF cell[c] = s
                     THEN [moving EXCEPT !.todo = @ \ {c}, !.swapped = @ \cup {c}, !.new[c] = Sealed(k)]
                     ELSE [moving EXCEPT !.todo = @ \ {c}, !.failed = @ \cup {c}]
        /\ \/ k = Nothing /\ moving.target = "local" /\ UNCHANGED <<entry, minted, young>>
           \/ k \in VaultKeys /\ moving.target # "local" /\ k \in ReuseKey(s) /\ VaultWrite(k, value)
  <2>1. CASE moving.target = "local"
    BY <2>1 DEF Convert
  <2>2. CASE moving.target # "local"
    <3>1. ReuseKey(s) \subseteq VaultKeys
      BY <1>1 DEF ReuseKey, WellFormed, Stored, Fresh
    <3> QED BY <2>2, <3>1 DEF Convert
  <2> QED BY <2>1, <2>2
<1>4. UNCHANGED <<backend, vaultUp, cell, latest, saves, saving, collecting>>
  BY DEF Convert
\* Nothing but the value being converted names the entry written.
<1>5. ASSUME k # Nothing
      PROVE  /\ \A d \in Cells : cell[d].key = k => d = c /\ cell[c] = s
             /\ \A d \in moving.swapped : moving.new[d].key # k
             /\ saving.stored.key # k
             /\ cell[c] = s => \A d \in (moving.todo \cup moving.swapped) \ {c} : moving.read[d].key # k
             /\ cell[c] = s => k = cell[c].key \/ entry[k] = 0
  <2>1. CASE s.kind \in {"mirror", "vault"}
    <3>1. k = s.key
      BY <1>3, <1>5, <2>1 DEF ReuseKey
    <3> QED
      BY <3>1, <1>1, <1>5 DEF Values, Migration, Alone, Saves, NoSave, Empty, SecretTypeOK, Stored
  <2>2. CASE s.kind \notin {"mirror", "vault"}
    <3>1. k \in VaultKeys \ minted
      BY <1>3, <1>5, <2>2 DEF ReuseKey, Fresh
    <3> QED
      BY <3>1, <1>5 DEF Minted, SecretTypeOK
  <2> QED BY <2>1, <2>2
<1>6. /\ entry' \in [VaultKeys -> Nat] /\ minted' \subseteq VaultKeys /\ young' \subseteq VaultKeys
      /\ minted \subseteq minted' /\ young \subseteq young'
      /\ k # Nothing => k \in minted' /\ entry'[k] = value /\ (entry[k] = 0 => k \in young')
      /\ \A j \in VaultKeys : j # k => entry'[j] = entry[j]
      /\ k = Nothing <=> moving.target = "local"
  BY <1>2, <1>3 DEF SecretTypeOK, VaultWrite
<1>7. /\ \A d \in Cells : cell[d].key # Nothing => entry'[cell[d].key] = entry[cell[d].key]
      /\ \A d \in moving.swapped : moving.new[d].key # Nothing => entry'[moving.new[d].key] = entry[moving.new[d].key]
      /\ saving.stored.key # Nothing => entry'[saving.stored.key] = entry[saving.stored.key]
  <2>1. ASSUME NEW d \in Cells, cell[d].key # Nothing
        PROVE  entry'[cell[d].key] = entry[cell[d].key]
    <3>1. CASE cell[d].key = k
      BY <2>1, <3>1, <1>1, <1>2, <1>5, <1>6 DEF Values, Holds, WellFormed
    <3>2. CASE cell[d].key # k
      BY <2>1, <3>2, <1>6 DEF SecretTypeOK, Stored
    <3> QED BY <3>1, <3>2
  <2> QED BY <2>1, <1>5, <1>6 DEF SecretTypeOK, Stored
<1>8. Sealed(k) \in Stored /\ WellFormed(Sealed(k)) /\ Sealed(k).kind = moving.target
      /\ Sealed(k).key = k
      /\ (Sealed(k).kind # "vault" => Sealed(k).sealed = value)
  BY <1>1, <1>2, <1>6 DEF SealAs, Stored, WellFormed, Backends
<1>9. CASE cell[c] = s
  <2> DEFINE new == [moving.new EXCEPT ![c] = Sealed(k)]
  <2>1. /\ moving'.target = moving.target /\ moving'.read = moving.read
        /\ moving'.todo = moving.todo \ {c} /\ moving'.swapped = moving.swapped \cup {c}
        /\ moving'.new = new /\ moving'.failed = moving.failed
        /\ moving' = [target |-> moving.target, read |-> moving.read, todo |-> moving.todo \ {c},
                      swapped |-> moving.swapped \cup {c}, new |-> new, failed |-> moving.failed]
    BY <1>3, <1>9 DEF SecretTypeOK
  <2>2. new \in [Cells -> Stored] /\ new[c] = Sealed(k) /\ \A d \in Cells \ {c} : new[d] = moving.new[d]
    BY <1>8 DEF SecretTypeOK
  <2> HIDE DEF new
  <2>3. SecretTypeOK'
    BY <1>4, <1>6, <2>1, <2>2 DEF SecretTypeOK
  <2>4. Values'
    BY <1>4, <1>5, <1>6, <1>7, <1>8, <2>1, <2>2 DEF Values, WellFormed, Holds, Alone, Saves, SecretTypeOK
  <2>5. Migration'
    BY <1>1, <1>2, <1>4, <1>5, <1>6, <1>7, <1>8, <1>9, <2>1, <2>2 DEF Migration, WellFormed, Holds, Alone, SecretTypeOK
  <2>6. Minted'
    BY <1>4, <1>6, <1>8, <2>1, <2>2 DEF Minted, SecretTypeOK
  <2>7. Collection'
    BY <1>4, <1>6 DEF Collection
  <2> QED BY <2>3, <2>4, <2>5, <2>6, <2>7
<1>10. CASE cell[c] # s
  <2>1. /\ moving'.target = moving.target /\ moving'.read = moving.read
        /\ moving'.todo = moving.todo \ {c} /\ moving'.swapped = moving.swapped
        /\ moving'.new = moving.new /\ moving'.failed = moving.failed \cup {c}
        /\ moving' = [target |-> moving.target, read |-> moving.read, todo |-> moving.todo \ {c},
                      swapped |-> moving.swapped, new |-> moving.new, failed |-> moving.failed \cup {c}]
    BY <1>3, <1>10 DEF SecretTypeOK
  <2>3. SecretTypeOK'
    BY <1>4, <1>6, <2>1 DEF SecretTypeOK
  <2>4. Values'
    BY <1>4, <1>5, <1>6, <1>7, <2>1 DEF Values, WellFormed, Holds, Alone, Saves, SecretTypeOK
  <2>5. Migration'
    <3>1. moving'.target # "none" /\ moving'.failed # {}
      BY <1>1, <2>1 DEF Backends
    <3> QED BY <1>1, <1>4, <1>6, <1>7, <2>1, <3>1 DEF Migration, WellFormed, Holds, Alone, SecretTypeOK
  <2>6. Minted'
    BY <1>4, <1>6, <2>1 DEF Minted, SecretTypeOK
  <2>7. Collection'
    BY <1>4, <1>6 DEF Collection
  <2> QED BY <2>3, <2>4, <2>5, <2>6, <2>7
<1> QED BY <1>9, <1>10

\* A skipped value is a failure, which the report names.
LEMMA SkipUnreadableKeeps ==
  ASSUME SecretInv, NEW c \in Cells, SkipUnreadable(c)
  PROVE  SecretInv'
<1> USE SecretStoreAssumption DEF SecretInv, SkipUnreadable
<1>1. SecretTypeOK'
  BY DEF SecretTypeOK
<1>2. Values'
  BY DEF Values, SecretTypeOK, WellFormed, Holds, Alone, Saves
<1>3. Migration'
  BY DEF Migration, SecretTypeOK, NoMove, WellFormed, Holds, Alone
<1>4. Minted' /\ Collection'
  BY DEF Collection, Minted, SecretTypeOK
<1> QED BY <1>1, <1>2, <1>3, <1>4

\* The converted values replace the ones they were read from.
LEMMA MigrateCommitKeeps ==
  ASSUME SecretInv, MigrateCommit
  PROVE  SecretInv'
<1> USE SecretStoreAssumption DEF SecretInv, MigrateCommit
<1>1. SecretTypeOK'
  BY DEF SecretTypeOK, NoMove, Stored, Empty, Backends
<1>2. Values'
  BY DEF SecretTypeOK, Values, Migration, NoMove, Empty, Saves, WellFormed, Holds, Alone
<1>3. Migration'
  BY DEF Migration, NoMove, Empty, WellFormed
<1>4. Minted' /\ Collection'
  BY DEF Collection, SecretTypeOK, Minted, Migration, NoMove, Empty
<1> QED BY <1>1, <1>2, <1>3, <1>4

\* No row has changed.
LEMMA MigrateDiesKeeps ==
  ASSUME SecretInv, MigrateDies
  PROVE  SecretInv'
<1> USE SecretStoreAssumption DEF SecretInv, MigrateDies
<1>1. SecretTypeOK'
  BY DEF SecretTypeOK, NoMove, Stored, Empty, Backends
<1>2. Values'
  BY DEF Values, SecretTypeOK, NoMove, Empty, Saves, WellFormed, Holds, Alone
<1>3. Migration' /\ Minted' /\ Collection'
  BY DEF Collection, Minted, Migration, NoMove, Empty, WellFormed
<1> QED BY <1>1, <1>2, <1>3

\* A listing says nothing of the rows yet.
LEMMA ListEntriesKeeps ==
  ASSUME SecretInv, ListEntries
  PROVE  SecretInv'
<1> USE SecretStoreAssumption DEF SecretInv, ListEntries
<1>1. SecretTypeOK'
  BY DEF SecretTypeOK, NoCollection
<1>2. Values' /\ Migration' /\ Minted' /\ Collection'
  BY DEF Collection, Minted, Migration, Values, NoCollection, Saves, WellFormed, Holds, Alone
<1> QED BY <1>1, <1>2

\* The scan names every entry a row names.
LEMMA ScanCellsKeeps ==
  ASSUME SecretInv, ScanCells
  PROVE  SecretInv'
<1> DEFINE named == {cell[c].key : c \in Cells}
<1>1. named \subseteq VaultKeys \cup {Nothing} /\ \A c \in Cells : cell[c].key \in named
  BY DEF SecretInv, SecretTypeOK, Stored
<1>2. collecting' = [collecting EXCEPT !.step = "scanned", !.referenced = named]
      /\ UNCHANGED <<backend, vaultUp, entry, minted, young, cell, latest, saves, saving, moving>>
  BY DEF ScanCells
<1> HIDE DEF named
<1>3. SecretTypeOK' /\ Collection'
  BY <1>1, <1>2 DEF SecretInv, SecretTypeOK, Collection
<1>4. Values' /\ Migration' /\ Minted'
  BY <1>2 DEF SecretInv, Values, Migration, Minted, Saves, WellFormed, Holds, Alone
<1> QED BY <1>3, <1>4 DEF SecretInv

\* What is deleted is named by no row, save or conversion.
LEMMA DeleteOrphansKeeps ==
  ASSUME SecretInv, DeleteOrphans
  PROVE  SecretInv'
<1> USE SecretStoreAssumption DEF SecretInv, DeleteOrphans
<1>1. SecretTypeOK'
  BY DEF SecretTypeOK, NoCollection
<1>2. Values'
  BY DEF SecretTypeOK, Values, Collection, Stored, Saves, WellFormed, Holds, Alone
<1>3. Migration'
  BY DEF SecretTypeOK, Values, Migration, Collection, Stored, WellFormed, Holds, Alone
<1>4. Minted' /\ Collection'
  BY DEF Collection, Minted, SecretTypeOK, NoCollection
<1> QED BY <1>1, <1>2, <1>3, <1>4

\* Nothing is under way.
LEMMA SetBackendKeeps ==
  ASSUME SecretInv, NEW b \in Backends, SetBackend(b)
  PROVE  SecretInv'
<1> USE SecretStoreAssumption DEF SecretInv, SetBackend
<1>1. SecretTypeOK'
  BY DEF SecretTypeOK
<1>2. Values'
  BY DEF Values, Saves, WellFormed, Holds, Alone
<1>3. Migration' /\ Minted' /\ Collection'
  BY DEF Collection, Minted, Migration, NoMove, WellFormed, Holds, Alone
<1> QED BY <1>1, <1>2, <1>3

\* Only reachability changes.
LEMMA VaultTogglesKeeps ==
  ASSUME SecretInv, VaultToggles
  PROVE  SecretInv'
<1> USE SecretStoreAssumption DEF SecretInv, VaultToggles
<1>1. SecretTypeOK'
  BY DEF SecretTypeOK
<1>2. Values' /\ Migration' /\ Minted' /\ Collection'
  BY DEF Collection, Minted, Migration, Values, Saves, WellFormed, Holds, Alone
<1> QED BY <1>1, <1>2

\* Nothing is under way.
LEMMA EntriesAgeKeeps ==
  ASSUME SecretInv, EntriesAge
  PROVE  SecretInv'
<1> USE SecretStoreAssumption DEF SecretInv, EntriesAge
<1>1. SecretTypeOK'
  BY DEF SecretTypeOK
<1>2. Values'
  BY DEF Values, Saves, WellFormed, Holds, Alone
<1>3. Migration' /\ Minted' /\ Collection'
  BY DEF Collection, Minted, Migration, NoMove, NoCollection, WellFormed, Holds, Alone
<1> QED BY <1>1, <1>2, <1>3

-----------------------------------------------------------------------------
LEMMA SecretsStart == SecretInit => SecretInv
BY SecretStoreAssumption
   DEF SecretInit, SecretInv, SecretTypeOK, Values, Migration, Minted, Collection, Backends, Stored,
       Empty, NoSave, NoMove, NoCollection, WellFormed, Holds, Alone, Saves

LEMMA SecretsStep == SecretInv /\ [SecretNext]_secretVars => SecretInv'
<1> SUFFICES ASSUME SecretInv, [SecretNext]_secretVars PROVE SecretInv'
  OBVIOUS
<1>1. CASE SecretNext
  BY <1>1, EncryptKeeps, CommitSaveKeeps, AbortSaveKeeps, MigrateBeginKeeps, ConvertKeeps,
     SkipUnreadableKeeps, MigrateCommitKeeps, MigrateDiesKeeps, ListEntriesKeeps, ScanCellsKeeps,
     DeleteOrphansKeeps, SetBackendKeeps, VaultTogglesKeeps, EntriesAgeKeeps DEF SecretNext
<1>2. CASE UNCHANGED secretVars
  BY <1>2 DEF SecretInv, SecretTypeOK, Values, Migration, Minted, Collection, Holds, Alone, Saves,
     secretVars
<1> QED BY <1>1, <1>2

\* The invariant holds throughout.
LEMMA SecretInvariant == SecretSpec => []SecretInv
BY SecretsStart, SecretsStep, PTL DEF SecretSpec

\* The state of the secret store keeps its type, whatever overlaps.
THEOREM SecretTypeCorrect == SecretSpec => []SecretTypeOK
<1>1. SecretInv => SecretTypeOK
  BY DEF SecretInv
<1> QED BY SecretInvariant, <1>1, PTL

\* Only a save or the end of a migration changes a row.
LEMMA RowsChangeWhenCommitted ==
  ASSUME SecretInv, SecretNext, cell' # cell
  PROVE  CommitSave \/ MigrateCommit
BY DEF SecretNext, Encrypt, AbortSave, MigrateBegin, Convert, SkipUnreadable, MigrateDies,
       ListEntries, ScanCells, DeleteOrphans, SetBackend, VaultToggles, EntriesAge

\* What a migration without a failure leaves is what it converted, and what it read
\* and found empty or already there.
LEMMA MoveIsWhole ==
  ASSUME SecretInv, [SecretNext]_secretVars
  PROVE  MigratedIsMoved
<1> SUFFICES ASSUME moving # NoMove, moving' = NoMove, cell' # cell, moving.failed = {},
                    moving.target = backend, backend # "mirror", NEW c \in Cells
             PROVE  cell'[c].kind \in {backend, "empty"}
  BY DEF MigratedIsMoved
<1>1. MigrateCommit
  BY RowsChangeWhenCommitted DEF CommitSave, secretVars
<1>2. CASE c \in moving.swapped
  BY <1>1, <1>2 DEF MigrateCommit, SecretInv, Migration
<1>3. CASE c \notin moving.swapped
  BY <1>1, <1>3 DEF MigrateCommit, SecretInv, Migration, SecretTypeOK, Backends
<1> QED BY <1>2, <1>3

\* No save, migration, outage, death of a migration or collection loses a credential
\* or brings an earlier one back, and a migration that reports no failure has moved
\* everything (secret_storage.migrate, secret_storage.gc).
THEOREM CredentialsKept == SecretSpec => CredentialsAreKept
<1>1. SecretInv => CredentialsSurvive
  BY DEF SecretInv, Values, Holds, CredentialsSurvive
<1>2. SecretInv /\ SecretInv' /\ [SecretNext]_secretVars => [CredentialsSurvive' /\ MigratedIsMoved]_secretVars
  BY MoveIsWhole DEF SecretInv, Values, Holds, CredentialsSurvive
<1> QED BY SecretInvariant, <1>2, PTL DEF SecretSpec, CredentialsAreKept

-----------------------------------------------------------------------------
(***************************************************************************)
(* Theorems of Outbox, for every set of rows and of dispatchers, every      *)
(* number of attempts, every size of a batch and any number of crashes.     *)
(***************************************************************************)

\* What the type invariant says of a dispatcher in parts, and of what it leaves out.
Dispatcher == [step : {"idle", "sending"}, batch : SUBSET Notices, todo : SUBSET Notices,
               own : SUBSET Notices, copy : [Notices -> Notification]]
Mailing == [tried : Nat, delivered : Nat]

OutboxTyped ==
  /\ outbox \in [Notices -> Notification]
  /\ dispatcher \in [Dispatchers -> Dispatcher]
  /\ smtpEnabled \in BOOLEAN
  /\ mailings \in [Notices -> Mailing]
  /\ excused \subseteq Notices /\ crashes \in 0 .. MaxCrashes

\* A row, committed or in a copy, tells no more than what happened.
Told(row, mailing) ==
  /\ row.attempts <= mailing.tried
  /\ row.status = "failed" => mailing.tried >= MaxTries
  /\ row.status = "sent" => mailing.delivered > 0

\* A dispatcher's copies tell no more either; what it has not tried yet can be tried; the
\* rows it made are nobody else's, because they are not there yet.
Carries(me) ==
  /\ me.step = "idle" => me.batch = {} /\ me.own = {}
  /\ me.todo \subseteq me.batch
  /\ \A n \in me.todo : me.copy[n].status = "pending" /\ me.copy[n].attempts < MaxTries
  /\ \A n \in me.batch \cup me.own : Told(me.copy[n], mailings[n]) /\ me.copy[n].status # "none"
  /\ \A n \in me.own : outbox[n].status = "none"
  /\ \A n \in me.batch \ me.own : outbox[n].status # "none"

\* A row that is not excused is in one batch at most, and still to be sent as long as it
\* is; and if it was delivered either its row says so or the copy that will be written.
Once(n) ==
  /\ \A d, e \in Dispatchers : n \in dispatcher[d].batch /\ n \in dispatcher[e].batch => d = e
  /\ \A d \in Dispatchers : n \in dispatcher[d].batch => outbox[n].status \in {"none", "pending"}
  /\ \/ mailings[n].delivered = 0
     \/ /\ mailings[n].delivered = 1
        /\ \/ outbox[n].status = "sent"
           \/ \E d \in Dispatchers : n \in dispatcher[d].batch /\ dispatcher[d].copy[n].status = "sent"

\* The inductive invariant.
OutboxInv ==
  /\ OutboxTyped
  /\ \A n \in Notices : Told(outbox[n], mailings[n])
  /\ \A d \in Dispatchers : Carries(dispatcher[d])
  /\ \A d, e \in Dispatchers : d # e => dispatcher[d].own \cap dispatcher[e].own = {}
  /\ \A n \in Notices \ excused : Once(n)

-----------------------------------------------------------------------------
(* Rows and dispatchers.                                                     *)

LEMMA RowFacts ==
  /\ Missing \in Notification /\ Pending \in Notification
  /\ Missing.status = "none" /\ Pending.status = "pending" /\ Pending.attempts = 0
  /\ 0 < MaxTries
  /\ Asleep \in Dispatcher
  /\ Asleep.step = "idle" /\ Asleep.batch = {} /\ Asleep.todo = {} /\ Asleep.own = {}
<1>1. /\ Missing \in Notification /\ Pending \in Notification
      /\ Missing.status = "none" /\ Pending.status = "pending" /\ Pending.attempts = 0
      /\ 0 < MaxTries
  BY OutboxAssumption DEF Missing, Pending, Notification
<1>2. Asleep \in Dispatcher
  BY <1>1 DEF Asleep, Dispatcher
<1> QED BY <1>1, <1>2 DEF Asleep

\* A dispatcher that sleeps carries nothing.
LEMMA AsleepCarries == Carries(Asleep) /\ Carries(Asleep)'
BY RowFacts DEF Carries, Asleep

\* The rows of a batch can be sent: they are made by this session, or committed, pending
\* and with attempts left.
LEMMA BatchFacts ==
  ASSUME NEW own \in SUBSET Notices, NEW n \in Oldest(Loadable(own))
  PROVE  n \in Notices /\ (n \in own \/ (outbox[n].status = "pending" /\ outbox[n].attempts < MaxTries))
BY DEF Oldest, Loadable

\* A row that was delivered is not to be tried: it was not sent before by whoever has it.
LEMMA NotYetDelivered ==
  ASSUME OutboxInv, NEW d \in Dispatchers, NEW n \in dispatcher[d].todo, n \notin excused
  PROVE  mailings[n].delivered = 0
<1>1. /\ n \in Notices /\ n \in dispatcher[d].batch /\ dispatcher[d].copy[n].status = "pending"
  BY DEF OutboxInv, OutboxTyped, Dispatcher, Carries
<1>2. Once(n)
  BY <1>1 DEF OutboxInv
<1> QED BY <1>1, <1>2 DEF Once

-----------------------------------------------------------------------------
(* The operations.                                                           *)

LEMMA OutboxStarts == OutboxInit => OutboxInv
<1> SUFFICES ASSUME OutboxInit PROVE OutboxInv
  OBVIOUS
<1>1. OutboxTyped
  BY RowFacts, OutboxAssumption DEF OutboxInit, OutboxTyped, Mailing
<1>2. \A n \in Notices : Told(outbox[n], mailings[n])
  BY DEF OutboxInit, Told, Missing
<1>3. \A d \in Dispatchers : Carries(dispatcher[d])
  BY AsleepCarries DEF OutboxInit
<1>4. \A d, e \in Dispatchers : d # e => dispatcher[d].own \cap dispatcher[e].own = {}
  BY RowFacts DEF OutboxInit
<1>5. \A n \in Notices \ excused : Once(n)
  BY RowFacts DEF OutboxInit, Once
<1> QED BY <1>1, <1>2, <1>3, <1>4, <1>5 DEF OutboxInv

\* A row that was not there appears; nobody had it.
LEMMA QueueKeeps == ASSUME OutboxInv, Queue PROVE OutboxInv'
<1>1. PICK n \in Notices : n \in Unmade /\ outbox' = [outbox EXCEPT ![n] = Pending]
  BY DEF Queue, Earliest
<1>2. /\ outbox[n].status = "none" /\ \A d \in Dispatchers : n \notin dispatcher[d].own
  BY <1>1 DEF Unmade
<1>3. \A d \in Dispatchers : n \notin dispatcher[d].batch
  BY <1>2 DEF OutboxInv, Carries
<1>4. /\ outbox'[n] = Pending /\ outbox' \in [Notices -> Notification]
      /\ \A m \in Notices \ {n} : outbox'[m] = outbox[m]
  BY <1>1, RowFacts DEF OutboxInv, OutboxTyped
<1>5. UNCHANGED <<dispatcher, smtpEnabled, mailings, excused, crashes>>
  BY DEF Queue
<1>6. OutboxTyped'
  BY <1>4, <1>5 DEF OutboxInv, OutboxTyped
<1>7. \A m \in Notices : Told(outbox[m], mailings[m])'
  <2>1. mailings[n].tried \in Nat
    BY DEF OutboxInv, OutboxTyped, Mailing
  <2>2. Told(Pending, mailings[n])
    BY <2>1, RowFacts DEF Told
  <2> QED BY <2>2, <1>4, <1>5 DEF OutboxInv
<1>8. \A d \in Dispatchers : Carries(dispatcher[d])'
  <2> SUFFICES ASSUME NEW d \in Dispatchers PROVE Carries(dispatcher[d])'
    OBVIOUS
  <2>1. Carries(dispatcher[d]) /\ n \notin dispatcher[d].own /\ n \notin dispatcher[d].batch
    BY <1>2, <1>3 DEF OutboxInv
  <2>2. dispatcher[d].own \subseteq Notices /\ dispatcher[d].batch \subseteq Notices
    BY DEF OutboxInv, OutboxTyped, Dispatcher
  <2> QED BY <2>1, <2>2, <1>4, <1>5 DEF Carries
<1>9. \A m \in Notices \ excused' : Once(m)'
  <2> SUFFICES ASSUME NEW m \in Notices \ excused PROVE Once(m)'
    BY <1>5
  <2>1. Once(m)
    BY DEF OutboxInv
  <2>2. CASE m = n
    BY <2>1, <2>2, <1>2, <1>3, <1>5 DEF Once
  <2>3. CASE m # n
    BY <2>1, <2>3, <1>4, <1>5 DEF Once
  <2> QED BY <2>2, <2>3
<1> QED BY <1>5, <1>6, <1>7, <1>8, <1>9 DEF OutboxInv

\* A batch is loaded: the rows somebody else has as well are excused from now on.
LEMMA BeginBatchKeeps ==
  ASSUME OutboxInv, NEW d \in Dispatchers, NEW own \in SUBSET Unmade, BeginBatch(d, own)
  PROVE  OutboxInv'
<1> DEFINE batch == Oldest(Loadable(own))
           copy == [n \in Notices |-> IF n \in own THEN Pending
                                      ELSE IF n \in batch THEN outbox[n] ELSE Missing]
           new == [step |-> "sending", batch |-> batch, todo |-> batch, own |-> own, copy |-> copy]
           held == UNION {dispatcher[e].batch : e \in Dispatchers \ {d}}
<1>1. /\ own \subseteq Notices
      /\ \A n \in own : outbox[n].status = "none" /\ \A e \in Dispatchers : n \notin dispatcher[e].own
  BY DEF Unmade
<1>2. \A n \in batch : n \in Notices /\ (n \in own \/ (outbox[n].status = "pending" /\ outbox[n].attempts < MaxTries))
  BY <1>1, BatchFacts
<1>3. dispatcher[d].step = "idle"
  BY DEF BeginBatch
<1>4. dispatcher' = [dispatcher EXCEPT ![d] = new] /\ excused' = excused \cup (batch \cap held)
  BY DEF BeginBatch
<1>5. UNCHANGED <<outbox, smtpEnabled, mailings, crashes>>
  BY DEF BeginBatch
<1>6. \A n \in own : copy[n] = Pending
  BY <1>1
<1>7. \A n \in batch \ own : copy[n] = outbox[n]
  BY <1>2
<1>8. copy \in [Notices -> Notification]
  BY RowFacts DEF OutboxInv, OutboxTyped
<1>9. /\ new.step = "sending" /\ new.batch = batch /\ new.todo = batch /\ new.own = own /\ new.copy = copy
  OBVIOUS
<1>10. new \in Dispatcher
  BY <1>1, <1>2, <1>8 DEF Dispatcher
<1> HIDE DEF batch, copy, new
<1>11. /\ dispatcher' \in [Dispatchers -> Dispatcher] /\ dispatcher'[d] = new
       /\ \A e \in Dispatchers \ {d} : dispatcher'[e] = dispatcher[e]
  BY <1>4, <1>10 DEF OutboxInv, OutboxTyped
<1>12. OutboxTyped'
  BY <1>2, <1>4, <1>5, <1>11 DEF OutboxInv, OutboxTyped
<1>13. Carries(new)
  <2>1. \A n \in Notices : mailings[n].tried \in Nat
    BY DEF OutboxInv, OutboxTyped, Mailing
  <2>2. \A n \in own : Told(copy[n], mailings[n]) /\ copy[n].status = "pending" /\ copy[n].attempts < MaxTries
    BY <1>1, <1>6, <2>1, RowFacts DEF Told
  <2>3. \A n \in batch \ own : Told(copy[n], mailings[n]) /\ copy[n].status = "pending" /\ copy[n].attempts < MaxTries
    BY <1>2, <1>7 DEF OutboxInv
  <2> QED BY <1>1, <1>2, <1>9, <2>2, <2>3 DEF Carries
<1>14. \A e \in Dispatchers : Carries(dispatcher[e])'
  BY <1>5, <1>11, <1>13 DEF OutboxInv, Carries
<1>15. \A e, f \in Dispatchers : e # f => dispatcher'[e].own \cap dispatcher'[f].own = {}
  BY <1>1, <1>9, <1>11 DEF OutboxInv
<1>16. \A n \in Notices \ excused' : Once(n)'
  <2> SUFFICES ASSUME NEW n \in Notices, n \notin excused' PROVE Once(n)'
    OBVIOUS
  <2>1. Once(n) /\ (n \in batch => \A e \in Dispatchers \ {d} : n \notin dispatcher[e].batch)
    BY <1>4 DEF OutboxInv
  <2>2. dispatcher[d].batch = {}
    BY <1>3 DEF OutboxInv, Carries
  <2>3. \A e, f \in Dispatchers : n \in dispatcher'[e].batch /\ n \in dispatcher'[f].batch => e = f
    BY <2>1, <1>9, <1>11 DEF Once
  <2>4. \A e \in Dispatchers : n \in dispatcher'[e].batch => outbox'[n].status \in {"none", "pending"}
    BY <2>1, <1>1, <1>2, <1>5, <1>9, <1>11 DEF Once
  <2>5. \A e \in Dispatchers : n \in dispatcher[e].batch => dispatcher'[e] = dispatcher[e]
    BY <2>2, <1>11
  <2> QED BY <2>1, <2>3, <2>4, <2>5, <1>5 DEF Once
<1> QED BY <1>12, <1>14, <1>15, <1>16, <1>5 DEF OutboxInv

\* What an attempt makes of a row that could be tried.
LEMMA OutcomeFacts ==
  ASSUME NEW row \in Notification, NEW mailing \in Mailing, NEW delivered \in BOOLEAN,
         row.attempts < MaxTries, Told(row, mailing)
  PROVE  LET now == [mailing EXCEPT !.tried = @ + 1,
                                    !.delivered = IF delivered THEN @ + 1 ELSE @]
         IN  /\ Outcome(row, delivered) \in Notification
             /\ Told(Outcome(row, delivered), now)
             /\ Outcome(row, delivered).status # "none"
             /\ delivered => Outcome(row, delivered).status = "sent"
             /\ now \in Mailing /\ now.tried = mailing.tried + 1
             /\ now.delivered = IF delivered THEN mailing.delivered + 1 ELSE mailing.delivered
<1> DEFINE now == [mailing EXCEPT !.tried = @ + 1, !.delivered = IF delivered THEN @ + 1 ELSE @]
           new == Outcome(row, delivered)
<1>1. row.attempts \in Nat /\ mailing.tried \in Nat /\ mailing.delivered \in Nat /\ MaxTries \in Nat
  BY OutboxAssumption DEF Notification, Mailing
<1>2. /\ now.tried = mailing.tried + 1
      /\ now.delivered = IF delivered THEN mailing.delivered + 1 ELSE mailing.delivered
  BY DEF Mailing
<1>3. /\ new.attempts = row.attempts + 1
      /\ new.status = IF delivered THEN "sent" ELSE IF row.attempts + 1 >= MaxTries THEN "failed" ELSE "pending"
  BY DEF Outcome
<1>4. new \in Notification
  BY <1>1 DEF Outcome, Notification
<1>5. row.attempts <= mailing.tried
  BY DEF Told
<1>6. now \in Mailing
  <2> DEFINE t == mailing.tried + 1
             k == IF delivered THEN mailing.delivered + 1 ELSE mailing.delivered
  <2>1. t \in Nat /\ k \in Nat
    BY <1>1
  <2>2. now = [mailing EXCEPT !.tried = t, !.delivered = k]
    OBVIOUS
  <2> HIDE DEF now, t, k
  <2> QED BY <2>1, <2>2 DEF Mailing
<1> HIDE DEF now, new
<1>7. Told(new, now)
  BY <1>1, <1>2, <1>3, <1>5 DEF Told
<1>8. new.status # "none" /\ (delivered => new.status = "sent")
  BY <1>3
<1> QED BY <1>2, <1>4, <1>7, <1>8, <1>6 DEF now, new

LEMMA ToldStays ==
  ASSUME NEW row \in Notification, NEW mailing \in Mailing, NEW now \in Mailing, Told(row, mailing),
         now.tried >= mailing.tried, now.delivered >= mailing.delivered
  PROVE  Told(row, now)
<1>1. /\ row.attempts \in Nat /\ mailing.tried \in Nat /\ mailing.delivered \in Nat /\ MaxTries \in Nat
      /\ now.tried \in Nat /\ now.delivered \in Nat
  BY OutboxAssumption DEF Notification, Mailing
<1> QED BY <1>1 DEF Told

\* An attempt changes what happened to one row and what one dispatcher knows of it.
LEMMA AttemptKeeps ==
  ASSUME OutboxInv, NEW d \in Dispatchers, NEW n \in Notices, NEW delivered \in BOOLEAN,
         Attempt(d, n, delivered)
  PROVE  OutboxInv'
<1> DEFINE me == dispatcher[d]
           row == Outcome(me.copy[n], delivered)
           now == [mailings[n] EXCEPT !.tried = @ + 1, !.delivered = IF delivered THEN @ + 1 ELSE @]
           copy == [me.copy EXCEPT ![n] = row]
           new == [me EXCEPT !.todo = @ \ {n}, !.copy = copy]
<1>1. /\ me \in Dispatcher /\ Carries(me) /\ n \in me.todo /\ n \in me.batch
      /\ me.copy \in [Notices -> Notification] /\ mailings[n] \in Mailing
  BY DEF Attempt, Earliest, OutboxInv, OutboxTyped, Carries, Dispatcher
<1>2. me.copy[n].attempts < MaxTries /\ Told(me.copy[n], mailings[n]) /\ me.copy[n] \in Notification
  BY <1>1 DEF Carries
<1>3. /\ row \in Notification /\ Told(row, now) /\ row.status # "none"
      /\ delivered => row.status = "sent"
      /\ now \in Mailing /\ now.tried = mailings[n].tried + 1
      /\ now.delivered = IF delivered THEN mailings[n].delivered + 1 ELSE mailings[n].delivered
  BY <1>1, <1>2, OutcomeFacts
<1>4. dispatcher' = [dispatcher EXCEPT ![d] = new]
  BY <1>1 DEF Attempt, OutboxInv, OutboxTyped, Dispatcher
<1>5. mailings' = [mailings EXCEPT ![n] = now]
  BY <1>1 DEF Attempt, OutboxInv, OutboxTyped, Mailing
<1>6. UNCHANGED <<outbox, smtpEnabled, excused, crashes>>
  BY DEF Attempt
<1>7. /\ copy \in [Notices -> Notification] /\ copy[n] = row
      /\ \A m \in Notices \ {n} : copy[m] = me.copy[m]
  BY <1>1, <1>3
<1> HIDE DEF row, now, copy
<1>8. /\ new \in Dispatcher /\ new.step = me.step /\ new.batch = me.batch /\ new.own = me.own
      /\ new.todo = me.todo \ {n} /\ new.copy = copy
  BY <1>1, <1>7 DEF Dispatcher
<1> HIDE DEF new
<1>9. /\ dispatcher' \in [Dispatchers -> Dispatcher] /\ dispatcher'[d] = new
       /\ \A e \in Dispatchers \ {d} : dispatcher'[e] = dispatcher[e]
  BY <1>4, <1>8 DEF OutboxInv, OutboxTyped
<1>10. /\ mailings' \in [Notices -> Mailing] /\ mailings'[n] = now
       /\ \A m \in Notices \ {n} : mailings'[m] = mailings[m]
  BY <1>5, <1>3 DEF OutboxInv, OutboxTyped
<1>11. OutboxTyped'
  BY <1>6, <1>9, <1>10 DEF OutboxInv, OutboxTyped
<1>12. \A r \in Notification, m \in Notices : Told(r, mailings[m]) => Told(r, mailings'[m])
  <2> SUFFICES ASSUME NEW r \in Notification, NEW m \in Notices, Told(r, mailings[m])
               PROVE  Told(r, mailings'[m])
    OBVIOUS
  <2>1. CASE m = n
    <3>1. mailings[n].tried \in Nat /\ mailings[n].delivered \in Nat
      BY <1>1 DEF Mailing
    <3>2. now.tried >= mailings[n].tried /\ now.delivered >= mailings[n].delivered
      BY <3>1, <1>3
    <3> QED BY <2>1, <3>2, <1>1, <1>3, <1>10, ToldStays
  <2>2. CASE m # n
    BY <2>2, <1>10
  <2> QED BY <2>1, <2>2
<1>13. \A m \in Notices : Told(outbox[m], mailings[m])'
  BY <1>6, <1>12 DEF OutboxInv, OutboxTyped
<1>14. Carries(dispatcher[d])'
  <2>1. \A m \in (me.batch \cup me.own) : m \in Notices
    BY <1>1 DEF Dispatcher
  <2>2. \A m \in new.batch \cup new.own : Told(new.copy[m], mailings'[m]) /\ new.copy[m].status # "none"
    BY <1>1, <1>3, <1>7, <1>8, <1>10, <1>12, <2>1 DEF Carries
  <2>3. \A m \in new.todo : new.copy[m].status = "pending" /\ new.copy[m].attempts < MaxTries
    BY <1>1, <1>7, <1>8, <2>1 DEF Carries
  <2> QED BY <1>1, <1>6, <1>8, <1>9, <2>2, <2>3 DEF Carries
<1>15. \A e \in Dispatchers \ {d} : Carries(dispatcher[e])'
  <2> SUFFICES ASSUME NEW e \in Dispatchers \ {d} PROVE Carries(dispatcher[e])'
    OBVIOUS
  <2>1. Carries(dispatcher[e]) /\ dispatcher'[e] = dispatcher[e] /\ dispatcher[e] \in Dispatcher
    BY <1>9 DEF OutboxInv, OutboxTyped
  <2>2. \A m \in dispatcher[e].batch \cup dispatcher[e].own :
          m \in Notices /\ dispatcher[e].copy[m] \in Notification
    BY <2>1 DEF Dispatcher
  <2> QED BY <2>1, <2>2, <1>6, <1>12 DEF Carries
<1>16. \A e, f \in Dispatchers : e # f => dispatcher'[e].own \cap dispatcher'[f].own = {}
  BY <1>8, <1>9 DEF OutboxInv
<1>17. \A m \in Notices \ excused' : Once(m)'
  <2> SUFFICES ASSUME NEW m \in Notices \ excused PROVE Once(m)'
    BY <1>6
  <2>1. Once(m)
    BY DEF OutboxInv
  <2>2. \A e \in Dispatchers : dispatcher'[e].batch = dispatcher[e].batch
    BY <1>8, <1>9
  <2>3. CASE m = n
    <3>1. mailings[n].delivered = 0
      BY <2>3, <1>1, NotYetDelivered
    <3>2. delivered => mailings'[n].delivered = 1 /\ dispatcher'[d].copy[n].status = "sent"
      BY <3>1, <1>3, <1>7, <1>3, <1>8, <1>9, <1>10
    <3>3. ~delivered => mailings'[n].delivered = 0
      BY <3>1, <1>3, <1>10
    <3>4. n \in dispatcher'[d].batch
      BY <1>1, <2>2
    <3> QED BY <2>1, <2>2, <2>3, <3>2, <3>3, <3>4, <1>6 DEF Once
  <2>4. CASE m # n
    <3>1. \A e \in Dispatchers : dispatcher'[e].copy[m] = dispatcher[e].copy[m]
      BY <2>4, <1>7, <1>8, <1>9
    <3> QED BY <2>1, <2>2, <2>4, <3>1, <1>6, <1>10 DEF Once
  <2> QED BY <2>3, <2>4
<1> QED BY <1>11, <1>13, <1>14, <1>15, <1>16, <1>17 DEF OutboxInv

\* What a dispatcher writes tells no more than what happened, and is there.
LEMMA WrittenFacts ==
  ASSUME OutboxInv, NEW d \in Dispatchers, NEW n \in dispatcher[d].batch \cup dispatcher[d].own
  PROVE  /\ n \in Notices /\ Written(d, n) \in Notification
         /\ Told(Written(d, n), mailings[n])
         /\ Written(d, n).status # "none"
         /\ dispatcher[d].copy[n].status = "sent" => Written(d, n).status = "sent"
<1> DEFINE me == dispatcher[d]
           copy == me.copy[n]
           row == Written(d, n)
<1>1. /\ me \in Dispatcher /\ Carries(me) /\ n \in Notices /\ copy \in Notification
      /\ outbox[n] \in Notification /\ Told(outbox[n], mailings[n])
  BY DEF OutboxInv, OutboxTyped, Dispatcher
<1>2. Told(copy, mailings[n]) /\ copy.status # "none"
  BY <1>1 DEF Carries
<1>3. CASE n \in me.own
  BY <1>1, <1>2, <1>3 DEF Written
<1>4. CASE n \notin me.own
  <2>1. outbox[n].status # "none"
    BY <1>1, <1>4 DEF Carries
  <2>2. /\ row.attempts = copy.attempts
        /\ row.status = IF copy.status = "pending" THEN outbox[n].status ELSE copy.status
        /\ row \in Notification
    BY <1>1, <1>4 DEF Written, Notification
  <2> HIDE DEF row
  <2>3. Told(row, mailings[n]) /\ row.status # "none"
    BY <1>1, <1>2, <2>1, <2>2 DEF Told
  <2> QED BY <1>1, <2>2, <2>3 DEF row
<1> QED BY <1>3, <1>4

\* The batch is written and the dispatcher is done with it.
LEMMA CommitBatchKeeps == ASSUME OutboxInv, NEW d \in Dispatchers, CommitBatch(d) PROVE OutboxInv'
<1> DEFINE me == dispatcher[d]
           mine == me.batch \cup me.own
<1>1. /\ UNCHANGED <<smtpEnabled, mailings, excused, crashes>>
      /\ dispatcher' = [dispatcher EXCEPT ![d] = Asleep]
      /\ outbox' = [n \in Notices |-> IF n \in mine THEN Written(d, n) ELSE outbox[n]]
  BY DEF CommitBatch
<1>2. \A n \in mine : n \in Notices /\ outbox'[n] = Written(d, n)
  BY <1>1, WrittenFacts
<1>3. \A n \in Notices \ mine : outbox'[n] = outbox[n]
  BY <1>1
<1>4. /\ dispatcher' \in [Dispatchers -> Dispatcher] /\ dispatcher'[d] = Asleep
      /\ \A e \in Dispatchers \ {d} : dispatcher'[e] = dispatcher[e]
  BY <1>1, RowFacts DEF OutboxInv, OutboxTyped
<1>5. \A n \in Notices : outbox'[n] \in Notification /\ Told(outbox'[n], mailings[n])
  BY <1>2, <1>3, WrittenFacts DEF OutboxInv, OutboxTyped
<1>6. outbox' \in [Notices -> Notification]
  BY <1>1, <1>5
<1>7. OutboxTyped'
  BY <1>1, <1>4, <1>6 DEF OutboxInv, OutboxTyped
<1>8. \A n \in Notices : outbox[n].status # "none" => outbox'[n].status # "none"
  BY <1>2, <1>3, WrittenFacts
\* The rows another session made are not among them.
<1>9. \A e \in Dispatchers \ {d} : \A n \in dispatcher[e].own : n \in Notices \ mine
  <2> SUFFICES ASSUME NEW e \in Dispatchers \ {d}, NEW n \in dispatcher[e].own PROVE n \in Notices \ mine
    OBVIOUS
  <2>1. n \in Notices /\ outbox[n].status = "none"
    BY DEF OutboxInv, OutboxTyped, Dispatcher, Carries
  <2>2. n \notin me.own
    BY DEF OutboxInv
  <2>3. n \notin me.batch
    BY <2>1, <2>2 DEF OutboxInv, Carries
  <2> QED BY <2>1, <2>2, <2>3
<1>10. \A e \in Dispatchers : Carries(dispatcher[e])'
  <2>1. CASE TRUE /\ \A e \in Dispatchers \ {d} : Carries(dispatcher[e])'
    BY <2>1, <1>4, AsleepCarries
  <2>2. ASSUME NEW e \in Dispatchers \ {d} PROVE Carries(dispatcher[e])'
    <3>1. Carries(dispatcher[e]) /\ dispatcher[e].batch \subseteq Notices /\ dispatcher[e].own \subseteq Notices
      BY DEF OutboxInv, OutboxTyped, Dispatcher
    <3>2. \A n \in dispatcher[e].own : outbox'[n].status = "none"
      BY <3>1, <1>3, <1>9 DEF Carries
    <3>3. \A n \in dispatcher[e].batch \ dispatcher[e].own : outbox'[n].status # "none"
      BY <3>1, <1>8 DEF Carries
    <3> QED BY <3>1, <3>2, <3>3, <1>1, <1>4 DEF Carries
  <2> QED BY <2>1, <2>2
<1>11. \A e, f \in Dispatchers : e # f => dispatcher'[e].own \cap dispatcher'[f].own = {}
  BY <1>4, RowFacts DEF OutboxInv
<1>12. \A n \in Notices \ excused' : Once(n)'
  <2> SUFFICES ASSUME NEW n \in Notices \ excused PROVE Once(n)'
    BY <1>1
  <2>1. Once(n)
    BY DEF OutboxInv
  <2>2. \A e \in Dispatchers : n \in dispatcher'[e].batch =>
          e # d /\ dispatcher'[e] = dispatcher[e] /\ n \in dispatcher[e].batch
    BY <1>4, RowFacts
  <2>3. \A e \in Dispatchers \ {d} : n \in dispatcher[e].batch => outbox'[n] = outbox[n]
    <3> SUFFICES ASSUME NEW e \in Dispatchers \ {d}, n \in dispatcher[e].batch PROVE outbox'[n] = outbox[n]
      OBVIOUS
    <3>1. n \notin me.batch
      BY <2>1 DEF Once
    <3>2. n \notin me.own
      BY <1>9 DEF OutboxInv, Carries
    <3> QED BY <3>1, <3>2, <1>3
  <2>4. \A e \in Dispatchers : n \in dispatcher'[e].batch => outbox'[n].status \in {"none", "pending"}
    BY <2>1, <2>2, <2>3 DEF Once
  <2>5. outbox[n].status = "sent" => outbox'[n].status = "sent"
    <3>1. outbox[n].status = "sent" => n \notin mine
      BY <2>1 DEF Once, OutboxInv, Carries
    <3> QED BY <3>1, <1>3
  <2>6. ASSUME NEW e \in Dispatchers, n \in dispatcher[e].batch, dispatcher[e].copy[n].status = "sent"
        PROVE  \/ outbox'[n].status = "sent"
               \/ n \in dispatcher'[e].batch /\ dispatcher'[e].copy[n].status = "sent"
    <3>1. CASE e = d
      BY <2>6, <3>1, <1>2, WrittenFacts
    <3>2. CASE e # d
      BY <2>6, <3>2, <1>4
    <3> QED BY <3>1, <3>2
  <2>7. \A e, f \in Dispatchers : n \in dispatcher'[e].batch /\ n \in dispatcher'[f].batch => e = f
    BY <2>1, <2>2 DEF Once
  <2> QED BY <2>1, <2>4, <2>5, <2>6, <2>7, <1>1 DEF Once
<1> QED BY <1>1, <1>5, <1>7, <1>10, <1>11, <1>12 DEF OutboxInv

\* A dispatcher dies with its batch, which is excused.
LEMMA DyingKeeps == ASSUME OutboxInv, NEW d \in Dispatchers, DieDispatching(d) PROVE OutboxInv'
<1>1. /\ UNCHANGED <<outbox, smtpEnabled, mailings>>
      /\ excused' = excused \cup dispatcher[d].batch
      /\ dispatcher' = [dispatcher EXCEPT ![d] = Asleep]
      /\ crashes < MaxCrashes /\ crashes' = crashes + 1
  BY DEF DieDispatching
<1>2. /\ dispatcher' \in [Dispatchers -> Dispatcher] /\ dispatcher'[d] = Asleep
      /\ \A e \in Dispatchers \ {d} : dispatcher'[e] = dispatcher[e]
  BY <1>1, RowFacts DEF OutboxInv, OutboxTyped
<1>3. dispatcher[d].batch \subseteq Notices /\ crashes' \in 0 .. MaxCrashes
  BY <1>1, OutboxAssumption DEF OutboxInv, OutboxTyped, Dispatcher
<1>4. OutboxTyped'
  BY <1>1, <1>2, <1>3 DEF OutboxInv, OutboxTyped
<1>5. \A e \in Dispatchers : Carries(dispatcher[e])'
  BY <1>1, <1>2, AsleepCarries DEF OutboxInv, Carries
<1>6. \A e, f \in Dispatchers : e # f => dispatcher'[e].own \cap dispatcher'[f].own = {}
  BY <1>2, RowFacts DEF OutboxInv
<1>7. \A n \in Notices \ excused' : Once(n)'
  <2> SUFFICES ASSUME NEW n \in Notices \ excused' PROVE Once(n)'
    OBVIOUS
  <2>1. Once(n) /\ n \notin dispatcher[d].batch
    BY <1>1 DEF OutboxInv
  <2>2. n \notin dispatcher'[d].batch
    BY <1>2, RowFacts
  <2> QED BY <1>1, <1>2, <2>1, <2>2 DEF Once
<1> QED BY <1>1, <1>4, <1>5, <1>6, <1>7 DEF OutboxInv

LEMMA OutboxStep == OutboxInv /\ [OutboxNext]_outboxVars => OutboxInv'
<1> SUFFICES ASSUME OutboxInv, [OutboxNext]_outboxVars PROVE OutboxInv'
  OBVIOUS
<1>1. ASSUME NEW d \in Dispatchers, Flush(d) \/ SendDigest(d) PROVE OutboxInv'
  <2>1. PICK own \in SUBSET Unmade : BeginBatch(d, own)
    BY <1>1 DEF Flush, SendDigest, Earliest
  <2> QED BY <2>1, BeginBatchKeeps
<1>2. CASE UNCHANGED outboxVars
  BY <1>2 DEF outboxVars, OutboxInv, OutboxTyped, Carries, Once
<1> QED BY <1>1, <1>2, QueueKeeps, AttemptKeeps, CommitBatchKeeps, DyingKeeps DEF OutboxNext

-----------------------------------------------------------------------------
(* The theorems.                                                             *)

LEMMA OutboxInvariance == OutboxSpec => []OutboxInv
BY OutboxStarts, OutboxStep, PTL DEF OutboxSpec

\* Every variable and every field has its type in every reachable state.
THEOREM OutboxTypeCorrect == OutboxSpec => []OutboxTypeOK
<1>1. OutboxInv => OutboxTypeOK
  BY DEF OutboxInv, OutboxTyped, Dispatcher, Mailing, Carries, OutboxTypeOK
<1> QED BY OutboxInvariance, <1>1, PTL

\* However many dispatchers flush one outbox, take the digest along and die with mails
\* that have left, a notice is given up only after all its attempts, one that reads sent
\* was delivered, and none is delivered twice unless two of them had loaded it at once or
\* one died with it (services/notifications.dispatch, services/digest.run).
THEOREM NoticesAccounted == OutboxSpec => []NoticesAreAccounted
<1>1. ASSUME OutboxInv PROVE GivesUpLate
  BY <1>1 DEF OutboxInv, Told, GivesUpLate
<1>2. ASSUME OutboxInv PROVE MailedOnce
  <2> SUFFICES ASSUME NEW n \in Notices \ excused
               PROVE  /\ mailings[n].delivered <= 1
                      /\ mailings[n].delivered = 1 => outbox[n].status # "failed"
    BY DEF MailedOnce
  <2>1. Once(n)
    BY <1>2 DEF OutboxInv
  <2> QED BY <2>1 DEF Once
<1>3. OutboxInv => NoticesAreAccounted
  BY <1>1, <1>2 DEF NoticesAreAccounted
<1> QED BY OutboxInvariance, <1>3, PTL

-----------------------------------------------------------------------------
(***************************************************************************)
(* Theorems of ScannerSync, for every set of scans and of requests and any *)
(* number of exports.                                                      *)
(***************************************************************************)

Exports == Scans \X (1 .. MaxExports)

\* What the type invariant says of a request in parts, and of what it leaves out.
Puller == [step : {"idle", "editing", "pulling"}, row : Connector, todo : SUBSET Scans,
           dry : BOOLEAN, seen : [Scans -> 0 .. MaxExports],
           staged : SUBSET Exports, skipped : SUBSET Exports]

ScannerTyped ==
  /\ connector \in Connector /\ export \in [Scans -> 1 .. MaxExports]
  /\ puller \in [Pullers -> Puller]
  /\ imported \subseteq Exports /\ closings \subseteq BOOLEAN

\* The digests a row notes are of exports that are in `known`.
Believed(seen, known) == \A s \in Scans : seen[s] # 0 => <<s, seen[s]>> \in known

\* The row a request loaded is believed; the copy of a sync is, once what it staged
\* is committed with it; a scan it has not pulled yet has the digest of the row; what it
\* skipped was imported; and one that closes by absence was checked for an engagement.
Honest(me, known) ==
  /\ Believed(me.row.seen, known)
  /\ me.step = "pulling" =>
       /\ Believed(me.seen, known \cup me.staged)
       /\ \A s \in me.todo : me.seen[s] = me.row.seen[s]
       /\ me.row.closeAbsent => me.row.engagement
  /\ me.skipped \subseteq known

\* The inductive invariant.
ScannerInv ==
  /\ ScannerTyped
  /\ Believed(connector.seen, imported)
  /\ \A p \in Pullers : Honest(puller[p], imported)
  /\ ClosesInScope

-----------------------------------------------------------------------------
(* The requests.                                                             *)

LEMMA NothingSeen ==
  /\ NoConnector \in Connector /\ Resting \in Puller
  /\ \A known : Believed(NoConnector.seen, known) /\ Honest(Resting, known)
<1>1. NoConnector \in Connector
  BY ScannerSyncAssumption DEF NoConnector, Connector
<1>2. \A known : Believed(NoConnector.seen, known)
  BY DEF NoConnector, Believed
<1>3. Resting \in Puller
  BY <1>1 DEF Resting, Puller, NoConnector, Connector
<1>4. \A known : Honest(Resting, known)
  BY <1>2 DEF Resting, Honest
<1> QED BY <1>1, <1>2, <1>3, <1>4

\* What is imported stays imported, so nothing that was believed is doubted.
LEMMA HonestStays ==
  ASSUME NEW me, NEW known, NEW more, known \subseteq more, Honest(me, known)
  PROVE  Honest(me, more)
BY DEF Honest, Believed

\* A step of one request: the others are as honest as they were.
LEMMA OneRequest ==
  ASSUME ScannerInv, NEW p \in Pullers, NEW new \in Puller,
         puller' = [puller EXCEPT ![p] = new], imported \subseteq imported',
         Honest(new, imported')
  PROVE  /\ puller' \in [Pullers -> Puller]
         /\ \A q \in Pullers : Honest(puller'[q], imported')
<1>1. puller' \in [Pullers -> Puller]
  BY DEF ScannerInv, ScannerTyped
<1>2. ASSUME NEW q \in Pullers PROVE Honest(puller'[q], imported')
  <2>1. CASE q = p
    BY <2>1 DEF ScannerInv, ScannerTyped
  <2>2. CASE q # p
    <3>1. puller'[q] = puller[q] /\ Honest(puller[q], imported)
      BY <2>2 DEF ScannerInv, ScannerTyped
    <3> QED BY <3>1, HonestStays
  <2> QED BY <2>1, <2>2
<1> QED BY <1>1, <1>2

\* A request that ends, whatever it leaves.
LEMMA RequestEnds ==
  ASSUME ScannerInv, NEW p \in Pullers, puller' = [puller EXCEPT ![p] = Resting],
         imported \subseteq imported'
  PROVE  /\ puller' \in [Pullers -> Puller]
         /\ \A q \in Pullers : Honest(puller'[q], imported')
BY OneRequest, NothingSeen

\* A request that goes on and leaves the connector and what is imported alone.
LEMMA RequestGoesOn ==
  ASSUME ScannerInv, NEW p \in Pullers, NEW new \in Puller, Honest(new, imported),
         puller' = [puller EXCEPT ![p] = new],
         UNCHANGED <<connector, export, imported, closings>>
  PROVE  ScannerInv'
<1>1. /\ puller' \in [Pullers -> Puller]
      /\ \A q \in Pullers : Honest(puller'[q], imported')
  BY OneRequest
<1>2. ScannerTyped' /\ Believed(connector.seen, imported)'
  BY <1>1 DEF ScannerInv, ScannerTyped
<1> QED BY <1>1, <1>2 DEF ScannerInv, ClosesInScope

-----------------------------------------------------------------------------
(* One step per operation.                                                   *)

LEMMA ScannersStart == ScannerInit => ScannerInv
<1> SUFFICES ASSUME ScannerInit PROVE ScannerInv
  OBVIOUS
<1>1. ScannerTyped
  BY NothingSeen, ScannerSyncAssumption DEF ScannerInit, ScannerTyped
<1>2. /\ Believed(connector.seen, imported) /\ ClosesInScope
      /\ \A p \in Pullers : Honest(puller[p], imported)
  BY NothingSeen DEF ScannerInit, ClosesInScope
<1> QED BY <1>1, <1>2 DEF ScannerInv

LEMMA CreateScannerKeeps == ASSUME ScannerInv, CreateScanner PROVE ScannerInv'
<1>1. PICK on \in BOOLEAN, a \in SUBSET Scans, e \in BOOLEAN, c \in BOOLEAN :
        connector' = [NoConnector EXCEPT !.exists = TRUE, !.enabled = on, !.allowed = a,
                                         !.engagement = e, !.closeAbsent = c]
  BY DEF CreateScanner
<1>2. connector' \in Connector /\ connector'.seen = NoConnector.seen
  BY <1>1, NothingSeen DEF Connector
<1>3. Believed(connector.seen, imported)'
  BY <1>2, NothingSeen DEF CreateScanner
<1>4. ScannerTyped'
  BY <1>2 DEF CreateScanner, ScannerInv, ScannerTyped
<1> QED BY <1>3, <1>4 DEF CreateScanner, ScannerInv, ClosesInScope

LEMMA LoadScannerKeeps == ASSUME ScannerInv, NEW p \in Pullers, LoadScanner(p) PROVE ScannerInv'
<1> DEFINE new == [Resting EXCEPT !.step = "editing", !.row = connector]
<1>1. new \in Puller
  BY NothingSeen DEF ScannerInv, ScannerTyped, Puller
<1>2. /\ new.step = "editing" /\ new.row = connector /\ new.skipped = {}
  BY DEF Resting
<1>3. Honest(new, imported)
  BY <1>2 DEF ScannerInv, Honest
<1>4. puller' = [puller EXCEPT ![p] = new] /\ UNCHANGED <<connector, export, imported, closings>>
  BY DEF LoadScanner
<1> HIDE DEF new
<1> QED BY <1>1, <1>3, <1>4, RequestGoesOn

\* A patch writes one column that is not the digests.
LEMMA PatchScannerKeeps == ASSUME ScannerInv, NEW p \in Pullers, PatchScanner(p) PROVE ScannerInv'
<1>1. puller[p].row \in Connector /\ connector \in Connector
  BY DEF ScannerInv, ScannerTyped, Puller
<1>2. connector' \in Connector /\ connector'.seen = connector.seen
  BY <1>1 DEF PatchScanner, Connector
<1>3. /\ puller' \in [Pullers -> Puller]
      /\ \A q \in Pullers : Honest(puller'[q], imported')
  BY RequestEnds DEF PatchScanner
<1>4. ScannerTyped' /\ Believed(connector.seen, imported)'
  BY <1>2, <1>3 DEF PatchScanner, ScannerInv, ScannerTyped
<1> QED BY <1>3, <1>4 DEF PatchScanner, ScannerInv, ClosesInScope

LEMMA DeleteScannerKeeps == ASSUME ScannerInv, NEW p \in Pullers, DeleteScanner(p) PROVE ScannerInv'
<1>1. /\ puller' \in [Pullers -> Puller]
      /\ \A q \in Pullers : Honest(puller'[q], imported')
  BY RequestEnds DEF DeleteScanner
<1>2. ScannerTyped' /\ Believed(connector.seen, imported)'
  BY <1>1, NothingSeen DEF DeleteScanner, ScannerInv, ScannerTyped
<1> QED BY <1>1, <1>2 DEF DeleteScanner, ScannerInv, ClosesInScope

\* Only a row that is fit is pulled for.
LEMMA BeginSyncKeeps ==
  ASSUME ScannerInv, NEW p \in Pullers, NEW scans \in SUBSET Scans, NEW dry \in BOOLEAN,
         BeginSync(p, scans, dry)
  PROVE  ScannerInv'
<1> DEFINE me == puller[p]
           new == [me EXCEPT !.step = "pulling", !.todo = scans, !.dry = dry, !.seen = me.row.seen]
<1>1. me \in Puller /\ me.row.seen \in [Scans -> 0 .. MaxExports] /\ Honest(me, imported)
  BY DEF ScannerInv, ScannerTyped, Puller, Connector
<1>2. new \in Puller
  BY <1>1 DEF Puller
<1>3. /\ new.row = me.row /\ new.todo = scans /\ new.seen = me.row.seen
      /\ new.skipped = me.skipped /\ new.staged = me.staged
  BY <1>1 DEF Puller
<1>4. me.row.closeAbsent => me.row.engagement
  BY DEF BeginSync, MaySync
<1>5. puller' = [puller EXCEPT ![p] = new] /\ UNCHANGED <<connector, export, imported, closings>>
  BY <1>1 DEF BeginSync, ScannerInv, ScannerTyped
<1> HIDE DEF new
<1>6. Honest(new, imported)
  BY <1>1, <1>3, <1>4 DEF Honest, Believed
<1> QED BY <1>2, <1>5, <1>6, RequestGoesOn

\* One scan is pulled, whatever came of it: its digest is the one there was or the one
\* of an export that is staged, and it is skipped only for an export that was imported.
LEMMA PulledKeeps ==
  ASSUME ScannerInv, NEW p \in Pullers, NEW s \in Scans,
         NEW seen \in [Scans -> 0 .. MaxExports], NEW staged \in SUBSET Exports,
         NEW skipped \in SUBSET Exports,
         Pulled(p, s, seen, staged, skipped),
         puller[p].staged \subseteq staged, skipped \subseteq imported,
         \A t \in Scans \ {s} : seen[t] = puller[p].seen[t],
         seen[s] = puller[p].seen[s] \/ <<s, seen[s]>> \in staged
  PROVE  ScannerInv'
<1> DEFINE me == puller[p]
           new == [me EXCEPT !.todo = @ \ {s}, !.seen = seen, !.staged = staged, !.skipped = skipped]
<1>1. me \in Puller /\ Honest(me, imported) /\ me.step = "pulling"
  BY DEF ScannerInv, ScannerTyped, Pulled
<1>2. new \in Puller
  BY <1>1 DEF Puller
<1>3. /\ new.row = me.row /\ new.todo = me.todo \ {s} /\ new.seen = seen /\ new.step = "pulling"
      /\ new.skipped = skipped /\ new.staged = staged
  BY <1>1 DEF Puller
<1>4. puller' = [puller EXCEPT ![p] = new] /\ UNCHANGED <<connector, export, imported, closings>>
  BY <1>1 DEF Pulled, ScannerInv, ScannerTyped
<1>5. Believed(seen, imported \cup staged)
  BY <1>1 DEF Honest, Believed
<1>6. \A t \in me.todo \ {s} : seen[t] = me.row.seen[t]
  BY <1>1 DEF Honest, Puller
<1> HIDE DEF new
<1>7. Honest(new, imported)
  BY <1>1, <1>3, <1>5, <1>6 DEF Honest
<1> QED BY <1>2, <1>4, <1>7, RequestGoesOn

LEMMA PullingKeeps ==
  ASSUME ScannerInv, NEW p \in Pullers, NEW s \in Scans,
         \/ SkipScan(p, s) \/ ImportScan(p, s) \/ FailScan(p, s)
  PROVE  ScannerInv'
<1> DEFINE me == puller[p]
<1>1. me \in Puller /\ Honest(me, imported) /\ export[s] \in 1 .. MaxExports
  BY DEF ScannerInv, ScannerTyped
<1>2. /\ me.seen \in [Scans -> 0 .. MaxExports] /\ me.staged \in SUBSET Exports
      /\ me.skipped \in SUBSET Exports /\ me.dry \in BOOLEAN
  BY <1>1 DEF Puller
<1>3. me.step = "pulling" /\ s \in me.todo
  BY DEF SkipScan, ImportScan, FailScan, Pulled
<1>4. <<s, export[s]>> \in Exports
  BY <1>1 DEF Exports
<1>5. CASE SkipScan(p, s)
  <2>1. me.row.seen[s] = export[s]
    BY <1>1, <1>3, <1>5 DEF SkipScan, Honest
  <2>2. <<s, export[s]>> \in imported
    BY <1>1, <2>1 DEF Honest, Believed
  <2>3. me.skipped \cup {<<s, export[s]>>} \subseteq imported
    BY <1>1, <2>2 DEF Honest
  <2> DEFINE skipped == me.skipped \cup {<<s, export[s]>>}
  <2>4. skipped \in SUBSET Exports /\ skipped \subseteq imported
    BY <1>2, <1>4, <2>3
  <2>5. Pulled(p, s, me.seen, me.staged, skipped)
    BY <1>5 DEF SkipScan
  <2> HIDE DEF skipped
  <2> QED BY <1>2, <2>4, <2>5, PulledKeeps
<1>6. CASE ImportScan(p, s)
  <2> DEFINE seen == [me.seen EXCEPT ![s] = IF me.dry THEN @ ELSE export[s]]
             staged == me.staged \cup {<<s, export[s]>>}
  <2>1. /\ seen \in [Scans -> 0 .. MaxExports] /\ staged \in SUBSET Exports
        /\ \A t \in Scans \ {s} : seen[t] = me.seen[t]
        /\ seen[s] = me.seen[s] \/ <<s, seen[s]>> \in staged
    BY <1>1, <1>2, <1>4
  <2>2. Pulled(p, s, seen, staged, me.skipped)
    BY <1>6 DEF ImportScan
  <2>3. me.skipped \subseteq imported /\ me.staged \subseteq staged
    BY <1>1 DEF Honest
  <2> HIDE DEF seen, staged
  <2> QED BY <1>2, <2>1, <2>2, <2>3, PulledKeeps
<1>7. CASE FailScan(p, s)
  <2>1. me.skipped \subseteq imported
    BY <1>1 DEF Honest
  <2> QED BY <1>2, <1>7, <2>1, PulledKeeps DEF FailScan
<1> QED BY <1>5, <1>6, <1>7

\* The digests, the exports and the closures are committed together.
LEMMA CommitSyncKeeps == ASSUME ScannerInv, NEW p \in Pullers, CommitSync(p) PROVE ScannerInv'
<1> DEFINE me == puller[p]
<1>1. me \in Puller /\ Honest(me, imported) /\ me.step = "pulling" /\ connector \in Connector
  BY DEF ScannerInv, ScannerTyped, CommitSync
<1>2. me.seen \in [Scans -> 0 .. MaxExports] /\ me.staged \subseteq Exports /\ me.row \in Connector
  BY <1>1 DEF Puller
<1>3. imported' = imported \cup me.staged
  BY DEF CommitSync
<1>4. connector' \in Connector /\ connector'.seen \in {connector.seen, me.seen}
  BY <1>1, <1>2 DEF CommitSync, Connector
<1>5. Believed(connector.seen, imported) /\ Believed(me.seen, imported \cup me.staged)
  BY <1>1 DEF ScannerInv, Honest
<1>6. Believed(connector.seen, imported)'
  BY <1>3, <1>4, <1>5 DEF Believed
<1>7. closings' \subseteq BOOLEAN /\ FALSE \notin closings'
  BY <1>1, <1>2 DEF CommitSync, ScannerInv, ScannerTyped, ClosesInScope, Honest, Connector
<1>8. /\ puller' \in [Pullers -> Puller]
      /\ \A q \in Pullers : Honest(puller'[q], imported')
  BY <1>3, RequestEnds DEF CommitSync
<1>9. ScannerTyped'
  BY <1>2, <1>3, <1>4, <1>7, <1>8 DEF CommitSync, ScannerInv, ScannerTyped
<1> QED BY <1>6, <1>7, <1>8, <1>9 DEF ScannerInv, ClosesInScope

LEMMA EndingKeeps ==
  ASSUME ScannerInv, NEW p \in Pullers, EndPreview(p) \/ AbortSync(p)
  PROVE  ScannerInv'
<1>1. UNCHANGED <<connector, export, imported, closings>> /\ puller' = [puller EXCEPT ![p] = Resting]
  BY DEF EndPreview, AbortSync
<1> QED BY <1>1, NothingSeen, RequestGoesOn

LEMMA RescanKeeps == ASSUME ScannerInv, NEW s \in Scans, Rescan(s) PROVE ScannerInv'
<1>1. export' \in [Scans -> 1 .. MaxExports]
  BY DEF Rescan, ScannerInv, ScannerTyped
<1> QED BY <1>1 DEF Rescan, ScannerInv, ScannerTyped, ClosesInScope

LEMMA ScannersStep == ScannerInv /\ [ScannerNext]_scannerVars => ScannerInv'
<1> SUFFICES ASSUME ScannerInv, [ScannerNext]_scannerVars PROVE ScannerInv'
  OBVIOUS
<1>1. CASE UNCHANGED scannerVars
  BY <1>1 DEF scannerVars, ScannerInv, ScannerTyped, ClosesInScope
<1> QED BY <1>1, CreateScannerKeeps, LoadScannerKeeps, PatchScannerKeeps, DeleteScannerKeeps,
           BeginSyncKeeps, PullingKeeps, CommitSyncKeeps, EndingKeeps, RescanKeeps
        DEF ScannerNext

-----------------------------------------------------------------------------
(* The theorems.                                                             *)

LEMMA ScannersInvariance == ScannerSpec => []ScannerInv
BY ScannersStart, ScannersStep, PTL DEF ScannerSpec

\* Every variable and every field has its type in every reachable state.
THEOREM ScannerTypeCorrect == ScannerSpec => []ScannerTypeOK
<1>1. ScannerInv => ScannerTypeOK
  BY DEF ScannerInv, ScannerTyped, Puller, ScannerTypeOK, Exports
<1> QED BY ScannersInvariance, <1>1, PTL

\* However syncs, dry runs, edits and deletions of one connector overlap, fail or are
\* rolled back, an export is skipped only if it was imported and committed, and nothing
\* is closed by absence from a scan without an engagement (services/scanners.sync).
THEOREM SyncsSound == ScannerSpec => []SyncsAreSound
<1>1. ScannerInv => SyncsAreSound
  BY DEF ScannerInv, Honest, Believed, SyncsAreSound, SkippedWasImported
<1> QED BY ScannersInvariance, <1>1, PTL

-----------------------------------------------------------------------------
(***************************************************************************)
(* The services side by side.                                              *)
(***************************************************************************)

\* A step of one service leaves the variables of the others alone.
LEMMA OneServiceMoves ==
  ASSUME [MCNext]_MCVars
  PROVE  /\ [UpdatesNext]_updatesVars /\ [SecretNext]_secretVars
         /\ [OutboxNext]_outboxVars /\ [ScannerNext]_scannerVars
<1>1. CASE MCNext
  BY <1>1 DEF MCNext
<1>2. CASE UNCHANGED MCVars
  BY <1>2 DEF MCVars
<1> QED BY <1>1, <1>2

\* The services side by side keep the invariants each keeps by itself.
LEMMA OperationsInvariance == MCSpec => [](UpdatesInv /\ SecretInv /\ OutboxInv /\ ScannerInv)
<1>1. MCInit => UpdatesInv /\ SecretInv /\ OutboxInv /\ ScannerInv
  BY UpdatesStart, SecretsStart, OutboxStarts, ScannersStart DEF MCInit
<1>2. ASSUME UpdatesInv, SecretInv, OutboxInv, ScannerInv, [MCNext]_MCVars
      PROVE  UpdatesInv' /\ SecretInv' /\ OutboxInv' /\ ScannerInv'
  BY <1>2, OneServiceMoves, UpdatesStep, SecretsStep, OutboxStep, ScannersStep
<1> QED BY <1>1, <1>2, PTL DEF MCSpec

\* Every variable of the four services keeps its type, whichever of them runs
\* (services/updates, secret_storage, notifications, scanners).
THEOREM OperationsTypeCorrect == MCSpec => []OperationsTypeOK
<1>1. UpdatesInv => UpdatesTypeOK
  BY DEF UpdatesInv
<1>2. SecretInv => SecretTypeOK
  BY DEF SecretInv
<1>3. OutboxInv => OutboxTypeOK
  BY DEF OutboxInv, OutboxTyped, Dispatcher, Mailing, Carries, OutboxTypeOK
<1>4. ScannerInv => ScannerTypeOK
  BY DEF ScannerInv, ScannerTyped, Puller, ScannerTypeOK, Exports
<1>5. UpdatesInv /\ SecretInv /\ OutboxInv /\ ScannerInv => OperationsTypeOK
  BY <1>1, <1>2, <1>3, <1>4 DEF OperationsTypeOK
<1> QED BY OperationsInvariance, <1>5, PTL
=============================================================================
