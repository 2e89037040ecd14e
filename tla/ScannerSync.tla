----------------------------- MODULE ScannerSync -----------------------------
(***************************************************************************)
(* Scanner connectors: what an operator configures, and the sync that pulls  *)
(* the allowed scans of a remote console and imports each                    *)
(* (services/scanners, the scanner endpoints of api/v1/integrations).        *)
(*                                                                           *)
(* A request loads the connector's row once and writes the columns it        *)
(* changed at its commit, over whatever another request wrote meanwhile.  A  *)
(* sync holds its copy while it pulls, scan after scan.                      *)
(***************************************************************************)
EXTENDS Integers

CONSTANTS
  Scans,        \* scans of the remote console
  Pullers,      \* requests that may sync or edit the connector at the same time
  MaxExports    \* bound: what one scan exports, in the order the console has it

ASSUME ScannerSyncAssumption == MaxExports \in Nat \ {0}

VARIABLES
  connector,   \* the row
  export,      \* the export the console has of each scan
  puller,      \* the requests, each with the row it loaded
  imported,    \* <<scan, export>> of the import runs that completed
  closings,    \* history: whether each import that closed by absence had an engagement
  previews     \* history: dry runs that ended, and those the audit log has

scannerVars == <<connector, export, puller, imported, closings, previews>>

Connector == [exists : BOOLEAN, enabled : BOOLEAN, allowed : SUBSET Scans,
              engagement : BOOLEAN, closeAbsent : BOOLEAN,
              seen : [Scans -> 0 .. MaxExports]]
NoConnector == [exists |-> FALSE, enabled |-> FALSE, allowed |-> {}, engagement |-> FALSE,
                closeAbsent |-> FALSE, seen |-> [s \in Scans |-> 0]]

Resting == [step |-> "idle", row |-> NoConnector, todo |-> {}, dry |-> FALSE,
            seen |-> NoConnector.seen, staged |-> {}, skipped |-> {}]

ScannerInit ==
  /\ connector = NoConnector /\ export = [s \in Scans |-> 1]
  /\ puller = [p \in Pullers |-> Resting]
  /\ imported = {} /\ closings = {} /\ previews = [ended |-> FALSE, audited |-> TRUE]

-----------------------------------------------------------------------------
(* The connector. *)

CreateScanner ==
  /\ ~connector.exists
  /\ \E on \in BOOLEAN, a \in SUBSET Scans, e \in BOOLEAN, c \in BOOLEAN :
       /\ c => e
       /\ connector' = [NoConnector EXCEPT !.exists = TRUE, !.enabled = on, !.allowed = a,
                                           !.engagement = e, !.closeAbsent = c]
  /\ UNCHANGED <<export, puller, imported, closings, previews>>

LoadScanner(p) ==
  /\ puller[p].step = "idle" /\ connector.exists
  /\ puller' = [puller EXCEPT ![p] = [Resting EXCEPT !.step = "editing", !.row = connector]]
  /\ UNCHANGED <<connector, export, imported, closings, previews>>

\* PATCH of one field, checked against the row that was loaded.
PatchScanner(p) ==
  LET row == puller[p].row IN
  /\ puller[p].step = "editing" /\ connector.exists
  /\ \/ connector' = [connector EXCEPT !.enabled = ~row.enabled]
     \/ connector' = [connector EXCEPT !.allowed = Scans] /\ row.allowed # Scans
     \/ /\ ~row.closeAbsent \/ ~row.engagement
        /\ connector' = [connector EXCEPT !.engagement = ~row.engagement]
     \/ /\ row.closeAbsent \/ row.engagement
        /\ connector' = [connector EXCEPT !.closeAbsent = ~row.closeAbsent]
  /\ puller' = [puller EXCEPT ![p] = Resting]
  /\ UNCHANGED <<export, imported, closings, previews>>

DeleteScanner(p) ==
  /\ puller[p].step = "editing" /\ connector.exists
  /\ connector' = NoConnector
  /\ puller' = [puller EXCEPT ![p] = Resting]
  /\ UNCHANGED <<export, imported, closings, previews>>

-----------------------------------------------------------------------------
(* The sync. *)

\* The refusals of sync; naming a scan outside the allowed ones is one of them.
MaySync(row, scans) ==
  /\ row.enabled /\ row.allowed # {} /\ scans \subseteq row.allowed
  /\ row.closeAbsent => row.engagement

BeginSync(p, scans, dry) ==
  LET row == puller[p].row IN
  /\ puller[p].step = "editing" /\ scans # {}
  /\ MaySync(row, scans)
  /\ puller' = [puller EXCEPT ![p].step = "pulling", ![p].todo = scans,
                              ![p].dry = dry, ![p].seen = row.seen]
  /\ UNCHANGED <<connector, export, imported, closings, previews>>

Pulled(p, s, seen, staged, skipped) ==
  /\ puller[p].step = "pulling" /\ s \in puller[p].todo
  /\ puller' = [puller EXCEPT ![p].todo = @ \ {s}, ![p].seen = seen, ![p].staged = staged,
                              ![p].skipped = skipped]
  /\ UNCHANGED <<connector, export, imported, closings, previews>>

\* The export is the one the last sync imported.
SkipScan(p, s) ==
  LET me == puller[p] IN
  /\ me.seen[s] = export[s]
  /\ Pulled(p, s, me.seen, me.staged, me.skipped \cup {<<s, export[s]>>})

\* It is another one, or the operator forced it: fetch_report and run_import.
ImportScan(p, s) ==
  LET me == puller[p] IN
  Pulled(p, s, [me.seen EXCEPT ![s] = IF me.dry THEN @ ELSE export[s]],
         me.staged \cup {<<s, export[s]>>}, me.skipped)

\* The digest is noted before the import is known to have succeeded.
Bug_FailScan(p, s) ==
  LET me == puller[p] IN
  Pulled(p, s, [me.seen EXCEPT ![s] = export[s]], me.staged, me.skipped)

\* The remote refuses it, or the parser does; the next scan is pulled.
FailScan(p, s) ==
  LET me == puller[p] IN Pulled(p, s, me.seen, me.staged, me.skipped)

\* One commit for all scans, with the whole sync_state of the copy if it changed.
CommitSync(p) ==
  LET me == puller[p] IN
  /\ me.step = "pulling" /\ me.todo = {} /\ ~me.dry /\ connector.exists
  /\ connector' = [connector EXCEPT !.seen = IF me.seen = me.row.seen THEN @ ELSE me.seen]
  /\ imported' = imported \cup me.staged
  /\ closings' = IF me.row.closeAbsent /\ me.staged # {}
                 THEN closings \cup {me.row.engagement} ELSE closings
  /\ puller' = [puller EXCEPT ![p] = Resting]
  /\ UNCHANGED <<export, previews>>

\* A dry run rolls everything back.
EndPreview(p) ==
  /\ puller[p].step = "pulling" /\ puller[p].todo = {} /\ puller[p].dry
  /\ previews' = [ended |-> TRUE, audited |-> FALSE]
  /\ puller' = [puller EXCEPT ![p] = Resting]
  /\ UNCHANGED <<connector, export, imported, closings>>

\* Refused, or the console does not answer at all: an error no scan is charged
\* with, and everything the sync imported is rolled back; or the connector is gone.
AbortSync(p) ==
  /\ puller[p].step # "idle"
  /\ puller' = [puller EXCEPT ![p] = Resting]
  /\ UNCHANGED <<connector, export, imported, closings, previews>>

\* The scan runs again; an export that is the same again has the same bytes.
Rescan(s) ==
  /\ \E e \in 1 .. MaxExports : e # export[s] /\ export' = [export EXCEPT ![s] = e]
  /\ UNCHANGED <<connector, puller, imported, closings, previews>>

ScannerNext ==
  \/ CreateScanner
  \/ \E p \in Pullers :
       \/ LoadScanner(p) \/ PatchScanner(p) \/ DeleteScanner(p) \/ AbortSync(p)
       \/ CommitSync(p) \/ EndPreview(p)
       \/ \E scans \in SUBSET Scans, dry \in BOOLEAN : BeginSync(p, scans, dry)
       \/ \E s \in Scans : SkipScan(p, s) \/ ImportScan(p, s) \/ FailScan(p, s)
  \/ \E s \in Scans : Rescan(s)

ScannerSpec == ScannerInit /\ [][ScannerNext]_scannerVars

-----------------------------------------------------------------------------
ScannerTypeOK ==
  /\ connector \in Connector
  /\ export \in [Scans -> 1 .. MaxExports]
  /\ \A p \in Pullers :
       /\ puller[p].step \in {"idle", "editing", "pulling"} /\ puller[p].row \in Connector
       /\ puller[p].todo \subseteq Scans
       /\ puller[p].staged \cup puller[p].skipped \subseteq Scans \X (1 .. MaxExports)
  /\ imported \subseteq Scans \X (1 .. MaxExports)
  /\ closings \subseteq BOOLEAN

\* An export that a sync skips, or that the connector believes it has, was imported
\* and committed, whatever failed, was rolled back, overlapped or was a dry run before.
SkippedWasImported ==
  /\ \A s \in Scans : connector.seen[s] # 0 => <<s, connector.seen[s]>> \in imported
  /\ \A p \in Pullers : puller[p].skipped \subseteq imported

\* "Absence-based closure outside a scope" never happens, although two edits that
\* overlap can leave a connector that closes by absence and has no engagement.
ClosesInScope == FALSE \notin closings

\* What a pull owes the findings of the tenant (services/scanners.sync).
SyncsAreSound == SkippedWasImported /\ ClosesInScope

-----------------------------------------------------------------------------
(* What the documents say and the code does otherwise. *)

\* "A preview leaves nothing behind but its audit record, exactly as the upload
\* path does" (sync_scanner_connector): the record is rolled back with the rest.
PreviewIsAudited == previews.ended => previews.audited
=============================================================================
