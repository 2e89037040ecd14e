---------------------------- MODULE AssetSources ----------------------------
(***************************************************************************)
(* The feeds that describe the estate: what a source says is staged in one  *)
(* row per external key, each row is linked to the asset it is believed to  *)
(* describe, and promotion copies the facts of rows into the register.      *)
(*                                                                           *)
(* A sync and a promotion are transactions: they read the staging rows and   *)
(* the register when they begin and commit the columns they changed.  An     *)
(* operator patches rows, edits or deletes sources and deletes assets in     *)
(* between; two sources may be read at the same time.                        *)
(*                                                                           *)
(* A record states a host name, a serial number, both, and possibly a site;  *)
(* the ladder is serial first, then host name.  A site is named after the    *)
(* source that states it.                                                    *)
(***************************************************************************)
EXTENDS Integers, Sequences, FiniteSetsExt

CONSTANTS
  FeedOrder,   \* the sources, in the order of their priorities
  ExternalKeys,\* the keys a source names its records by
  FirstHost, Hosts, Serials,
  Exports,     \* what a source may answer: sequences of [key, host, serial, sited]
  MaxAssets,   \* bound: assets ever registered
  MaxTurns     \* bound: syncs, promotions and requests

Feeds == {FeedOrder[i] : i \in DOMAIN FeedOrder}

Entries == [key : ExternalKeys, host : Hosts \cup {"nothing"}, serial : Serials \cup {"nothing"}, sited : BOOLEAN]

\* What every source may have read before there are requests fits into the bound.
ASSUME AssetSourcesAssumption ==
  /\ FeedOrder \in Seq(Feeds) /\ \A i, j \in DOMAIN FeedOrder : FeedOrder[i] = FeedOrder[j] => i = j
  /\ FirstHost \in Hosts /\ IsFiniteSet(ExternalKeys)
  /\ \A export \in Exports : export \in Seq(Entries) /\ 1 + Len(FeedOrder) * Len(export) <= MaxAssets
  /\ MaxAssets \in Nat \ {0} /\ MaxTurns \in Nat
  /\ "nothing" \notin Feeds \cup Hosts \cup Serials /\ "operator" \notin Feeds

VARIABLES
  source,     \* the configuration of each source
  staged,     \* the staging rows: [Rows -> Row]
  register,   \* the assets
  work,       \* the transactions in progress, one per source and one promotion
  unlisted,   \* history: the rows a complete reading left out
  turns

sourceVars == <<source, staged, register, work, unlisted, turns>>

Nothing  == "nothing"
Rows     == Feeds \X ExternalKeys
AssetIds == 1 .. MaxAssets
NoAsset  == 0

\* What an entry says once its columns are mapped; a site is named after its source.
Normalized(f, e) == [host |-> e.host, serial |-> e.serial, site |-> IF e.sited THEN f ELSE Nothing]

\* include_fields leaves the site out, or nothing.
Narrow(said, narrowed) == IF narrowed THEN [said EXCEPT !.site = Nothing] ELSE said

BlankRow ==
  [exists |-> FALSE, host |-> Nothing, serial |-> Nothing, site |-> Nothing, said |-> <<>>,
   identity |-> Nothing, answers |-> {}, absent |-> FALSE, status |-> "unmatched", asset |-> NoAsset,
   byHand |-> FALSE]

BlankAsset ==
  [exists |-> FALSE, deleted |-> FALSE, host |-> Nothing, serial |-> Nothing, site |-> Nothing,
   slugs |-> {}]

Resting == [kind |-> "none"]

Zero == [created |-> 0, updated |-> 0, unchanged |-> 0, rejected |-> 0,
         matched |-> 0, unmatched |-> 0, absent |-> 0]

Live(reg) == {i \in AssetIds : reg[i].exists /\ ~reg[i].deleted}

Answers(said) == {said.serial, said.host} \ {Nothing}
Identity(said) == IF said.serial # Nothing THEN said.serial ELSE said.host

Or(new, old) == IF new # Nothing THEN new ELSE old

----------------------------------------------------------------------------
(* Matching.                                                                *)

ResolveAsset(reg, said) ==
  LET bySerial == {i \in Live(reg) : said.serial # Nothing /\ reg[i].serial = said.serial}
      byHost   == {i \in Live(reg) : said.host # Nothing /\ reg[i].host = said.host}
  IN  IF bySerial # {} THEN Min(bySerial) ELSE IF byHost # {} THEN Min(byHost) ELSE NoAsset

\* A record of another source that answers to one of the keys, a linked one first.
Siblings(st, f, said) ==
  LET sharing == {r \in Rows : r[1] # f /\ st[r].exists /\ st[r].answers \cap Answers(said) # {}}
      linked  == {r \in sharing : st[r].asset # NoAsset}
  IN  IF linked # {} THEN linked ELSE sharing

\* The asset a record is linked to and the key it is grouped by.
Resolve(tx, f, said) ==
  LET found == ResolveAsset(tx.reg, said)
      kin   == Siblings(tx.st, f, said)
      r     == CHOOSE s \in kin : TRUE
  IN  IF found # NoAsset \/ kin = {} THEN [asset |-> found, identity |-> Identity(said)]
      ELSE IF tx.st[r].asset # NoAsset
           THEN [asset |-> tx.st[r].asset, identity |-> Identity(said)]
           ELSE [asset |-> NoAsset, identity |-> Or(tx.st[r].identity, Identity(said))]

----------------------------------------------------------------------------
(* Promotion.                                                               *)

\* The number the next asset gets: none that a transaction in progress took.
Taken(reg) ==
  {i \in AssetIds : reg[i].exists}
  \cup UNION {{i \in AssetIds : work[w].reg[i].exists} : w \in {v \in DOMAIN work : work[v].kind # "none"}}

Spare(reg) == AssetIds \ Taken(reg)

Written(asset, row, r) ==
  [asset EXCEPT !.host = Or(row.host, @), !.site = Or(row.site, @), !.serial = Or(row.serial, @),
                !.slugs = @ \cup {r[1]}]

\* What is ignored, has no name, or is linked to nothing is declined.
Promotes(row, creates) ==
  row.status # "ignored" /\ row.host # Nothing /\ (row.asset # NoAsset \/ creates)

\* A row that is linked is copied into its asset, the deleted one included; one that
\* is not is copied into the asset of that host name, made when there is none.
PromoteRecord(tx, r, creates) ==
  LET row    == tx.st[r]
      byHost == {i \in Live(tx.reg) : tx.reg[i].host = row.host}
      target == IF row.asset # NoAsset THEN row.asset
                ELSE IF byHost # {} THEN Min(byHost) ELSE Min(Spare(tx.reg))
  IN  IF ~Promotes(row, creates) THEN tx
      ELSE [tx EXCEPT
              !.reg[target] = Written([@ EXCEPT !.exists = TRUE], row, r),
              !.st[r].asset = target,
              !.st[r].status = IF row.asset = NoAsset THEN "matched" ELSE @]

\* The lowest priority number is applied last.
Promoted(tx, rows, creates) ==
  LET after[n \in 0 .. Cardinality(rows)] ==
        IF n = 0 THEN [tx |-> tx, left |-> rows]
        ELSE LET was  == after[n - 1]
                 next == CHOOSE r \in was.left : \A q \in was.left : source[r[1]].priority >= source[q[1]].priority
             IN  [tx |-> PromoteRecord(was.tx, next, creates), left |-> was.left \ {next}]
  IN  after[Cardinality(rows)].tx

----------------------------------------------------------------------------
(* A reading.                                                               *)

Tally(n, row, asset) ==
  [n EXCEPT !.created = @ + (IF row.exists THEN 0 ELSE 1),
            !.updated = @ + (IF row.exists THEN 1 ELSE 0),
            !.matched = @ + (IF asset # NoAsset THEN 1 ELSE 0),
            !.unmatched = @ + (IF asset = NoAsset THEN 1 ELSE 0)]

Same(row, said, e) == row.exists /\ row.said = <<said, e>>

Bug_Unchanged(row, said, e) == Same(row, said, e)

\* A row that was absent is written again even when nothing in it changed.
Unchanged(row, said, e) == Same(row, said, e) /\ ~row.absent

\* A fact the record no longer states keeps its old value; an ignored row keeps its
\* link and its status.
Staged(row, said, e, to) ==
  LET kept == row.status = "ignored" IN
  [row EXCEPT !.exists = TRUE, !.host = Or(said.host, @), !.serial = Or(said.serial, @),
              !.site = Or(said.site, @), !.said = <<said, e>>, !.identity = to.identity,
              !.answers = Answers(said), !.absent = FALSE,
              !.asset = IF kept THEN @ ELSE to.asset,
              !.status = IF kept THEN @ ELSE IF to.asset = NoAsset THEN "unmatched" ELSE "matched",
              !.byHand = kept /\ @]

IngestRecord(tx, f, e, dry) ==
  LET r    == <<f, e.key>>
      row  == tx.st[r]
      said == Narrow(Normalized(f, e), source[f].narrowed)
      to   == Resolve(tx, f, said)
      next == [tx EXCEPT !.seen = @ \cup {e.key}, !.n = Tally(@, tx.old[r], to.asset),
                         !.st[r] = Staged(row, said, e, to)]
  IN  CASE e.key \in tx.seen -> [tx EXCEPT !.n.rejected = @ + 1]
        [] e.key \notin tx.seen /\ Unchanged(row, said, e) ->
             [tx EXCEPT !.seen = @ \cup {e.key}, !.n.unchanged = @ + 1,
                        !.n.matched = @ + (IF row.asset # NoAsset THEN 1 ELSE 0),
                        !.n.unmatched = @ + (IF row.asset = NoAsset THEN 1 ELSE 0)]
        [] OTHER ->
             IF dry THEN [next EXCEPT !.st = tx.st]
             ELSE IF source[f].auto THEN PromoteRecord(next, r, source[f].creates) ELSE next

Missing(tx, f) ==
  {r \in Rows : r[1] = f /\ tx.old[r].exists /\ ~tx.old[r].absent /\ r[2] \notin tx.seen}

Begun(kind, st, reg) ==
  [kind |-> kind, st |-> st, reg |-> reg, old |-> st, oldReg |-> reg,
   seen |-> {}, n |-> Zero, markAbsent |-> FALSE, rows |-> {}]

\* The records of an export in turn.
Ingested(f, export, dry, st, reg) ==
  LET upto[n \in 0 .. Len(export)] ==
        IF n = 0 THEN Begun("sync", st, reg) ELSE IngestRecord(upto[n - 1], f, export[n], dry)
  IN  upto[Len(export)]

\* Everything a sync of f does with what it read.
Ingest(f, export, mark, dry, st, reg) ==
  LET tx == Ingested(f, export, dry, st, reg)
      gone == IF mark THEN Missing(tx, f) ELSE {}
  IN  [tx EXCEPT !.n.absent = Cardinality(gone), !.markAbsent = mark,
                 !.st = [r \in Rows |-> IF r \in gone /\ ~dry THEN [tx.st[r] EXCEPT !.absent = TRUE]
                                        ELSE tx.st[r]]]

----------------------------------------------------------------------------
\* Every source read once, in the order of the priorities.
ReadInTurn(export, empty) ==
  LET read[n \in 0 .. Len(FeedOrder)] ==
        IF n = 0 THEN empty ELSE Ingest(FeedOrder[n], export, TRUE, FALSE, read[n - 1].st, read[n - 1].reg)
  IN  read[Len(FeedOrder)]

\* Sources that promote as they read, or not, each read once; before that one asset
\* was registered, or none.
SourcesInit ==
  \E auto \in BOOLEAN, export \in Exports, asset \in {BlankAsset, [BlankAsset EXCEPT !.exists = TRUE, !.host = FirstHost]} :
    /\ source = [f \in Feeds |->
                   [exists |-> TRUE, enabled |-> TRUE, auto |-> auto, creates |-> auto, narrowed |-> FALSE,
                    priority |-> CHOOSE i \in DOMAIN FeedOrder : FeedOrder[i] = f, failed |-> FALSE]]
    /\ work = [w \in Feeds \cup {"operator"} |-> Resting]
    /\ LET read == ReadInTurn(export, [st  |-> [r \in Rows |-> BlankRow],
                                      reg |-> [i \in AssetIds |-> IF i = 1 THEN asset ELSE BlankAsset]])
       IN  staged = read.st /\ register = read.reg
    /\ unlisted = {} /\ turns = 0

Turn == turns < MaxTurns /\ turns' = turns + 1

\* POST /sync and /upload: the reading, and all that follows from it.
SyncBegins(f) ==
  /\ Turn /\ source[f].exists /\ source[f].enabled /\ work[f].kind = "none"
  /\ \E export \in Exports, mark \in BOOLEAN :
       /\ source[f].auto /\ source[f].creates => Cardinality(Spare(register)) >= Len(export)
       /\ work' = [work EXCEPT ![f] = Ingest(f, export, mark, FALSE, staged, register)]
  /\ UNCHANGED <<source, staged, register, unlisted>>

\* The connector could not read the source: the failure is kept, and nothing else.
SyncFails(f) ==
  /\ Turn /\ source[f].exists /\ source[f].enabled /\ work[f].kind = "none"
  /\ source' = [source EXCEPT ![f].failed = TRUE]
  /\ UNCHANGED <<staged, register, work, unlisted>>

\* The columns a transaction changed, over what has been committed since it read.
Merged(was, new, now) ==
  [c \in DOMAIN now |-> IF new[c] # was[c] THEN new[c] ELSE now[c]]

\* The sources a transaction writes about.
About(w) ==
  IF w \in Feeds THEN {w}
  ELSE {r[1] : r \in {p \in work[w].rows : Promotes(work[w].st[p], TRUE) /\ work[w].st[p].asset # NoAsset}}

\* Rows go with their source: an UPDATE of either then finds nothing, and the
\* transaction rolls back.
Possible(w) == \A f \in About(w) : source[f].exists

Ends(w) ==
  LET tx == work[w] IN
  /\ work[w].kind # "none"
  /\ work' = [work EXCEPT ![w] = Resting]
  /\ IF Possible(w)
     THEN /\ staged' = [r \in Rows |-> Merged(tx.old[r], tx.st[r], staged[r])]
          /\ register' = [i \in AssetIds |-> Merged(tx.oldReg[i], tx.reg[i], register[i])]
     ELSE UNCHANGED <<staged, register>>
  /\ UNCHANGED turns

SyncEnds(f) ==
  /\ Ends(f)
  /\ IF Possible(f)
     THEN /\ unlisted' = (unlisted \ {<<f, k>> : k \in work[f].seen})
                         \cup (IF work[f].markAbsent
                               THEN {r \in Rows : r[1] = f /\ work[f].old[r].exists /\ r[2] \notin work[f].seen}
                               ELSE {})
          /\ source' = IF source[f].exists THEN [source EXCEPT ![f].failed = FALSE] ELSE source
     ELSE UNCHANGED <<unlisted, source>>

\* POST /promote, of any staged rows.
PromoteBegins ==
  /\ Turn /\ work["operator"].kind = "none"
  /\ \E rows \in SUBSET {r \in Rows : staged[r].exists} \ {{}}, creates \in BOOLEAN :
       /\ creates => Cardinality(Spare(register)) >= Cardinality(rows)
       /\ work' = [work EXCEPT !["operator"] =
                     [Promoted(Begun("promotion", staged, register), rows, creates) EXCEPT !.rows = rows]]
  /\ UNCHANGED <<source, staged, register, unlisted>>

PromoteEnds == Ends("operator") /\ UNCHANGED <<source, unlisted>>

\* PATCH /records: ignore, take back, link or unlink.
PatchRecord(r) ==
  /\ Turn /\ staged[r].exists
  /\ \/ staged' = [staged EXCEPT ![r].status = "ignored"]
     \/ /\ staged[r].status = "ignored"
        /\ staged' = [staged EXCEPT ![r].status = IF @ = "ignored" /\ staged[r].asset # NoAsset
                                                  THEN "matched" ELSE "unmatched"]
     \/ staged' = [staged EXCEPT ![r].asset = NoAsset, ![r].byHand = FALSE,
                                 ![r].status = IF @ = "ignored" THEN @ ELSE "unmatched"]
     \/ \E i \in {j \in AssetIds : register[j].exists} :
          staged' = [staged EXCEPT ![r].asset = i, ![r].byHand = TRUE, ![r].status = "matched"]
  /\ UNCHANGED <<source, register, work, unlisted>>

UpdateSource(f) ==
  /\ Turn /\ source[f].exists
  /\ \E flag \in {"enabled", "auto", "creates", "narrowed"} :
       source' = [source EXCEPT ![f][flag] = ~@]
  /\ UNCHANGED <<staged, register, work, unlisted>>

\* The rows go with the source, the assets stay.
DeleteSource(f) ==
  /\ Turn /\ source[f].exists
  /\ source' = [source EXCEPT ![f].exists = FALSE]
  /\ staged' = [r \in Rows |-> IF r[1] = f THEN BlankRow ELSE staged[r]]
  /\ unlisted' = {r \in unlisted : r[1] # f}
  /\ UNCHANGED <<register, work>>

\* DELETE /assets: the asset is kept and marked.
DeleteAsset(i) ==
  /\ Turn /\ i \in Live(register)
  /\ register' = [register EXCEPT ![i].deleted = TRUE]
  /\ UNCHANGED <<source, staged, work, unlisted>>

SourcesNext ==
  \/ \E f \in Feeds : SyncBegins(f) \/ SyncFails(f) \/ SyncEnds(f) \/ UpdateSource(f) \/ DeleteSource(f)
  \/ PromoteBegins \/ PromoteEnds
  \/ \E r \in Rows : PatchRecord(r)
  \/ \E i \in AssetIds : DeleteAsset(i)

SourcesSpec == SourcesInit /\ [][SourcesNext]_sourceVars

----------------------------------------------------------------------------
SourcesTypeOK ==
  /\ \A r \in Rows :
       /\ staged[r].host \in Hosts \cup {Nothing} /\ staged[r].serial \in Serials \cup {Nothing}
       /\ staged[r].site \in {r[1], Nothing} /\ staged[r].asset \in AssetIds \cup {NoAsset}
       /\ staged[r].status \in {"matched", "unmatched", "ignored"}
       /\ staged[r].exists => source[r[1]].exists
  /\ \A i \in AssetIds : register[i].site \in Feeds \cup {Nothing} /\ register[i].slugs \subseteq Feeds
  /\ unlisted \subseteq Rows /\ turns \in 0 .. MaxTurns

\* A link leads to an asset that was registered, whoever made it and whatever was
\* rolled back since (AssetSourceRecord.asset_id).
LinksLead ==
  \A r \in Rows : staged[r].asset # NoAsset => register[staged[r].asset].exists

\* A preview counts what the sync itself would count, unless the source promotes as it
\* reads (cmdb.sync: "the preview and the commit must count identically").  What is in
\* progress has written nothing yet: it is enough to look while nothing is.
Previewed(f, export, dry) == Ingest(f, export, TRUE, dry, staged, register).n

PreviewsAgree ==
  (\A w \in DOMAIN work : work[w].kind = "none") =>
   \A f \in Feeds, export \in Exports :
    ~source[f].auto => Previewed(f, export, TRUE) = Previewed(f, export, FALSE)

\* A row is absent exactly when a complete reading left its record out and no reading
\* has listed it since (cmdb._ingest): not after a partial upload, not after the
\* record came back as it was.
AbsenceIsStated == {r \in Rows : staged[r].absent} = unlisted

\* What a promotion leaves in an asset is what the source with the lowest priority
\* number states among the rows promoted into it (cmdb.promote).
Stating(tx, i) ==
  {r \in tx.rows : tx.st[r].asset = i /\ tx.st[r].status # "ignored"
                   /\ tx.st[r].site # Nothing /\ tx.st[r].host # Nothing}

PriorityDecides ==
  LET tx == work["operator"] IN
  tx.kind = "promotion" =>
    \A i \in AssetIds :
      Stating(tx, i) # {} =>
        \E best \in Stating(tx, i) :
          /\ tx.reg[i].site = tx.st[best].site
          /\ \A r \in Stating(tx, i) : source[best[1]].priority <= source[r[1]].priority

\* The rows a transaction has written about.
Handled(w) == IF w \in Feeds THEN {<<w, k>> : k \in work[w].seen} ELSE work[w].rows

\* No transaction registers a second asset for a host name that one in use has
\* already (inventory.upsert_asset), unless it renames that one, or rows it found to be
\* of one asset do not agree on its name.
HostsAreRegisteredOnce ==
  \A w \in DOMAIN work : work[w].kind # "none" =>
    LET tx == work[w] IN
    \A i, j \in Live(tx.reg) :
      i # j /\ ~tx.oldReg[i].exists /\ tx.reg[i].host = tx.reg[j].host
        => \/ tx.oldReg[j].exists /\ tx.oldReg[j].host # tx.reg[j].host
           \/ \E r \in Handled(w) : tx.st[r].asset \in {i, j} /\ tx.st[r].host \notin {Nothing, tx.reg[i].host}

AssetsAreReconciled ==
  /\ LinksLead /\ PreviewsAgree /\ AbsenceIsStated /\ PriorityDecides /\ HostsAreRegisteredOnce
=============================================================================
