-------------------------- MODULE SoftwareInventory --------------------------
(***************************************************************************)
(* What is installed on one asset, as sweeps, imports and operators report it *)
(* (services/inventory, the two endpoints of api/v1/assets, the importers),   *)
(* under the names of the CPE dictionary, and the findings it leads to.       *)
(*                                                                            *)
(* The session does not flush by itself: a row added in a request is seen by  *)
(* its later queries once something was flushed, which recording a product,   *)
(* or a version for the first time, does.                                     *)
(***************************************************************************)
EXTENDS Integers, FiniteSets, Sequences

CONSTANTS
  Dictionary,   \* products the feed may come to cite: <<vendor, name>>
  Aliases,      \* names recorded under another product: a function on names
  NoVersion,
  Vulnerable,   \* versions inside the cited ranges
  Reports,      \* what may be reported: sequences of [vendor, name, version]
  Sources,      \* who reports: agents sweep, operators enter, scanners import
  Sweeping,     \* the sources whose report is all there is (replace)
  Correlating,  \* the sources after which the asset is correlated
  MaxReported   \* bound: requests, and products cited

ASSUME SoftwareInventoryAssumption ==
  /\ Sweeping \subseteq Sources /\ NoVersion \notin Vulnerable /\ MaxReported \in Nat
  /\ \A items \in Reports : Len(items) \in Nat

VARIABLES
  registry,   \* products: <<vendor, name>>
  cited,      \* those with CVE applicability rows
  catalogue,  \* product_versions
  rows,       \* asset_products, in order: [exists, product, version, by]
  exposed,    \* the products an open finding of the asset is about
  reported,
  told,       \* history: the last request, if it was a report: [by, items]
  passed      \* history: rows written since the asset was last correlated

inventoryVars == <<registry, cited, catalogue, rows, exposed, reported, told, passed>>

Silence == [by |-> "nobody", items |-> {}]

InventoryInit ==
  /\ registry = {} /\ cited = {} /\ catalogue = {} /\ rows = <<>> /\ exposed = {} /\ reported = 0 /\ told = Silence
  /\ passed = {}

Report == reported < MaxReported /\ reported' = reported + 1

----------------------------------------------------------------------------
(* Names.                                                                   *)

Named(known, name) == {p \in known : p[2] = name}

\* resolve_identity: the spelling if it is registered, else what vulnerability data
\* cites under that name, else the curated alias, else the spelling after all.
Identities(known, spec) ==
  IF <<spec.vendor, spec.name>> \in known THEN {<<spec.vendor, spec.name>>}
  ELSE IF Named(known \cap cited, spec.name) # {} THEN Named(known \cap cited, spec.name)
  ELSE IF spec.name \in DOMAIN Aliases THEN {Aliases[spec.name]}
  ELSE {<<IF spec.vendor = "unsaid" THEN spec.name ELSE spec.vendor, spec.name>>}

----------------------------------------------------------------------------
(* inventory.install.                                                       *)

Begun(choice) ==
  [registry |-> registry, catalogue |-> catalogue, seen |-> {}, items |-> {}, choice |-> choice,
   rows |-> [i \in DOMAIN rows |-> [row |-> rows[i], flushed |-> TRUE]]]

HeldRows(s, product) ==
  {i \in DOMAIN s.rows : s.rows[i].flushed /\ s.rows[i].row.exists /\ s.rows[i].row.product = product}

Bug_Renamed(s, product, version) == Cardinality(HeldRows(s, product)) = 1

\* One row whose version moved is the same row, unless this report named the product
\* before: then the asset has several.
Renamed(s, product, version) == Cardinality(HeldRows(s, product)) = 1 /\ product \notin s.seen

Flushed(s) == [s EXCEPT !.rows = [i \in DOMAIN s.rows |-> [s.rows[i] EXCEPT !.flushed = TRUE]]]

Installed(s, spec, by) ==
  LET product == CHOOSE p \in Identities(s.registry, spec) : p = s.choice \/ s.choice \notin Identities(s.registry, spec)
      known   == IF product \in s.registry THEN s ELSE [Flushed(s) EXCEPT !.registry = @ \cup {product}]
      same    == {i \in HeldRows(known, product) : known.rows[i].row.version = spec.version}
      which   == IF same # {} THEN same ELSE IF Renamed(known, product, spec.version) THEN HeldRows(known, product) ELSE {}
      row     == [exists |-> TRUE, product |-> product, version |-> spec.version, by |-> by]
      placed  ==
        IF which = {} THEN Append(known.rows, [row |-> row, flushed |-> FALSE])
        ELSE [known.rows EXCEPT ![CHOOSE i \in which : \A j \in which : i <= j].row = row]
      done    == [known EXCEPT !.rows = placed, !.seen = @ \cup {product}, !.items = @ \cup {<<product, spec.version>>}]
  IN
  IF spec.version = NoVersion \/ <<product, spec.version>> \in known.catalogue THEN done
  ELSE [Flushed(done) EXCEPT !.catalogue = @ \cup {<<product, spec.version>>}]

\* The items of a report in turn.
AllInstalled(items, by, choice) ==
  LET upto[n \in 0 .. Len(items)] == IF n = 0 THEN Begun(choice) ELSE Installed(upto[n - 1], items[n], by)
  IN  upto[Len(items)]

\* A sweep drops what its source reported before and does not now.
Pruned(s, by) ==
  [i \in DOMAIN s.rows |->
     IF by \in Sweeping /\ s.rows[i].flushed /\ s.rows[i].row.by = by /\ s.rows[i].row.product \notin s.seen
     THEN [s.rows[i].row EXCEPT !.exists = FALSE] ELSE s.rows[i].row]

\* One version of a product is one row; NULL is as many as there are.
Unique(after) ==
  \A i, j \in DOMAIN after :
    i # j /\ after[i].exists /\ after[j].exists /\ after[i].product = after[j].product
      => after[i].version # after[j].version \/ after[i].version = NoVersion

\* correlate_asset opens findings; nothing of the inventory closes one.
Affected(after, known) ==
  {after[i].product : i \in {j \in DOMAIN after :
     after[j].exists /\ after[j].product \in known /\ after[j].version \in Vulnerable}}

Bug_Correlated(after) == exposed' = exposed \cup Affected(rows, cited) /\ passed' = {}

Correlated(after) == exposed' = exposed \cup Affected(after, cited) /\ passed' = {}

\* Not after a report a scanner brought along, nor by an import.
PassedBy(after) ==
  exposed' = exposed /\ passed' = passed \cup {i \in DOMAIN after : i \notin DOMAIN rows \/ after[i] # rows[i]}

\* Two rows with one key abort the whole report, and nothing of it is kept.
Install ==
  \E by \in Sources, items \in Reports, choice \in Dictionary :
    LET s == AllInstalled(items, by, choice)
        after == Pruned(s, by)
    IN
    /\ Report /\ UNCHANGED cited
    /\ IF Unique(after)
       THEN /\ registry' = s.registry /\ catalogue' = s.catalogue /\ rows' = after
            /\ told' = [by |-> by, items |-> s.items]
            /\ IF by \in Correlating THEN Correlated(after) ELSE PassedBy(after)
       ELSE told' = Silence /\ UNCHANGED <<registry, catalogue, rows, exposed, passed>>

\* The older endpoint takes the spelling as it is and any row of the product.
AddProducts ==
  \E items \in Reports :
    LET spec == items[1]
        product == <<spec.vendor, spec.name>>
        held == {i \in DOMAIN rows : rows[i].exists /\ rows[i].product = product}
        row == [exists |-> TRUE, product |-> product, version |-> spec.version, by |-> "operator"]
    IN
    /\ Report /\ Len(items) = 1 /\ spec.vendor # "unsaid" /\ told' = Silence /\ UNCHANGED cited
    /\ \E after \in IF held = {} THEN {Append(rows, row)} ELSE {[rows EXCEPT ![i] = row] : i \in held} :
         IF Unique(after)
         THEN /\ registry' = registry \cup {product} /\ rows' = after /\ Correlated(after)
              /\ catalogue' = catalogue \cup IF spec.version = NoVersion THEN {} ELSE {<<product, spec.version>>}
         ELSE UNCHANGED <<registry, catalogue, rows, exposed, passed>>

\* A finding that names its product is linked to it: an empty version is filled.
ResolveInstallation ==
  \E items \in Reports :
    LET spec == items[1]
        product == <<IF spec.vendor = "unsaid" THEN "unknown" ELSE spec.vendor, spec.name>>
        held == {i \in DOMAIN rows : rows[i].exists /\ rows[i].product = product}
        row == [exists |-> TRUE, product |-> product, version |-> spec.version, by |-> "scanner"]
    IN
    /\ Report /\ Len(items) = 1 /\ told' = Silence /\ UNCHANGED <<cited, catalogue>>
    /\ \E after \in IF held = {} THEN {Append(rows, row)}
                    ELSE {[rows EXCEPT ![i].version = IF @ = NoVersion THEN spec.version ELSE @] : i \in held} :
         IF Unique(after) THEN registry' = registry \cup {product} /\ rows' = after /\ PassedBy(after)
         ELSE UNCHANGED <<registry, rows, exposed, passed>>

RemoveProduct ==
  \E i \in DOMAIN rows :
    /\ Report /\ rows[i].exists /\ rows' = [rows EXCEPT ![i].exists = FALSE] /\ told' = Silence
    /\ UNCHANGED <<registry, cited, catalogue, exposed, passed>>

\* The feed learns a CVE of a product: ingestion registers it under the CPE's name,
\* and the CVE is correlated (correlate_batch).
FeedCites ==
  \E product \in Dictionary \ cited :
    /\ Report /\ registry' = registry \cup {product} /\ cited' = cited \cup {product} /\ told' = Silence
    /\ exposed' = exposed \cup (Affected(rows, cited') \cap {product})
    /\ UNCHANGED <<catalogue, rows, passed>>

InventoryNext == Install \/ AddProducts \/ ResolveInstallation \/ RemoveProduct \/ FeedCites

InventorySpec == InventoryInit /\ [][InventoryNext]_inventoryVars

----------------------------------------------------------------------------
InventoryTypeOK ==
  /\ cited \subseteq registry /\ cited \subseteq Dictionary /\ reported \in 0 .. MaxReported
  /\ \A i \in DOMAIN rows : rows[i].product \in registry

\* A report that is kept is kept whole: every version it names of a product is a row,
\* and of what its source alone reports nothing else is left but another version of a
\* product it names (install, "three keys collapse into one row").
ReportsAreKeptWhole ==
  told # Silence =>
    /\ \A item \in told.items : \E i \in DOMAIN rows : rows[i].exists /\ <<rows[i].product, rows[i].version>> = item
    /\ told.by \in Sweeping =>
         \A i \in DOMAIN rows : rows[i].exists /\ rows[i].by = told.by => \E item \in told.items : item[1] = rows[i].product

\* No version of a product is two rows, whatever order they are reported in.
RowsAreUnique == Unique(rows)

\* No vulnerable version is installed without a finding, but one written since the
\* asset was last correlated (correlate_asset, "would stay invisible").
ExposureIsFound ==
  \A i \in DOMAIN rows \ passed :
    rows[i].exists /\ rows[i].product \in cited /\ rows[i].version \in Vulnerable => rows[i].product \in exposed

InventoryIsKept == ExposureIsFound /\ ReportsAreKeptWhole /\ RowsAreUnique
=============================================================================
