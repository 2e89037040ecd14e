---------------------------- MODULE SecretStore ----------------------------
(***************************************************************************)
(* Where stored credentials live: encrypted in their row, in an external    *)
(* vault, or both (security/secrets, security/secret_vault), and how they    *)
(* move: saves, `veyrs secrets migrate` and `veyrs secrets gc`               *)
(* (services/secret_storage).                                                *)
(*                                                                           *)
(* The vault and the database share no transaction: every save and every     *)
(* conversion writes the vault first and the row when it commits.            *)
(***************************************************************************)
EXTENDS Integers, FiniteSets

CONSTANTS
  Cells,        \* the encrypted columns of the rows
  VaultKeys,    \* entries the vault may hold
  Nothing,
  MaxSaves      \* bound: credentials saved

ASSUME SecretStoreAssumption == Nothing \notin VaultKeys \cup Cells /\ MaxSaves \in Nat

VARIABLES
  backend,    \* VEYRS_SECRET_BACKEND
  vaultUp,    \* whether the vault answers
  entry,      \* what it holds under each key; 0 where it has nothing
  minted,     \* the keys handed out so far
  young,      \* the entries younger than min_age_minutes
  cell,       \* the committed value of each column
  latest,     \* the plaintext its last committed save gave it
  saves,      \* credentials saved so far; the n-th plaintext is n
  saving,     \* a request that has encrypted a credential and not committed
  moving,     \* a migration
  collecting  \* a collection of orphans

secretVars == <<backend, vaultUp, entry, minted, young, cell, latest, saves, saving, moving, collecting>>

Backends == {"local", "mirror", "vault"}

\* storage_kind, vault_key and the sealed plaintext of a stored value.
Stored == [kind : Backends \cup {"empty"}, key : VaultKeys \cup {Nothing}, sealed : Nat]
Empty == [kind |-> "empty", key |-> Nothing, sealed |-> 0]
NoSave == [cell |-> Nothing, value |-> 0, stored |-> Empty]
NoMove == [target |-> "none", read |-> [c \in Cells |-> Empty], todo |-> {}, swapped |-> {},
           new |-> [c \in Cells |-> Empty], failed |-> {}]
NoCollection == [step |-> "idle", listed |-> {}, referenced |-> {}]

\* new_key: a UUID nobody has seen.
Fresh == VaultKeys \ minted

\* seal_as, whose vault write has taken place.
SealAs(value, kind, key) ==
  [kind |-> kind, key |-> IF kind = "local" THEN Nothing ELSE key,
   sealed |-> IF kind = "vault" THEN 0 ELSE value]

\* decrypt; 0 where it raises.
Decrypt(s) ==
  LET read == IF vaultUp /\ s.key # Nothing THEN entry[s.key] ELSE 0
  IN  CASE s.kind = "local"  -> s.sealed
        [] s.kind = "vault"  -> read
        [] s.kind = "mirror" -> IF backend # "local" /\ read # 0 THEN read ELSE s.sealed
        [] OTHER             -> 0

-----------------------------------------------------------------------------
(* A request saves a credential. *)

\* write; created_at is of the first one.
VaultWrite(k, value) ==
  /\ vaultUp
  /\ entry' = [entry EXCEPT ![k] = value] /\ minted' = minted \cup {k}
  /\ young' = IF entry[k] = 0 THEN young \cup {k} ELSE young

Saving(c, stored) ==
  saving' = [cell |-> c, value |-> saves + 1, stored |-> stored]

\* encrypt: it raises where only the vault would do and the vault refuses.
Encrypt(c) ==
  /\ saving = NoSave /\ saves < MaxSaves
  /\ \/ /\ backend = "local" \/ (backend = "mirror" /\ ~vaultUp)
        /\ Saving(c, SealAs(saves + 1, "local", Nothing))
        /\ UNCHANGED <<entry, minted, young>>
     \/ /\ backend # "local"
        /\ \E k \in Fresh : VaultWrite(k, saves + 1) /\ Saving(c, SealAs(saves + 1, backend, k))
  /\ saves' = saves + 1
  /\ UNCHANGED <<backend, vaultUp, cell, latest, moving, collecting>>

\* Its row may be locked by a migration that has swapped it.
CommitSave ==
  /\ saving # NoSave /\ saving.cell \notin moving.swapped
  /\ cell' = [cell EXCEPT ![saving.cell] = saving.stored]
  /\ latest' = [latest EXCEPT ![saving.cell] = saving.value]
  /\ saving' = NoSave
  /\ UNCHANGED <<backend, vaultUp, entry, minted, young, saves, moving, collecting>>

AbortSave ==
  /\ saving # NoSave
  /\ saving' = NoSave
  /\ UNCHANGED <<backend, vaultUp, entry, minted, young, cell, latest, saves, moving, collecting>>

-----------------------------------------------------------------------------
(* migrate, over one organization. *)

\* The target is refused unless the vault is usable; every value is read.
MigrateBegin(target) ==
  /\ moving = NoMove
  /\ target # "local" => vaultUp
  /\ moving' = [NoMove EXCEPT !.target = target, !.read = cell,
                  !.todo = {c \in Cells : cell[c].kind \notin {"empty", target}}]
  /\ UNCHANGED <<backend, vaultUp, entry, minted, young, cell, latest, saves, saving, collecting>>

\* The entry a conversion writes: the one it has, or a new one.
ReuseKey(s) == IF s.kind \in {"mirror", "vault"} THEN {s.key} ELSE Fresh

Convert(c) ==
  LET value == Decrypt(moving.read[c])
      Swap(k) ==
        moving' = IF cell[c] = moving.read[c]
                  THEN [moving EXCEPT !.todo = @ \ {c}, !.swapped = @ \cup {c},
                                      !.new[c] = SealAs(value, moving.target, k)]
                  ELSE [moving EXCEPT !.todo = @ \ {c}, !.failed = @ \cup {c}]
  IN  /\ c \in moving.todo /\ value # 0
      /\ \/ moving.target = "local" /\ Swap(Nothing) /\ UNCHANGED <<entry, minted, young>>
         \/ /\ moving.target # "local"
            /\ \E k \in ReuseKey(moving.read[c]) : VaultWrite(k, value) /\ Swap(k)
      /\ UNCHANGED <<backend, vaultUp, cell, latest, saves, saving, collecting>>

\* It cannot be read or stored: reported and skipped.
SkipUnreadable(c) ==
  /\ c \in moving.todo
  /\ Decrypt(moving.read[c]) = 0 \/ (moving.target # "local" /\ ~vaultUp)
  /\ moving' = [moving EXCEPT !.todo = @ \ {c}, !.failed = @ \cup {c}]
  /\ UNCHANGED <<backend, vaultUp, entry, minted, young, cell, latest, saves, saving, collecting>>

\* The organization is committed, its failures in the report.
MigrateCommit ==
  /\ moving # NoMove /\ moving.todo = {}
  /\ cell' = [c \in Cells |-> IF c \in moving.swapped THEN moving.new[c] ELSE cell[c]]
  /\ moving' = NoMove
  /\ UNCHANGED <<backend, vaultUp, entry, minted, young, latest, saves, saving, collecting>>

\* The command dies: what it wrote to the vault stays there.
MigrateDies ==
  /\ moving # NoMove
  /\ moving' = NoMove
  /\ UNCHANGED <<backend, vaultUp, entry, minted, young, cell, latest, saves, saving, collecting>>

-----------------------------------------------------------------------------
(* gc. *)

\* list_keys
ListEntries ==
  /\ collecting.step = "idle" /\ vaultUp
  /\ collecting' = [NoCollection EXCEPT !.step = "listed",
                      !.listed = {k \in VaultKeys : entry[k] # 0}]
  /\ UNCHANGED <<backend, vaultUp, entry, minted, young, cell, latest, saves, saving, moving>>

ScanCells ==
  /\ collecting.step = "listed"
  /\ collecting' = [collecting EXCEPT !.step = "scanned",
                                      !.referenced = {cell[c].key : c \in Cells}]
  /\ UNCHANGED <<backend, vaultUp, entry, minted, young, cell, latest, saves, saving, moving>>

\* The age of each candidate is not asked for.
Bug_DeleteOrphans ==
  /\ collecting.step = "scanned" /\ vaultUp
  /\ entry' = [k \in VaultKeys |->
       IF k \in collecting.listed \ collecting.referenced THEN 0 ELSE entry[k]]
  /\ collecting' = NoCollection
  /\ UNCHANGED <<backend, vaultUp, minted, young, cell, latest, saves, saving, moving>>

\* Entries no row referenced, and whose age is known and over the limit.
DeleteOrphans ==
  /\ collecting.step = "scanned" /\ vaultUp
  /\ entry' = [k \in VaultKeys |->
       IF k \in (collecting.listed \ collecting.referenced) \ young THEN 0 ELSE entry[k]]
  /\ collecting' = NoCollection
  /\ UNCHANGED <<backend, vaultUp, minted, young, cell, latest, saves, saving, moving>>

-----------------------------------------------------------------------------
(* Around it. *)

\* The API is restarted with another setting, between migrations.
SetBackend(b) ==
  /\ backend # b /\ saving = NoSave /\ moving = NoMove
  /\ backend' = b
  /\ UNCHANGED <<vaultUp, entry, minted, young, cell, latest, saves, saving, moving, collecting>>

\* _authed, _require_config: unreachable, sealed, refused or not configured.
VaultToggles ==
  /\ vaultUp' = ~vaultUp
  /\ UNCHANGED <<backend, entry, minted, young, cell, latest, saves, saving, moving, collecting>>

\* min_age_minutes pass, which no save, migration or collection outlasts.
EntriesAge ==
  /\ young # {} /\ saving = NoSave /\ moving = NoMove /\ collecting = NoCollection
  /\ young' = {}
  /\ UNCHANGED <<backend, vaultUp, entry, minted, cell, latest, saves, saving, moving, collecting>>

SecretInit ==
  /\ backend = "local" /\ vaultUp = TRUE
  /\ entry = [k \in VaultKeys |-> 0] /\ minted = {} /\ young = {}
  /\ cell = [c \in Cells |-> Empty] /\ latest = [c \in Cells |-> 0] /\ saves = 0
  /\ saving = NoSave /\ moving = NoMove /\ collecting = NoCollection

SecretNext ==
  \/ \E c \in Cells : Encrypt(c) \/ Convert(c) \/ SkipUnreadable(c)
  \/ CommitSave \/ AbortSave
  \/ \E target \in Backends : MigrateBegin(target) \/ SetBackend(target)
  \/ MigrateCommit \/ MigrateDies
  \/ ListEntries \/ ScanCells \/ DeleteOrphans
  \/ VaultToggles \/ EntriesAge

SecretSpec == SecretInit /\ [][SecretNext]_secretVars

-----------------------------------------------------------------------------
SecretTypeOK ==
  /\ backend \in Backends /\ vaultUp \in BOOLEAN
  /\ entry \in [VaultKeys -> Nat] /\ minted \subseteq VaultKeys /\ young \subseteq VaultKeys
  /\ cell \in [Cells -> Stored] /\ latest \in [Cells -> Nat] /\ saves \in Nat
  /\ saving \in [cell : Cells \cup {Nothing}, value : Nat, stored : Stored]
  /\ moving \in [target : Backends \cup {"none"}, read : [Cells -> Stored],
                 todo : SUBSET Cells, swapped : SUBSET Cells, new : [Cells -> Stored],
                 failed : SUBSET Cells]
  /\ collecting \in [step : {"idle", "listed", "scanned"}, listed : SUBSET VaultKeys,
                     referenced : SUBSET (VaultKeys \cup {Nothing})]

\* A credential is never lost, nor an earlier one brought back, by a migration that
\* an operator's save, a vault outage or its own death overtakes, or by a
\* collection that races either: both copies of it, where they exist, are the last
\* one saved (migrate, "never blanks, never deletes"; gc, "keep it").
CredentialsSurvive ==
  \A c \in Cells :
     /\ cell[c].kind \in {"vault", "mirror"} => entry[cell[c].key] = latest[c]
     /\ cell[c].kind \in {"local", "mirror"} => cell[c].sealed = latest[c]

\* A migration that reports no failure has moved everything, if the API saves that
\* way too: what was saved meanwhile is not left behind (migrate, next_step).
MigratedIsMoved ==
  moving # NoMove /\ moving'= NoMove /\ cell' # cell /\ moving.failed = {}
    /\ moving.target = backend /\ backend # "mirror"
  => \A c \in Cells : cell'[c].kind \in {backend, "empty"}

\* What moving the credentials between the database and the vault owes them
\* (secret_storage.migrate, secret_storage.gc).
CredentialsAreKept == [][CredentialsSurvive' /\ MigratedIsMoved]_secretVars
=============================================================================
