---------------------------- MODULE MCOperations ----------------------------
(* Small instances of the services that act on the host and on other systems:   *)
(* a behaviour is one of one service, and the others stand still.               *)
EXTENDS Updates, SecretStore, Outbox, ScannerSync, TLC

VARIABLE service

MCHost(mode, backup, signed, uploads, asks) ==
  [mode |-> mode, backup |-> backup, signed |-> signed, uploads |-> uploads,
   asks |-> asks, kills |-> IF uploads = 0 THEN 1 ELSE 0]

\* Updates with a backup hook, without one and with none wanted; uploaded releases,
\* one of them unsigned; a host that is updated from git.
MCHosts ==
  {MCHost("native", "hook", {1, 2}, 0, 2), MCHost("native", "skip", {1}, 0, 1),
   MCHost("native", "hook", {1}, 1, 1), MCHost("git", "none", {1}, 0, 1)}

MCNotices == 1 .. 3

MCInit ==
  /\ UpdatesInit /\ SecretInit /\ OutboxInit /\ ScannerInit
  /\ service \in {"updates", "secrets", "outbox", "scanners"}
  /\ service # "updates" => host = CHOOSE h \in MCHosts : TRUE
  /\ service # "outbox" => smtpEnabled

MCNext ==
  \/ /\ service = "updates" /\ UpdatesNext
     /\ UNCHANGED <<secretVars, outboxVars, scannerVars, service>>
  \/ /\ service = "secrets" /\ SecretNext
     /\ UNCHANGED <<updatesVars, outboxVars, scannerVars, service>>
  \/ /\ service = "outbox" /\ OutboxNext
     /\ UNCHANGED <<updatesVars, secretVars, scannerVars, service>>
  \/ /\ service = "scanners" /\ ScannerNext
     /\ UNCHANGED <<updatesVars, secretVars, outboxVars, service>>

MCVars == <<updatesVars, secretVars, outboxVars, scannerVars, service>>

MCSpec == MCInit /\ [][MCNext]_MCVars

\* The actors of every service have the same two names.
MCPerms == Permutations(Operators) \cup Permutations(Workers)

OperationsTypeOK == UpdatesTypeOK /\ SecretTypeOK /\ OutboxTypeOK /\ ScannerTypeOK
=============================================================================
