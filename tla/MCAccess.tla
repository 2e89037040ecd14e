------------------------------ MODULE MCAccess ------------------------------
(* Small instances of SignIn and of Grants for TLC.                          *)
EXTENDS SignIn, Grants, TLC

\* What happens around the account in a behaviour.
VARIABLE focus

mcVars == <<signInVars, grantVars, focus>>

\* A person with a local password who enrols, signs in and fumbles.
Codes ==
  /\ focus = "codes"
  /\ \/ LoginWrongPassword \/ LoginWithPassword \/ \E i \in DOMAIN token : Refresh(i)
     \/ \E transport \in BOOLEAN : LoginAsksForCode(transport)
     \/ \E answer \in Answers : LoginWithCode(answer)
     \/ MfaNext \/ LockEnds \/ PeriodEnds \/ KeyLost
     \/ (EntryExpires /\ UNCHANGED pending)
  /\ UNCHANGED grantVars

\* Who comes in by every door, with the second factor set up by an operator.
Doors ==
  /\ focus = "doors"
  /\ \/ LoginNext \/ SessionNext \/ LockEnds \/ EntryExpires
     \/ \E active \in BOOLEAN : UpdateUser(active)
     \/ DeleteUser \/ MfaReset
     \/ \E chat \in Chats : MfaSetup("telegram", chat)
  /\ ghost'.burnt = {}
  /\ UNCHANGED grantVars

\* What the person may see.
Sight == focus = "grants" /\ GrantsNext /\ UNCHANGED signInVars

MCInit ==
  /\ SignInInit /\ GrantsInit
  /\ \/ focus = "codes" /\ user.local /\ ~user.superuser /\ ~unownedVisible
     \/ focus = "doors" /\ ~unownedVisible
     \/ focus = "grants" /\ user.local /\ ~user.superuser

MCNext == (Codes \/ Doors \/ Sight) /\ UNCHANGED focus

MCSpec == MCInit /\ [][MCNext]_mcVars

AccessTypeOK == SignInTypeOK /\ GrantsTypeOK

\* The teams differ in nothing but their names.
MCPerms == Permutations(Teams)
=============================================================================
