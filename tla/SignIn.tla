------------------------------- MODULE SignIn -------------------------------
(* Signing in to one account: the password and who vouches for it (a local    *)
(* hash, the directory, a RADIUS server, an identity provider), the second    *)
(* factor and its enrolment, the budget of wrong answers, the codes kept in   *)
(* Redis, and the refresh tokens that come out of it                          *)
(* (api/v1/auth.py, security/mfa.py, security/mfa_delivery.py,                *)
(* services/mfa_admin.py, services/oidc_auth.py, services/radius_auth.py).    *)
(* A request is one action.  Roles are in module Grants.                      *)
EXTENDS Naturals, FiniteSets, Sequences

CONSTANTS
  MaxFailed,       \* wrong answers that lock the account (MAX_FAILED)
  MaxTries,        \* wrong guesses that burn a delivered code (MAX_TRIES)
  MaxSends,        \* codes sent in one window (MAX_SENDS_PER_WINDOW)
  RecoveryCodes,   \* the codes handed out at activation
  Chats,           \* Telegram chats the account may register
  Nothing,
  MaxTokens,       \* bound: refresh tokens issued in a behaviour
  MaxStep          \* bound: periods of the authenticator's clock

Delivered == {"email", "telegram"}
Methods == {"totp"} \cup Delivered

\* NULL is no method and no period.
ASSUME SignInAssumption ==
  /\ {MaxFailed, MaxTries, MaxSends, MaxTokens} \subseteq Nat \ {0}
  /\ MaxStep \in Nat \ {0} /\ IsFiniteSet(RecoveryCodes)
  /\ Nothing \notin Nat /\ Nothing \notin Methods

VARIABLES
  user,      \* the row of the account
  otp,       \* what Redis holds for it: the code, the pause, the counter
  pending,   \* other single-use entries in Redis
  token,     \* token[i]: the i-th refresh token issued
  step,      \* the period the clock is in
  ghost      \* what happened, for the properties

signInVars == <<user, otp, pending, token, step, ghost>>

User ==
  [active : BOOLEAN, deleted : BOOLEAN, superuser : BOOLEAN, local : BOOLEAN,
   failed : 0 .. MaxFailed - 1, locked : BOOLEAN,
   enabled : BOOLEAN, method : Methods \cup {Nothing},
   secret : {Nothing, "readable", "unreadable"}, last : Nat \cup {Nothing},
   chat : Chats \cup {Nothing}, recovery : SUBSET RecoveryCodes]

\* Codes and steps that worked, guesses since the last full sign-in or lock,
\* sessions that were ended, what the last request signed in, who it was.
Ghost ==
  [steps : SUBSET Nat, burnt : SUBSET RecoveryCodes, repeated : BOOLEAN,
   guesses : Nat, ended : SUBSET Nat, proved : {Nothing, "email"} \cup Chats]

NoCode == [for |-> Nothing, to |-> Nothing, tries |-> 0]

SignInTypeOK ==
  /\ user \in User
  /\ otp.code.for \in Delivered \cup {Nothing} /\ otp.code.tries \in 0 .. MaxTries - 1
  /\ otp.paused \in BOOLEAN /\ otp.sent \in 0 .. MaxSends
  /\ pending \in [challenge : BOOLEAN, flow : BOOLEAN, handoff : BOOLEAN]
  /\ \A i \in DOMAIN token : token[i].root \in 1 .. i
  /\ step \in 1 .. MaxStep /\ ghost \in Ghost

SignInInit ==
  /\ \E superuser, local \in BOOLEAN :
       user = [active |-> TRUE, deleted |-> FALSE, superuser |-> superuser, local |-> local,
               failed |-> 0, locked |-> FALSE, enabled |-> FALSE, method |-> Nothing,
               secret |-> Nothing, last |-> Nothing, chat |-> Nothing, recovery |-> {}]
  /\ otp = [code |-> NoCode, paused |-> FALSE, sent |-> 0]
  /\ pending = [challenge |-> FALSE, flow |-> FALSE, handoff |-> FALSE]
  /\ token = << >> /\ step = 1
  /\ ghost = [steps |-> {}, burnt |-> {}, repeated |-> FALSE, guesses |-> 0, ended |-> {},
              proved |-> Nothing]

-----------------------------------------------------------------------------
(* What a right or a wrong code does. (Bug_ definitions are plausible         *)
(* mistakes; no specification uses them.)                                     *)

\* Where codes of a method go.
Destination(u, method) == IF method = "email" THEN "email" ELSE u.chat

\* Codes an account holder may type. Recovery codes look different from others.
Answers ==
  [kind : {"wrong"}] \cup [kind : {"code"}] \cup [kind : {"step"}, step : step - 1 .. step + 1]
    \cup [kind : {"recovery"}, code : RecoveryCodes \cup {Nothing}]

\* A step at or below the last accepted one is a replay.
Fresh(u, s) == u.last = Nothing \/ s > u.last

\* Does the answer prove the second factor `method`?
Proves(u, answer, method) ==
  IF u.enabled /\ answer.kind = "recovery" THEN answer.code \in u.recovery
  ELSE IF method = "totp"
    THEN u.secret = "readable" /\ answer.kind = "step" /\ Fresh(u, answer.step)
    ELSE answer.kind = "code" /\ otp.code.for = method

\* The row after the answer was accepted.
Consumed(u, answer) ==
  CASE answer.kind = "recovery" -> [u EXCEPT !.recovery = @ \ {answer.code}]
    [] answer.kind = "step" -> [u EXCEPT !.last = answer.step]
    [] OTHER -> u

Bug_Checked(answer, method) ==
  IF method \notin Delivered \/ otp.code.for # method \/ answer.kind = "recovery" THEN otp
  ELSE IF answer.kind = "code" THEN [otp EXCEPT !.code = NoCode, !.paused = FALSE]
  ELSE [otp EXCEPT !.code.tries = @ + 1]

\* The delivered code goes when it is right, and at the last wrong guess. Only
\* six digits, read against a stored code of the method, count as a guess.
Checked(answer, method) ==
  IF method \notin Delivered \/ otp.code.for # method \/ answer.kind = "recovery" THEN otp
  ELSE IF answer.kind = "code" THEN [otp EXCEPT !.code = NoCode, !.paused = FALSE]
  ELSE IF otp.code.tries + 1 >= MaxTries THEN [otp EXCEPT !.code = NoCode]
  ELSE [otp EXCEPT !.code.tries = @ + 1]

\* The history after the answer was accepted.
Accepted(g, answer, method) ==
  [g EXCEPT !.steps = IF answer.kind = "step" THEN @ \cup {answer.step} ELSE @,
            !.burnt = IF answer.kind = "recovery" THEN @ \cup {answer.code} ELSE @,
            !.repeated = @ \/ (answer.kind = "step" /\ answer.step \in g.steps)
                           \/ (answer.kind = "recovery" /\ answer.code \in g.burnt),
            !.proved = IF answer.kind = "code" THEN otp.code.to ELSE @]

\* A code is sent by `method`: not within the pause, and not beyond the window's
\* number; the transport may refuse, and then nothing is stored.
Sent(u, method, accepted) ==
  IF otp.paused \/ Destination(u, method) = Nothing THEN otp
  ELSE IF otp.sent = MaxSends THEN otp
  ELSE IF ~accepted THEN [otp EXCEPT !.sent = @ + 1]
  ELSE [code |-> [for |-> method, to |-> Destination(u, method), tries |-> 0],
        paused |-> TRUE, sent |-> otp.sent + 1]

Bug_Spent(u) == [u EXCEPT !.failed = (@ + 1) % MaxFailed]

\* One failed attempt is charged; the last of the budget locks the account.
Spent(u) ==
  IF u.failed + 1 >= MaxFailed THEN [u EXCEPT !.failed = 0, !.locked = TRUE]
  ELSE [u EXCEPT !.failed = @ + 1]

-----------------------------------------------------------------------------
(* Sessions.                                                                  *)

Principal == user.active /\ ~user.deleted /\ ~user.locked /\ token # << >>

Issued(root) == Append(token, [root |-> root, state |-> "live"])

\* Every live token of the account, which is its own family.
Revoked == [i \in DOMAIN token |-> [token[i] EXCEPT !.state = "revoked"]]

Ended(g) == [g EXCEPT !.ended = @ \cup {token[i].root : i \in DOMAIN token}]

\* The end of every complete sign-in.
Complete(u) ==
  /\ Len(token) < MaxTokens
  /\ user' = [u EXCEPT !.failed = 0, !.locked = FALSE]
  /\ token' = Issued(Len(token) + 1)
  /\ UNCHANGED step

-----------------------------------------------------------------------------
(* POST /login.                                                               *)

\* Who may vouch for a password: the local hash first; nobody else for a
\* platform administrator; the directory, then the RADIUS server for others.
Vouchers ==
  (IF user.local THEN {"local"} ELSE {})
    \cup (IF user.superuser THEN {} ELSE {"directory", "radius", "challenge"})

CanLogin == ~user.deleted /\ ~user.locked

\* A wrong password, or one nobody who could vouch for it can be asked about.
LoginWrongPassword ==
  /\ CanLogin /\ ghost.guesses <= MaxFailed
  /\ user' = Spent(user) /\ ghost' = [ghost EXCEPT !.guesses = @ + 1]
  /\ UNCHANGED <<otp, pending, token, step>>

\* The RADIUS server wants its own second factor: no attempt is charged.
LoginChallenged ==
  /\ CanLogin /\ "challenge" \in Vouchers /\ ~pending.challenge
  /\ pending' = [pending EXCEPT !.challenge = TRUE]
  /\ UNCHANGED <<user, otp, token, step, ghost>>

\* The password is right and a code is asked for, and sent if it is delivered.
LoginAsksForCode(transport) ==
  /\ CanLogin /\ user.active /\ user.enabled /\ Vouchers \cap {"local", "directory", "radius"} # {}
  /\ user.method \in Delivered
  /\ otp' = Sent(user, user.method, transport)
  /\ UNCHANGED <<user, pending, token, step, ghost>>

LoginWithCode(answer) ==
  /\ CanLogin /\ user.active /\ user.enabled /\ Vouchers \cap {"local", "directory", "radius"} # {}
  /\ IF Proves(user, answer, user.method)
       THEN /\ Complete(Consumed(user, answer))
            /\ ghost' = [Accepted(ghost, answer, user.method) EXCEPT !.guesses = 0]
       ELSE /\ user' = Spent(user) /\ ghost.guesses <= MaxFailed
            /\ ghost' = [ghost EXCEPT !.guesses = @ + 1] /\ UNCHANGED <<token, step>>
  /\ otp' = Checked(answer, user.method) /\ UNCHANGED pending

LoginWithPassword ==
  /\ CanLogin /\ user.active /\ ~user.enabled /\ Vouchers \cap {"local", "directory", "radius"} # {}
  /\ Complete(user) /\ ghost' = [ghost EXCEPT !.guesses = 0]
  /\ UNCHANGED <<otp, pending>>

\* The answer to the RADIUS challenge: VEYRS asks for no code of its own.
AnswerChallenge(outcome) ==
  /\ CanLogin /\ pending.challenge
  /\ outcome = "accept" => user.active
  /\ pending' = [pending EXCEPT !.challenge = (outcome = "challenge")]
  /\ IF outcome = "accept"
       THEN Complete(user) /\ ghost' = [ghost EXCEPT !.guesses = 0]
       ELSE IF outcome = "challenge" THEN UNCHANGED <<user, token, step, ghost>>
       ELSE /\ user' = Spent(user) /\ ghost.guesses <= MaxFailed
            /\ ghost' = [ghost EXCEPT !.guesses = @ + 1] /\ UNCHANGED <<token, step>>
  /\ UNCHANGED otp

-----------------------------------------------------------------------------
(* Single sign-on: the flow, the callback, the exchange of its handoff.       *)

OidcStart ==
  /\ ~pending.flow /\ pending' = [pending EXCEPT !.flow = TRUE]
  /\ UNCHANGED <<user, otp, token, step, ghost>>

OidcCallback(vouched) ==
  /\ pending.flow
  /\ pending' = [pending EXCEPT !.flow = FALSE,
                   !.handoff = @ \/ (vouched /\ user.active /\ ~user.deleted /\ ~user.superuser)]
  /\ UNCHANGED <<user, otp, token, step, ghost>>

Bug_OidcExchange ==
  /\ pending.handoff /\ pending' = [pending EXCEPT !.handoff = FALSE]
  /\ Complete(user) /\ ghost' = [ghost EXCEPT !.guesses = 0]
  /\ UNCHANGED otp

OidcExchange ==
  /\ pending.handoff /\ pending' = [pending EXCEPT !.handoff = FALSE]
  /\ IF user.active /\ ~user.superuser
       THEN Complete(user) /\ ghost' = [ghost EXCEPT !.guesses = 0]
       ELSE UNCHANGED <<user, token, step, ghost>>
  /\ UNCHANGED otp

-----------------------------------------------------------------------------
(* Refresh, logout, password.                                                 *)

\* A live token is exchanged for one of its session. One that was revoked ends
\* every session, one that expired or whose account is gone is revoked.
Refresh(i) ==
  /\ IF token[i].state = "live" /\ user.active
       THEN /\ Len(token) < MaxTokens
            /\ token' = [Issued(token[i].root) EXCEPT ![i].state = "revoked"]
            /\ UNCHANGED ghost
       ELSE IF token[i].state = "revoked"
         THEN token' = Revoked /\ ghost' = Ended(ghost)
         ELSE token' = [token EXCEPT ![i].state = "revoked"] /\ UNCHANGED ghost
  /\ UNCHANGED <<user, otp, pending, step>>

Logout ==
  /\ Principal /\ token' = Revoked /\ ghost' = Ended(ghost)
  /\ UNCHANGED <<user, otp, pending, step>>

ChangePassword ==
  /\ Principal /\ user.local
  /\ token' = Revoked /\ ghost' = Ended(ghost)
  /\ UNCHANGED <<user, otp, pending, step>>

-----------------------------------------------------------------------------
(* Enrolment of the second factor.                                            *)

MfaEnroll(method, chat, transport) ==
  /\ Principal /\ ~user.enabled
  /\ LET u == [user EXCEPT !.method = method,
                           !.secret = IF method = "totp" THEN "readable" ELSE Nothing,
                           !.last = Nothing, !.chat = IF method = "telegram" THEN chat ELSE @]
     IN  /\ user' = u
         /\ otp' = IF method = "totp" THEN otp ELSE Sent(u, method, transport)
  /\ ghost' = [ghost EXCEPT !.steps = {}]
  /\ UNCHANGED <<pending, token, step>>

MfaSendCode(transport) ==
  /\ Principal /\ user.method \in Delivered
  /\ otp' = Sent(user, user.method, transport)
  /\ UNCHANGED <<user, pending, token, step, ghost>>

MfaActivate(answer) ==
  /\ Principal /\ ~user.enabled /\ user.method # Nothing
  /\ user.method = "totp" => user.secret = "readable"
  /\ IF Proves(user, answer, user.method)
       THEN /\ user' = [Consumed(user, answer) EXCEPT !.enabled = TRUE, !.recovery = RecoveryCodes]
            /\ ghost' = [Accepted(ghost, answer, user.method) EXCEPT !.burnt = {}]
       ELSE UNCHANGED <<user, ghost>>
  /\ otp' = Checked(answer, user.method)
  /\ UNCHANGED <<pending, token, step>>

MfaRecoveryCodes(answer) ==
  /\ Principal /\ user.enabled /\ user.local
  /\ IF Proves(user, answer, user.method)
       THEN /\ user' = [Consumed(user, answer) EXCEPT !.recovery = RecoveryCodes]
            /\ ghost' = [Accepted(ghost, answer, user.method) EXCEPT !.burnt = {}]
       ELSE UNCHANGED <<user, ghost>>
  /\ otp' = Checked(answer, user.method)
  /\ UNCHANGED <<pending, token, step>>

Cleared(u) ==
  [u EXCEPT !.enabled = FALSE, !.method = Nothing, !.secret = Nothing, !.last = Nothing,
            !.chat = Nothing, !.recovery = {}]

\* The password alone clears a secret that cannot be read any more.
MfaDisable(answer) ==
  /\ Principal /\ user.enabled /\ user.local
  /\ IF user.method = "totp" /\ user.secret # "readable"
       THEN user' = Cleared(user) /\ UNCHANGED <<otp, ghost>>
       ELSE /\ otp' = Checked(answer, user.method)
            /\ IF Proves(user, answer, user.method)
                 THEN user' = Cleared(user) /\ ghost' = Accepted(ghost, answer, user.method)
                 ELSE UNCHANGED <<user, ghost>>
  /\ UNCHANGED <<pending, token, step>>

\* The operator's commands on the host.
MfaSetup(method, chat) ==
  /\ ~user.deleted /\ ~user.enabled
  /\ user' = [user EXCEPT !.enabled = TRUE, !.method = method, !.secret = Nothing, !.last = Nothing,
                          !.chat = IF method = "telegram" THEN chat ELSE Nothing,
                          !.recovery = RecoveryCodes]
  /\ ghost' = [ghost EXCEPT !.burnt = {}, !.proved = Destination(user', method)]
  /\ UNCHANGED <<otp, pending, token, step>>

MfaReset ==
  /\ ~user.deleted /\ user' = Cleared(user)
  /\ UNCHANGED <<otp, pending, token, step, ghost>>

-----------------------------------------------------------------------------
(* Administration of the account, and time.                                   *)

UpdateUser(active) ==
  /\ ~user.deleted /\ user.active # active
  /\ user' = [user EXCEPT !.active = active]
  /\ UNCHANGED <<otp, pending, token, step, ghost>>

DeleteUser ==
  /\ ~user.deleted /\ user' = [user EXCEPT !.deleted = TRUE, !.active = FALSE]
  /\ UNCHANGED <<otp, pending, token, step, ghost>>

\* The encryption key is rotated without re-enrolment.
KeyLost ==
  /\ user.secret = "readable" /\ user' = [user EXCEPT !.secret = "unreadable"]
  /\ UNCHANGED <<otp, pending, token, step, ghost>>

\* The lock, a period, the pause, a code, a window, a flow or a token ends.
LockEnds ==
  /\ user.locked /\ user' = [user EXCEPT !.locked = FALSE]
  /\ ghost' = [ghost EXCEPT !.guesses = 0]
  /\ UNCHANGED <<otp, pending, token, step>>

PeriodEnds ==
  /\ step < MaxStep /\ step' = step + 1
  /\ UNCHANGED <<user, otp, pending, token, ghost>>

EntryExpires ==
  /\ \/ otp.paused /\ otp' = [otp EXCEPT !.paused = FALSE] /\ UNCHANGED pending
     \/ otp.code # NoCode /\ otp' = [otp EXCEPT !.code = NoCode] /\ UNCHANGED pending
     \/ otp.sent > 0 /\ otp' = [otp EXCEPT !.sent = 0] /\ UNCHANGED pending
     \/ \E k \in DOMAIN pending :
          pending[k] /\ pending' = [pending EXCEPT ![k] = FALSE] /\ UNCHANGED otp
  /\ UNCHANGED <<user, token, step, ghost>>

TokenExpires(i) ==
  /\ token[i].state = "live" /\ token' = [token EXCEPT ![i].state = "expired"]
  /\ UNCHANGED <<user, otp, pending, step, ghost>>

-----------------------------------------------------------------------------
LoginNext ==
  \/ LoginWrongPassword \/ LoginChallenged \/ LoginWithPassword
  \/ \E transport \in BOOLEAN : LoginAsksForCode(transport)
  \/ \E answer \in Answers : LoginWithCode(answer)
  \/ \E outcome \in {"accept", "reject", "challenge"} : AnswerChallenge(outcome)
  \/ OidcStart \/ OidcExchange
  \/ \E vouched \in BOOLEAN : OidcCallback(vouched)

SessionNext ==
  \/ Logout \/ ChangePassword
  \/ \E i \in DOMAIN token : Refresh(i) \/ TokenExpires(i)

MfaNext ==
  \/ \E chat \in Chats, transport \in BOOLEAN, method \in Methods : MfaEnroll(method, chat, transport)
  \/ \E transport \in BOOLEAN : MfaSendCode(transport)
  \/ \E answer \in Answers : MfaActivate(answer) \/ MfaRecoveryCodes(answer) \/ MfaDisable(answer)
  \/ \E method \in Delivered, chat \in Chats : MfaSetup(method, chat)
  \/ MfaReset

AccountNext ==
  \/ \E active \in BOOLEAN : UpdateUser(active)
  \/ DeleteUser \/ KeyLost \/ LockEnds \/ PeriodEnds \/ EntryExpires

SignInNext == LoginNext \/ SessionNext \/ MfaNext \/ AccountNext

SignInSpec == SignInInit /\ [][SignInNext]_signInVars

-----------------------------------------------------------------------------
\* Passwords and codes share one budget: whatever challenges, sign-in attempts
\* that were not finished and codes lie between them, after MaxFailed wrong
\* answers the account is locked until the lock ends or somebody signs in
\* completely (auth.py _spend_attempt).
GuessesAreBounded ==
  ghost.guesses <= MaxFailed /\ (ghost.guesses = MaxFailed => user.locked)

\* No step of the authenticator and no recovery code works twice, through any
\* of the endpoints that take one, until it is enrolled or handed out anew.
CodesWorkOnce == ~ghost.repeated

\* What the two budgets owe an account, whatever endpoint takes the answer.
SignInIsBounded == GuessesAreBounded /\ CodesWorkOnce

\* A session has at most one token that can be exchanged, and none once it was
\* ended: by a logout, a change of the password or the replay of a token.
SessionsEnd ==
  \A i \in DOMAIN token : token[i].state = "live" =>
    /\ token[i].root \notin ghost.ended
    /\ \A j \in DOMAIN token : token[j].state = "live" /\ token[j].root = token[i].root => i = j

\* Nothing that began while the account was active, like a handoff or a
\* challenge, gives it a token after it was disabled or deleted.
GoneGetsNothing ==
  [][Len(token') > Len(token) => user.active /\ ~user.deleted]_signInVars

\* What the ends of sessions and accounts are worth (auth.py, services/oidc_auth.py).
SessionsAreClosed == []SessionsEnd /\ GoneGetsNothing

-----------------------------------------------------------------------------
(* What the comments say and the code does otherwise.                         *)

\* The second factor reaches the person: codes were received where they go
\* ("`activate` is the proof that the second factor actually reaches the person").
EnabledIsProven ==
  user.enabled /\ user.method \in Delivered => ghost.proved = Destination(user, user.method)
=============================================================================
