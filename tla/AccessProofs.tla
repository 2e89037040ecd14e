---------------------------- MODULE AccessProofs ----------------------------
(***************************************************************************)
(* Theorems of SignIn, for every budget of wrong answers, of guesses and of *)
(* codes, and every set of recovery codes and of chats; and of Grants, for   *)
(* every set of roles, defaults and teams.                                   *)
(***************************************************************************)
EXTENDS MCAccess, SequenceTheorems, TLAPS

(***************************************************************************)
(* Signing in and sessions.                                                *)
(***************************************************************************)
Otp == [code : [for : Delivered \cup {Nothing}, to : {Nothing, "email"} \cup Chats, tries : 0 .. MaxTries - 1],
        paused : BOOLEAN, sent : 0 .. MaxSends]
Entries == [challenge : BOOLEAN, flow : BOOLEAN, handoff : BOOLEAN]
Token == [root : Nat, state : {"live", "revoked", "expired"}]

Typed ==
  /\ user \in User /\ otp \in Otp /\ pending \in Entries /\ token \in Seq(Token)
  /\ step \in 1 .. MaxStep /\ ghost \in Ghost

\* The row charges what was guessed since the last complete sign-in.
Counted(u, g) ==
  /\ g.guesses = IF u.locked THEN MaxFailed ELSE u.failed
  /\ u.locked => u.failed = 0

\* What worked before cannot work again: no recovery code that was used is left, and
\* the authenticator's steps are at or below the last one.
Used(u, g) ==
  /\ ~g.repeated /\ g.burnt \cap u.recovery = {}
  /\ u.method = "totp" => \A s \in g.steps : u.last \in Nat /\ s <= u.last

\* A session begins with a token of its own, and has one that is live at most, none once
\* it was ended.
Closed(t, ended) ==
  /\ ended \subseteq 1 .. Len(t)
  /\ \A i \in 1 .. Len(t) : t[i].root \in 1 .. i
  /\ \A i \in 1 .. Len(t) : t[i].state = "live" =>
       /\ t[i].root \notin ended
       /\ \A j \in 1 .. Len(t) : t[j].state = "live" /\ t[j].root = t[i].root => i = j

Gone(u) == u.deleted => ~u.active

\* The inductive invariant.
SignInInv == Typed /\ Counted(user, ghost) /\ Used(user, ghost) /\ Closed(token, ghost.ended) /\ Gone(user)

-----------------------------------------------------------------------------
(* Answers.                                                                  *)

LEMMA AnswerFacts ==
  ASSUME step \in 1 .. MaxStep, NEW answer \in Answers
  PROVE  /\ answer.kind \in {"wrong", "code", "step", "recovery"}
         /\ answer.kind = "step" => answer.step \in Nat
         /\ answer.kind = "recovery" => answer.code \in RecoveryCodes \cup {Nothing}
BY SignInAssumption DEF Answers

LEMMA OtpFacts ==
  ASSUME otp \in Otp
  PROVE  /\ otp.code.for \in Delivered \cup {Nothing} /\ otp.code.to \in {Nothing, "email"} \cup Chats
         /\ otp.code.tries \in 0 .. MaxTries - 1 /\ otp.paused \in BOOLEAN /\ otp.sent \in 0 .. MaxSends
         /\ NoCode \in [for : Delivered \cup {Nothing}, to : {Nothing, "email"} \cup Chats, tries : 0 .. MaxTries - 1]
BY SignInAssumption DEF Otp, NoCode

LEMMA CheckedType ==
  ASSUME otp \in Otp, NEW answer, NEW method
  PROVE  Checked(answer, method) \in Otp
<1> DEFINE code == [otp.code EXCEPT !.tries = @ + 1]
<1>1. /\ MaxTries \in Nat /\ otp.code.tries \in Nat
  BY OtpFacts, SignInAssumption
<1>2. [otp EXCEPT !.code = NoCode, !.paused = FALSE] \in Otp /\ [otp EXCEPT !.code = NoCode] \in Otp
  BY OtpFacts DEF Otp
<1>3. ASSUME ~(otp.code.tries + 1 >= MaxTries) PROVE [otp EXCEPT !.code.tries = @ + 1] \in Otp
  <2>1. otp.code.tries + 1 \in 0 .. MaxTries - 1
    BY <1>1, <1>3
  <2> QED BY <2>1, OtpFacts DEF Otp
<1> QED BY <1>2, <1>3 DEF Checked

LEMMA SentType ==
  ASSUME otp \in Otp, NEW u \in User, NEW method \in Delivered, NEW accepted \in BOOLEAN
  PROVE  Sent(u, method, accepted) \in Otp
<1>1. Destination(u, method) \in {Nothing, "email"} \cup Chats
  BY DEF Destination, User
<1>2. /\ MaxSends \in Nat /\ MaxTries \in Nat \ {0} /\ otp.sent \in Nat /\ otp.sent <= MaxSends
  BY OtpFacts, SignInAssumption
<1>3. ASSUME otp.sent # MaxSends
      PROVE  /\ [otp EXCEPT !.sent = @ + 1] \in Otp
             /\ [code |-> [for |-> method, to |-> Destination(u, method), tries |-> 0],
                 paused |-> TRUE, sent |-> otp.sent + 1] \in Otp
  <2>1. otp.sent + 1 \in 0 .. MaxSends /\ 0 \in 0 .. MaxTries - 1
    BY <1>2, <1>3
  <2> QED BY <2>1, <1>1 DEF Otp
<1> QED BY <1>3 DEF Sent

\* What an accepted answer does to the row and to the history.
LEMMA AcceptedFacts ==
  ASSUME Typed, Used(user, ghost), NEW answer \in Answers, Proves(user, answer, user.method)
  PROVE  /\ Consumed(user, answer) \in User
         /\ Accepted(ghost, answer, user.method) \in Ghost
         /\ \A f \in {"active", "deleted", "superuser", "local", "failed", "locked", "enabled", "method"} :
              Consumed(user, answer)[f] = user[f]
         /\ Accepted(ghost, answer, user.method).guesses = ghost.guesses
         /\ Accepted(ghost, answer, user.method).ended = ghost.ended
         /\ Used(Consumed(user, answer), Accepted(ghost, answer, user.method))
<1> DEFINE u == Consumed(user, answer)
           g == Accepted(ghost, answer, user.method)
<1>1. /\ answer.kind \in {"wrong", "code", "step", "recovery"}
      /\ answer.kind = "step" => answer.step \in Nat
      /\ answer.kind = "recovery" => answer.code \in RecoveryCodes \cup {Nothing}
  BY AnswerFacts DEF Typed
<1>2. /\ answer.kind = "recovery" => answer.code \in user.recovery
      /\ answer.kind = "step" => user.method = "totp" /\ Fresh(user, answer.step)
      /\ answer.kind # "wrong"
  BY <1>1 DEF Proves
<1>3. user \in User /\ ghost \in Ghost /\ otp.code.to \in {Nothing, "email"} \cup Chats
  BY OtpFacts DEF Typed
<1>4. /\ u \in User
      /\ \A f \in {"active", "deleted", "superuser", "local", "failed", "locked", "enabled", "method"} : u[f] = user[f]
  BY <1>1, <1>3 DEF Consumed, User
<1>5. /\ u.recovery = IF answer.kind = "recovery" THEN user.recovery \ {answer.code} ELSE user.recovery
      /\ u.last = IF answer.kind = "step" THEN answer.step ELSE user.last
      /\ u.method = user.method
  BY <1>1, <1>3 DEF Consumed, User
<1>6. /\ g.steps = IF answer.kind = "step" THEN ghost.steps \cup {answer.step} ELSE ghost.steps
      /\ g.burnt = IF answer.kind = "recovery" THEN ghost.burnt \cup {answer.code} ELSE ghost.burnt
      /\ g.repeated = (ghost.repeated \/ (answer.kind = "step" /\ answer.step \in ghost.steps)
                                      \/ (answer.kind = "recovery" /\ answer.code \in ghost.burnt))
      /\ g.proved = IF answer.kind = "code" THEN otp.code.to ELSE ghost.proved
      /\ g.guesses = ghost.guesses /\ g.ended = ghost.ended
      /\ g = [steps |-> g.steps, burnt |-> g.burnt, repeated |-> g.repeated, guesses |-> g.guesses,
              ended |-> g.ended, proved |-> g.proved]
  <2> DEFINE steps == IF answer.kind = "step" THEN ghost.steps \cup {answer.step} ELSE ghost.steps
             burnt == IF answer.kind = "recovery" THEN ghost.burnt \cup {answer.code} ELSE ghost.burnt
             repeated == ghost.repeated \/ (answer.kind = "step" /\ answer.step \in ghost.steps)
                                        \/ (answer.kind = "recovery" /\ answer.code \in ghost.burnt)
             proved == IF answer.kind = "code" THEN otp.code.to ELSE ghost.proved
  <2>1. g = [ghost EXCEPT !.steps = steps, !.burnt = burnt, !.repeated = repeated, !.proved = proved]
    BY DEF Accepted
  <2>2. /\ steps = IF answer.kind = "step" THEN ghost.steps \cup {answer.step} ELSE ghost.steps
        /\ burnt = IF answer.kind = "recovery" THEN ghost.burnt \cup {answer.code} ELSE ghost.burnt
        /\ repeated = (ghost.repeated \/ (answer.kind = "step" /\ answer.step \in ghost.steps)
                                      \/ (answer.kind = "recovery" /\ answer.code \in ghost.burnt))
        /\ proved = IF answer.kind = "code" THEN otp.code.to ELSE ghost.proved
    OBVIOUS
  <2> HIDE DEF g, steps, burnt, repeated, proved
  <2>3. /\ g.steps = steps /\ g.burnt = burnt /\ g.repeated = repeated /\ g.proved = proved
        /\ g.guesses = ghost.guesses /\ g.ended = ghost.ended
        /\ g = [steps |-> g.steps, burnt |-> g.burnt, repeated |-> g.repeated, guesses |-> g.guesses,
                ended |-> g.ended, proved |-> g.proved]
    BY <1>3, <2>1 DEF Ghost
  <2> QED BY <2>2, <2>3
<1> HIDE DEF u, g
<1>7. /\ ghost.steps \subseteq Nat /\ ghost.burnt \subseteq RecoveryCodes /\ ghost.guesses \in Nat
      /\ ghost.ended \subseteq Nat /\ ghost.proved \in {Nothing, "email"} \cup Chats
      /\ user.recovery \subseteq RecoveryCodes /\ user.last \in Nat \cup {Nothing}
  BY <1>3 DEF Ghost, User
<1>8. /\ g.steps \subseteq Nat /\ g.burnt \subseteq RecoveryCodes /\ g.repeated \in BOOLEAN
      /\ g.proved \in {Nothing, "email"} \cup Chats
  BY <1>1, <1>2, <1>3, <1>6, <1>7
<1>9. g \in Ghost
  BY <1>6, <1>7, <1>8 DEF Ghost
\* A step that is fresh is above those accepted, a recovery code that is left was not used.
<1>10. answer.kind = "step" => answer.step \notin ghost.steps
  BY <1>1, <1>2, <1>7, SignInAssumption DEF Used, Fresh
<1>11. answer.kind = "recovery" => answer.code \notin ghost.burnt
  BY <1>2 DEF Used
<1>12. ~g.repeated
  BY <1>6, <1>10, <1>11 DEF Used
<1>13. g.burnt \cap u.recovery = {}
  BY <1>5, <1>6 DEF Used
<1>14. ASSUME u.method = "totp", NEW s \in g.steps PROVE u.last \in Nat /\ s <= u.last
  <2>1. CASE answer.kind = "step"
    BY <1>14, <2>1, <1>1, <1>2, <1>5, <1>6, <1>7, SignInAssumption DEF Used, Fresh
  <2>2. CASE answer.kind # "step"
    BY <1>14, <2>2, <1>5, <1>6 DEF Used
  <2> QED BY <2>1, <2>2
<1>15. Used(u, g)
  BY <1>12, <1>13, <1>14 DEF Used
<1> QED BY <1>4, <1>6, <1>9, <1>15 DEF u, g

-----------------------------------------------------------------------------
(* What a request does to the account, by kind.                              *)

\* One wrong answer is charged.
LEMMA SpendingKeeps ==
  ASSUME SignInInv, ~user.locked, user' = Spent(user), ghost' = [ghost EXCEPT !.guesses = @ + 1],
         otp' \in Otp, pending' \in Entries, UNCHANGED <<token, step>>
  PROVE  SignInInv'
<1>1. /\ user \in User /\ ghost \in Ghost /\ user.failed \in 0 .. MaxFailed - 1 /\ ghost.guesses \in Nat
      /\ MaxFailed \in Nat \ {0}
  BY SignInAssumption DEF SignInInv, Typed, User, Ghost
<1>2. /\ user' \in User
      /\ \A f \in {"active", "deleted", "recovery", "method", "last"} : user'[f] = user[f]
      /\ user'.failed = IF user.failed + 1 >= MaxFailed THEN 0 ELSE user.failed + 1
      /\ user'.locked = (user.failed + 1 >= MaxFailed)
  <2>1. CASE user.failed + 1 >= MaxFailed
    <3>1. user' = [user EXCEPT !.failed = 0, !.locked = TRUE]
      BY <2>1 DEF Spent
    <3>2. 0 \in 0 .. MaxFailed - 1
      BY <1>1
    <3> QED BY <1>1, <2>1, <3>1, <3>2 DEF User
  <2>2. CASE ~(user.failed + 1 >= MaxFailed)
    <3>1. user' = [user EXCEPT !.failed = user.failed + 1]
      BY <1>1, <2>2 DEF Spent
    <3>2. user.failed + 1 \in 0 .. MaxFailed - 1
      BY <1>1, <2>2
    <3> QED BY <1>1, <2>2, <3>1, <3>2 DEF User
  <2> QED BY <2>1, <2>2
<1>3. /\ ghost' \in Ghost /\ ghost'.guesses = ghost.guesses + 1
      /\ \A f \in {"steps", "burnt", "repeated", "ended"} : ghost'[f] = ghost[f]
  BY <1>1 DEF Ghost
<1>4. Typed'
  BY <1>2, <1>3 DEF SignInInv, Typed
<1>5. ghost.guesses = user.failed
  BY DEF SignInInv, Counted
<1>6. Counted(user', ghost')
  <2>1. CASE user.failed + 1 >= MaxFailed
    <3>1. user'.failed = 0 /\ ghost'.guesses = MaxFailed
      BY <1>1, <1>2, <1>3, <1>5, <2>1
    <3>2. user'.locked
      BY <1>2, <2>1, Zenon
    <3> QED BY <3>1, <3>2 DEF Counted
  <2>2. CASE ~(user.failed + 1 >= MaxFailed)
    <3>1. user'.failed = ghost'.guesses
      BY <1>2, <1>3, <1>5, <2>2
    <3>2. ~user'.locked
      BY <1>2, <2>2, Zenon
    <3> QED BY <3>1, <3>2 DEF Counted
  <2> QED BY <2>1, <2>2
<1>7. Used(user', ghost')
  BY <1>2, <1>3 DEF SignInInv, Used
<1>8. Closed(token', ghost'.ended) /\ Gone(user')
  BY <1>2, <1>3 DEF SignInInv, Closed, Gone
<1> QED BY <1>4, <1>6, <1>7, <1>8 DEF SignInInv

\* The last step of a complete sign-in: the budget is whole again and a session begins.
LEMMA CompletingKeeps ==
  ASSUME SignInInv, NEW u \in User, NEW g \in Ghost, Used(u, g), Gone(u), g.ended = ghost.ended,
         Complete(u), ghost' = [g EXCEPT !.guesses = 0], otp' \in Otp, pending' \in Entries
  PROVE  SignInInv'
<1>1. 0 \in 0 .. MaxFailed - 1
  BY SignInAssumption
<1>2. user' = [u EXCEPT !.failed = 0, !.locked = FALSE] /\ step' = step
  BY DEF Complete
<1>3. /\ user' \in User /\ user'.failed = 0 /\ user'.locked = FALSE
      /\ \A f \in {"active", "deleted", "recovery", "method", "last"} : user'[f] = u[f]
  BY <1>1, <1>2 DEF User
<1>4. /\ ghost' \in Ghost /\ ghost'.guesses = 0
      /\ \A f \in {"steps", "burnt", "repeated", "ended"} : ghost'[f] = g[f]
  BY DEF Ghost
<1> DEFINE n == Len(token)
           new == [root |-> n + 1, state |-> "live"]
<1>5. token \in Seq(Token) /\ n \in Nat
  BY LenProperties DEF SignInInv, Typed
<1>6. /\ token' = Append(token, new) /\ new \in Token
  BY <1>5 DEF Complete, Issued, Token
<1>7. /\ token' \in Seq(Token) /\ Len(token') = n + 1 /\ token'[n + 1] = new
      /\ \A i \in 1 .. n : token'[i] = token[i]
  BY <1>5, <1>6
<1>8. new.root = n + 1 /\ new.state = "live"
  OBVIOUS
<1>9. Closed(token, ghost.ended)
  BY DEF SignInInv
<1> HIDE DEF n, new
<1>10. n = Len(token)
  BY DEF n
<1>11. Closed(token', ghost.ended)
  <2>1. ghost.ended \subseteq 1 .. n /\ \A i \in 1 .. n : token[i].root \in 1 .. n
    BY <1>5, <1>9, <1>10 DEF Closed
  <2>2. ghost.ended \subseteq 1 .. n + 1 /\ n + 1 \notin ghost.ended
    BY <2>1, <1>5
  <2>3. \A i \in 1 .. n + 1 : token'[i].root \in 1 .. i
    BY <1>5, <1>7, <1>8, <1>9, <1>10 DEF Closed
  <2>4. \A i \in 1 .. n + 1 : i \in 1 .. n \/ i = n + 1
    BY <1>5
  <2>5. \A i, j \in 1 .. n + 1 : token'[i].state = "live" /\ token'[j].state = "live" /\ token'[j].root = token'[i].root => i = j
    BY <2>1, <2>4, <1>5, <1>7, <1>8, <1>9, <1>10 DEF Closed
  <2>6. \A i \in 1 .. n + 1 : token'[i].state = "live" => token'[i].root \notin ghost.ended
    BY <2>2, <2>4, <1>7, <1>8, <1>9, <1>10 DEF Closed
  <2> QED BY <2>2, <2>3, <2>5, <2>6, <1>7 DEF Closed
<1>12. Typed'
  BY <1>2, <1>3, <1>4, <1>7 DEF SignInInv, Typed
<1>13. Counted(user', ghost') /\ Used(user', ghost') /\ Gone(user')
  BY <1>3, <1>4 DEF Counted, Used, Gone
<1> QED BY <1>4, <1>11, <1>12, <1>13 DEF SignInInv

\* The account's second factor or its administration changes, and nothing of its budget
\* and its sessions.
LEMMA AccountKeeps ==
  ASSUME SignInInv, user' \in User, ghost' \in Ghost, otp' \in Otp, pending' \in Entries,
         user'.failed = user.failed, user'.locked = user.locked,
         ghost'.guesses = ghost.guesses, ghost'.ended = ghost.ended,
         Used(user', ghost'), Gone(user'), UNCHANGED <<token, step>>
  PROVE  SignInInv'
BY DEF SignInInv, Typed, Counted, Closed

\* Nothing of the account changes.
LEMMA OthersKeep ==
  ASSUME SignInInv, otp' \in Otp, pending' \in Entries, step' \in 1 .. MaxStep, UNCHANGED <<user, token, ghost>>
  PROVE  SignInInv'
BY DEF SignInInv, Typed, Counted, Used, Closed, Gone

\* Every session ends.
LEMMA EndingKeeps ==
  ASSUME SignInInv, token' = Revoked, ghost' = Ended(ghost), UNCHANGED <<user, otp, pending, step>>
  PROVE  SignInInv'
<1> DEFINE n == Len(token)
           roots == {token[i].root : i \in DOMAIN token}
<1>1. token \in Seq(Token) /\ n \in Nat /\ DOMAIN token = 1 .. n
  BY LenProperties DEF SignInInv, Typed
<1>2. \A i \in 1 .. n : token[i] \in Token
  BY <1>1, ElementOfSeq
<1>3. token' = [i \in 1 .. n |-> [token[i] EXCEPT !.state = "revoked"]]
  BY <1>1 DEF Revoked
<1>4. \A i \in 1 .. n : token'[i] \in Token /\ token'[i].state = "revoked" /\ token'[i].root = token[i].root
  BY <1>2, <1>3 DEF Token
<1>5. token' \in [1 .. n -> Token]
  BY <1>3, <1>4
<1>6. token' \in Seq(Token) /\ Len(token') = n
  BY <1>1, <1>5
<1>7. \A i \in 1 .. n : token[i].root \in 1 .. i
  BY DEF SignInInv, Closed
<1>8. roots \subseteq 1 .. n
  BY <1>1, <1>7
<1>9. ghost' = [ghost EXCEPT !.ended = @ \cup roots]
  BY DEF Ended
<1> HIDE DEF roots
<1>10. ghost \in Ghost /\ ghost.ended \subseteq 1 .. n
  BY DEF SignInInv, Typed, Closed
<1>11. /\ ghost' \in Ghost /\ ghost'.ended = ghost.ended \cup roots /\ ghost'.guesses = ghost.guesses
       /\ \A f \in {"steps", "burnt", "repeated"} : ghost'[f] = ghost[f]
  BY <1>1, <1>8, <1>9, <1>10 DEF Ghost
<1>12. Closed(token', ghost'.ended)
  BY <1>4, <1>6, <1>7, <1>8, <1>10, <1>11 DEF Closed
<1>13. Typed'
  BY <1>6, <1>11 DEF SignInInv, Typed
<1>14. Counted(user', ghost') /\ Used(user', ghost') /\ Gone(user')
  BY <1>11 DEF SignInInv, Counted, Used, Gone
<1> QED BY <1>12, <1>13, <1>14 DEF SignInInv

\* One token stops being live.
LEMMA StoppingKeeps ==
  ASSUME SignInInv, NEW i \in DOMAIN token, NEW s \in {"revoked", "expired"},
         token' = [token EXCEPT ![i].state = s], UNCHANGED <<user, otp, pending, step, ghost>>
  PROVE  SignInInv'
<1> DEFINE n == Len(token)
           new == [token[i] EXCEPT !.state = s]
<1>1. token \in Seq(Token) /\ n \in Nat /\ DOMAIN token = 1 .. n
  BY LenProperties DEF SignInInv, Typed
<1>2. token[i] \in Token
  BY <1>1, ElementOfSeq
<1>3. new \in Token /\ new.state = s /\ new.root = token[i].root
  BY <1>2 DEF Token
<1>4. token' = [token EXCEPT ![i] = new]
  OBVIOUS
<1> HIDE DEF new
<1>5. /\ token' \in Seq(Token) /\ Len(token') = n
      /\ \A j \in 1 .. n : token'[j] = IF j = i THEN new ELSE token[j]
  BY <1>1, <1>3, <1>4, ExceptSeq
<1>6. Closed(token', ghost.ended)
  BY <1>1, <1>3, <1>5 DEF SignInInv, Closed
<1>7. Typed'
  BY <1>5 DEF SignInInv, Typed
<1> QED BY <1>6, <1>7 DEF SignInInv, Counted, Used, Gone

\* A live token is exchanged for the next of its session.
LEMMA RotatingKeeps ==
  ASSUME SignInInv, NEW i \in DOMAIN token, token[i].state = "live",
         token' = [Issued(token[i].root) EXCEPT ![i].state = "revoked"],
         UNCHANGED <<user, otp, pending, step, ghost>>
  PROVE  SignInInv'
<1> DEFINE n == Len(token)
           last == [root |-> token[i].root, state |-> "live"]
           old == [token[i] EXCEPT !.state = "revoked"]
           more == Append(token, last)
<1>1. token \in Seq(Token) /\ n \in Nat /\ DOMAIN token = 1 .. n
  BY LenProperties DEF SignInInv, Typed
<1>2. token[i] \in Token
  BY <1>1, ElementOfSeq
<1>3. /\ last \in Token /\ last.root = token[i].root /\ last.state = "live"
      /\ old \in Token /\ old.root = token[i].root /\ old.state = "revoked"
  BY <1>2 DEF Token
<1>4. /\ more \in Seq(Token) /\ Len(more) = n + 1 /\ more[n + 1] = last
      /\ \A j \in 1 .. n : more[j] = token[j]
  BY <1>1, <1>3
<1>5. i \in 1 .. n + 1 /\ more[i] = token[i]
  BY <1>1, <1>4
<1>6. token' = [more EXCEPT ![i] = old]
  BY <1>5 DEF Issued
<1> HIDE DEF more, last, old
<1>7. /\ token' \in Seq(Token) /\ Len(token') = n + 1
      /\ \A j \in 1 .. n + 1 : token'[j] = IF j = i THEN old ELSE more[j]
  <2>1. more \in Seq(Token) /\ i \in 1 .. Len(more) /\ old \in Token /\ Len(more) = n + 1
    BY <1>3, <1>4, <1>5
  <2> HIDE DEF n
  <2>2. /\ [more EXCEPT ![i] = old] \in Seq(Token)
        /\ Len([more EXCEPT ![i] = old]) = Len(more)
        /\ \A j \in 1 .. Len(more) : [more EXCEPT ![i] = old][j] = IF j = i THEN old ELSE more[j]
    BY <2>1, ExceptSeq
  <2> QED BY <1>6, <2>1, <2>2
<1>8. /\ token'[n + 1] = last /\ token'[i] = old
      /\ \A j \in 1 .. n : j # i => token'[j] = token[j]
  BY <1>1, <1>4, <1>5, <1>7
<1> HIDE DEF n
<1>9. \A j \in 1 .. n + 1 : j \in 1 .. n \/ j = n + 1
  BY <1>1
<1>10. /\ ghost.ended \subseteq 1 .. n
       /\ \A j \in 1 .. n : token[j].root \in 1 .. j
       /\ \A j \in 1 .. n : token[j].state = "live" =>
            /\ token[j].root \notin ghost.ended
            /\ \A k \in 1 .. n : token[k].state = "live" /\ token[k].root = token[j].root => j = k
  BY DEF SignInInv, Closed, n
<1>11. Closed(token', ghost.ended)
  <2>1. ghost.ended \subseteq 1 .. n + 1
    BY <1>1, <1>10
  <2>2. \A j \in 1 .. n + 1 : token'[j].root \in 1 .. j
    <3>1. \A j \in 1 .. n : token'[j].root = token[j].root
      BY <1>3, <1>8
    <3>2. token'[n + 1].root = token[i].root /\ token[i].root \in 1 .. i /\ i \in 1 .. n /\ n \in Nat
      BY <1>1, <1>3, <1>8, <1>10
    <3>3. token[i].root \in 1 .. n + 1
      BY <3>2
    <3> QED BY <1>9, <1>10, <3>1, <3>2, <3>3
  <2>3. \A j \in 1 .. n : token'[j].state = "live" => j # i /\ token[j].state = "live" /\ token'[j].root = token[j].root
    BY <1>3, <1>8
  <2>4. \A j \in 1 .. n + 1 : token'[j].state = "live" => token'[j].root \notin ghost.ended
    BY <1>1, <1>3, <1>8, <1>9, <1>10, <2>3
  <2>5. \A j, k \in 1 .. n + 1 : token'[j].state = "live" /\ token'[k].state = "live" /\ token'[k].root = token'[j].root => j = k
    BY <1>1, <1>3, <1>8, <1>9, <1>10, <2>3
  <2> QED BY <1>7, <2>1, <2>2, <2>4, <2>5 DEF Closed
<1>12. Typed'
  BY <1>7 DEF SignInInv, Typed
<1> QED BY <1>11, <1>12 DEF SignInInv, Counted, Used, Gone

-----------------------------------------------------------------------------
(* One step per operation.                                                   *)

LEMMA SignInInitially == SignInInit => SignInInv
<1> SUFFICES ASSUME SignInInit PROVE SignInInv
  OBVIOUS
<1>1. user \in User /\ otp \in Otp /\ pending \in Entries /\ ghost \in Ghost /\ step \in 1 .. MaxStep
  BY SignInAssumption DEF SignInInit, User, Otp, NoCode, Entries, Ghost
<1>2. token = << >> /\ token \in Seq(Token) /\ Len(token) = 0
  BY EmptySeq DEF SignInInit
<1>3. Closed(token, ghost.ended)
  BY <1>2 DEF SignInInit, Closed
<1>4. Counted(user, ghost) /\ Used(user, ghost) /\ Gone(user)
  BY SignInAssumption DEF SignInInit, Counted, Used, Gone
<1> QED BY <1>1, <1>2, <1>3, <1>4 DEF SignInInv, Typed

\* The state as it is, for the lemmas above.
LEMMA Now ==
  ASSUME SignInInv
  PROVE  /\ user \in User /\ ghost \in Ghost /\ otp \in Otp /\ pending \in Entries
         /\ step \in 1 .. MaxStep /\ Used(user, ghost) /\ Gone(user)
BY DEF SignInInv, Typed

LEMMA LoginWithCodeKeeps ==
  ASSUME SignInInv, NEW answer \in Answers, LoginWithCode(answer)
  PROVE  SignInInv'
<1>1. otp' \in Otp /\ pending' \in Entries
  BY CheckedType, Now DEF LoginWithCode
<1>2. CASE Proves(user, answer, user.method)
  <2> DEFINE u == Consumed(user, answer)
             g == Accepted(ghost, answer, user.method)
  <2>1. /\ u \in User /\ g \in Ghost /\ Used(u, g) /\ g.ended = ghost.ended
        /\ u.active = user.active /\ u.deleted = user.deleted
    BY <1>2, AcceptedFacts DEF SignInInv
  <2>2. Complete(u) /\ ghost' = [g EXCEPT !.guesses = 0]
    BY <1>2 DEF LoginWithCode
  <2> HIDE DEF u, g
  <2>3. Gone(u)
    BY <2>1, Now DEF Gone
  <2> QED BY <1>1, <2>1, <2>2, <2>3, CompletingKeeps
<1>3. CASE ~Proves(user, answer, user.method)
  <2>1. /\ user' = Spent(user) /\ ghost' = [ghost EXCEPT !.guesses = @ + 1]
        /\ UNCHANGED <<token, step>> /\ ~user.locked
    BY <1>3 DEF LoginWithCode, CanLogin
  <2> QED BY <1>1, <2>1, SpendingKeeps
<1> QED BY <1>2, <1>3

LEMMA AnswerChallengeKeeps ==
  ASSUME SignInInv, NEW outcome \in {"accept", "reject", "challenge"}, AnswerChallenge(outcome)
  PROVE  SignInInv'
<1>1. otp' \in Otp /\ pending' \in Entries
  BY Now DEF AnswerChallenge, Entries
<1>2. CASE outcome = "accept"
  BY <1>1, <1>2, Now, CompletingKeeps DEF AnswerChallenge
<1>3. CASE outcome = "challenge"
  BY <1>1, <1>3, Now, OthersKeep DEF AnswerChallenge
<1>4. CASE outcome = "reject"
  BY <1>1, <1>4, SpendingKeeps DEF AnswerChallenge, CanLogin
<1> QED BY <1>2, <1>3, <1>4

LEMMA OidcKeeps ==
  ASSUME SignInInv, OidcStart \/ OidcExchange \/ \E vouched \in BOOLEAN : OidcCallback(vouched)
  PROVE  SignInInv'
<1>1. CASE OidcStart
  BY <1>1, Now, OthersKeep DEF OidcStart, Entries
<1>2. CASE OidcExchange
  <2>1. pending' \in Entries /\ otp' \in Otp
    BY <1>2, Now DEF OidcExchange, Entries
  <2>2. CASE user.active /\ ~user.superuser
    BY <1>2, <2>1, <2>2, Now, CompletingKeeps DEF OidcExchange
  <2>3. CASE ~(user.active /\ ~user.superuser)
    BY <1>2, <2>1, <2>3, Now, OthersKeep DEF OidcExchange
  <2> QED BY <2>2, <2>3
<1>3. ASSUME NEW vouched \in BOOLEAN, OidcCallback(vouched) PROVE SignInInv'
  <2>1. pending' \in Entries
    BY <1>3, Now DEF OidcCallback, Entries, User
  <2> QED BY <1>3, <2>1, Now, OthersKeep DEF OidcCallback
<1> QED BY <1>1, <1>2, <1>3

LEMMA LoginStep == ASSUME SignInInv, LoginNext PROVE SignInInv'
<1>1. CASE LoginWrongPassword
  BY <1>1, Now, SpendingKeeps DEF LoginWrongPassword, CanLogin
<1>2. CASE LoginChallenged
  <2>1. pending' \in Entries
    BY <1>2, Now DEF LoginChallenged, Entries
  <2> QED BY <1>2, <2>1, Now, OthersKeep DEF LoginChallenged
<1>3. CASE LoginWithPassword
  BY <1>3, Now, CompletingKeeps DEF LoginWithPassword
<1>4. ASSUME NEW transport \in BOOLEAN, LoginAsksForCode(transport) PROVE SignInInv'
  <2>1. otp' \in Otp
    BY <1>4, Now, SentType DEF LoginAsksForCode
  <2> QED BY <1>4, <2>1, Now, OthersKeep DEF LoginAsksForCode
<1> QED BY <1>1, <1>2, <1>3, <1>4, LoginWithCodeKeeps, AnswerChallengeKeeps, OidcKeeps DEF LoginNext

LEMMA SessionStep == ASSUME SignInInv, SessionNext PROVE SignInInv'
<1>1. CASE Logout \/ ChangePassword
  BY <1>1, EndingKeeps DEF Logout, ChangePassword
<1>2. ASSUME NEW i \in DOMAIN token, Refresh(i) PROVE SignInInv'
  <2>1. CASE token[i].state = "live" /\ user.active
    BY <1>2, <2>1, RotatingKeeps DEF Refresh
  <2>2. CASE ~(token[i].state = "live" /\ user.active) /\ token[i].state = "revoked"
    BY <1>2, <2>2, EndingKeeps DEF Refresh
  <2>3. CASE ~(token[i].state = "live" /\ user.active) /\ token[i].state # "revoked"
    BY <1>2, <2>3, StoppingKeeps DEF Refresh
  <2> QED BY <2>1, <2>2, <2>3
<1>3. ASSUME NEW i \in DOMAIN token, TokenExpires(i) PROVE SignInInv'
  BY <1>3, StoppingKeeps DEF TokenExpires
<1> QED BY <1>1, <1>2, <1>3 DEF SessionNext

LEMMA MfaEnrollKeeps ==
  ASSUME SignInInv, NEW method \in Methods, NEW chat \in Chats, NEW transport \in BOOLEAN,
         MfaEnroll(method, chat, transport)
  PROVE  SignInInv'
<1> DEFINE u == [user EXCEPT !.method = method,
                             !.secret = IF method = "totp" THEN "readable" ELSE Nothing,
                             !.last = Nothing, !.chat = IF method = "telegram" THEN chat ELSE @]
<1>1. /\ u \in User
      /\ \A f \in {"active", "deleted", "failed", "locked", "recovery"} : u[f] = user[f]
  BY Now DEF User
<1>2. user' = u /\ otp' = IF method = "totp" THEN otp ELSE Sent(u, method, transport)
  BY DEF MfaEnroll
<1> HIDE DEF u
<1>3. otp' \in Otp
  BY <1>1, <1>2, Now, SentType DEF Methods
<1>4. /\ ghost' \in Ghost /\ ghost'.steps = {}
      /\ \A f \in {"burnt", "repeated", "guesses", "ended"} : ghost'[f] = ghost[f]
  BY Now DEF MfaEnroll, Ghost
<1>5. Used(user', ghost') /\ Gone(user')
  BY <1>1, <1>2, <1>4, Now DEF Used, Gone
<1> QED BY <1>1, <1>2, <1>3, <1>4, <1>5, Now, AccountKeeps DEF MfaEnroll

\* New recovery codes are handed out for an answer that was accepted, or not.
LEMMA HandingOutKeeps ==
  ASSUME SignInInv, NEW answer \in Answers, MfaActivate(answer) \/ MfaRecoveryCodes(answer)
  PROVE  SignInInv'
<1>1. otp' \in Otp /\ UNCHANGED <<pending, token, step>>
  BY CheckedType, Now DEF MfaActivate, MfaRecoveryCodes
<1>2. CASE Proves(user, answer, user.method)
  <2> DEFINE u == Consumed(user, answer)
             g == Accepted(ghost, answer, user.method)
  <2>1. /\ u \in User /\ g \in Ghost /\ Used(u, g) /\ g.ended = ghost.ended /\ g.guesses = ghost.guesses
        /\ u.active = user.active /\ u.deleted = user.deleted
        /\ u.failed = user.failed /\ u.locked = user.locked
    BY <1>2, AcceptedFacts DEF SignInInv
  <2>2. /\ \/ user' = [u EXCEPT !.enabled = TRUE, !.recovery = RecoveryCodes]
           \/ user' = [u EXCEPT !.recovery = RecoveryCodes]
        /\ ghost' = [g EXCEPT !.burnt = {}]
    BY <1>2 DEF MfaActivate, MfaRecoveryCodes
  <2> HIDE DEF u, g
  <2>3. /\ user' \in User /\ user'.recovery = RecoveryCodes
        /\ \A f \in {"active", "deleted", "failed", "locked", "method", "last"} : user'[f] = u[f]
    BY <2>1, <2>2 DEF User
  <2>4. /\ ghost' \in Ghost /\ ghost'.burnt = {}
        /\ \A f \in {"steps", "repeated", "guesses", "ended"} : ghost'[f] = g[f]
    BY <2>1, <2>2 DEF Ghost
  <2>5. Used(user', ghost') /\ Gone(user')
    BY <2>1, <2>3, <2>4, Now DEF Used, Gone
  <2> QED BY <1>1, <2>1, <2>3, <2>4, <2>5, Now, AccountKeeps
<1>3. CASE ~Proves(user, answer, user.method)
  BY <1>1, <1>3, Now, OthersKeep DEF MfaActivate, MfaRecoveryCodes
<1> QED BY <1>2, <1>3

\* Without a second factor no code of it is left to be used again.
LEMMA ClearedFacts ==
  ASSUME SignInInv
  PROVE  /\ Cleared(user) \in User /\ Gone(Cleared(user))
         /\ Cleared(user).failed = user.failed /\ Cleared(user).locked = user.locked
         /\ \A g : ~g.repeated => Used(Cleared(user), g)
<1>1. /\ Cleared(user) \in User /\ Cleared(user).recovery = {} /\ Cleared(user).method = Nothing
      /\ \A f \in {"active", "deleted", "failed", "locked"} : Cleared(user)[f] = user[f]
  BY Now DEF Cleared, User
<1>2. \A g : ~g.repeated => Used(Cleared(user), g)
  BY <1>1, SignInAssumption DEF Used, Methods
<1> QED BY <1>1, <1>2, Now DEF Gone

LEMMA MfaDisableKeeps ==
  ASSUME SignInInv, NEW answer \in Answers, MfaDisable(answer)
  PROVE  SignInInv'
<1>1. otp' \in Otp /\ UNCHANGED <<pending, token, step>>
  BY CheckedType, Now DEF MfaDisable
<1>2. CASE UNCHANGED <<user, ghost>>
  BY <1>1, <1>2, Now, OthersKeep
<1>3. CASE user' = Cleared(user) /\ UNCHANGED ghost
  <2>1. ~ghost.repeated
    BY Now DEF Used
  <2> QED BY <1>1, <1>3, <2>1, Now, ClearedFacts, AccountKeeps
<1>4. CASE /\ Proves(user, answer, user.method)
           /\ user' = Cleared(user) /\ ghost' = Accepted(ghost, answer, user.method)
  <2>1. ghost' \in Ghost /\ ghost'.guesses = ghost.guesses /\ ghost'.ended = ghost.ended /\ ~ghost'.repeated
    BY <1>4, AcceptedFacts DEF SignInInv, Used
  <2> QED BY <1>1, <1>4, <2>1, Now, ClearedFacts, AccountKeeps
<1> QED BY <1>2, <1>3, <1>4 DEF MfaDisable

LEMMA MfaSetupKeeps ==
  ASSUME SignInInv, NEW method \in Delivered, NEW chat \in Chats, MfaSetup(method, chat)
  PROVE  SignInInv'
<1>1. /\ user' \in User /\ user'.method = method
      /\ \A f \in {"active", "deleted", "failed", "locked"} : user'[f] = user[f]
  BY Now DEF MfaSetup, User, Methods
<1>2. Destination(user', method) \in {Nothing, "email"} \cup Chats
  BY <1>1 DEF Destination, User
<1>3. /\ ghost' \in Ghost /\ ghost'.burnt = {}
      /\ \A f \in {"repeated", "guesses", "ended"} : ghost'[f] = ghost[f]
  BY <1>2, Now DEF MfaSetup, Ghost
<1>4. Used(user', ghost') /\ Gone(user')
  BY <1>1, <1>3, Now DEF Used, Gone, Delivered
<1> QED BY <1>1, <1>3, <1>4, Now, AccountKeeps DEF MfaSetup

LEMMA MfaStep == ASSUME SignInInv, MfaNext PROVE SignInInv'
<1>1. ASSUME NEW transport \in BOOLEAN, MfaSendCode(transport) PROVE SignInInv'
  <2>1. otp' \in Otp
    BY <1>1, Now, SentType DEF MfaSendCode
  <2> QED BY <1>1, <2>1, Now, OthersKeep DEF MfaSendCode
<1>2. CASE MfaReset
  <2>1. ~ghost.repeated
    BY Now DEF Used
  <2> QED BY <1>2, <2>1, Now, ClearedFacts, AccountKeeps DEF MfaReset
<1> QED BY <1>1, <1>2, MfaEnrollKeeps, HandingOutKeeps, MfaDisableKeeps, MfaSetupKeeps DEF MfaNext

LEMMA AccountStep == ASSUME SignInInv, AccountNext PROVE SignInInv'
<1>1. ASSUME NEW active \in BOOLEAN, UpdateUser(active) PROVE SignInInv'
  <2>1. /\ user' \in User /\ user'.deleted = FALSE
        /\ \A f \in {"failed", "locked", "recovery", "method", "last"} : user'[f] = user[f]
    BY <1>1, Now DEF UpdateUser, User
  <2>2. Used(user', ghost) /\ Gone(user')
    BY <2>1, Now DEF Used, Gone
  <2> QED BY <1>1, <2>1, <2>2, Now, AccountKeeps DEF UpdateUser
<1>2. CASE DeleteUser
  <2>1. /\ user' \in User /\ user'.active = FALSE
        /\ \A f \in {"failed", "locked", "recovery", "method", "last"} : user'[f] = user[f]
    BY <1>2, Now DEF DeleteUser, User
  <2>2. Used(user', ghost) /\ Gone(user')
    BY <2>1, Now DEF Used, Gone
  <2> QED BY <1>2, <2>1, <2>2, Now, AccountKeeps DEF DeleteUser
<1>3. CASE KeyLost
  <2>1. /\ user' \in User
        /\ \A f \in {"active", "deleted", "failed", "locked", "recovery", "method", "last"} : user'[f] = user[f]
    BY <1>3, Now DEF KeyLost, User
  <2>2. Used(user', ghost) /\ Gone(user')
    BY <2>1, Now DEF Used, Gone
  <2> QED BY <1>3, <2>1, <2>2, Now, AccountKeeps DEF KeyLost
<1>4. CASE LockEnds
  <2>1. /\ user' \in User /\ user'.locked = FALSE
        /\ \A f \in {"active", "deleted", "failed", "recovery", "method", "last"} : user'[f] = user[f]
    BY <1>4, Now DEF LockEnds, User
  <2>2. /\ ghost' \in Ghost /\ ghost'.guesses = 0
        /\ \A f \in {"steps", "burnt", "repeated", "ended"} : ghost'[f] = ghost[f]
    BY <1>4, Now DEF LockEnds, Ghost
  <2>3. user.failed = 0
    BY <1>4 DEF LockEnds, SignInInv, Counted
  <2>4. Counted(user', ghost') /\ Used(user', ghost') /\ Gone(user')
    BY <2>1, <2>2, <2>3, Now DEF Counted, Used, Gone
  <2> QED BY <1>4, <2>1, <2>2, <2>4 DEF LockEnds, SignInInv, Typed, Closed
<1>5. CASE PeriodEnds
  <2>1. step' \in 1 .. MaxStep
    BY <1>5, Now, SignInAssumption DEF PeriodEnds
  <2> QED BY <1>5, <2>1, Now, OthersKeep DEF PeriodEnds
<1>6. CASE EntryExpires
  <2>1. 0 \in 0 .. MaxSends
    BY SignInAssumption
  <2>2. otp' \in Otp
    BY <1>6, <2>1, Now, OtpFacts DEF EntryExpires, Otp
  <2>3. pending' \in Entries
    BY <1>6, Now DEF EntryExpires, Entries
  <2> QED BY <1>6, <2>2, <2>3, Now, OthersKeep DEF EntryExpires
<1> QED BY <1>1, <1>2, <1>3, <1>4, <1>5, <1>6 DEF AccountNext

LEMMA SignInStep == SignInInv /\ [SignInNext]_signInVars => SignInInv'
<1> SUFFICES ASSUME SignInInv, [SignInNext]_signInVars PROVE SignInInv'
  OBVIOUS
<1>1. CASE UNCHANGED signInVars
  BY <1>1, Now, OthersKeep DEF signInVars
<1> QED BY <1>1, LoginStep, SessionStep, MfaStep, AccountStep DEF SignInNext

-----------------------------------------------------------------------------
(* The theorems.                                                             *)

LEMMA SignInInvariance == SignInSpec => []SignInInv
BY SignInInitially, SignInStep, PTL DEF SignInSpec

\* The invariant says the type of every variable.
LEMMA SignInTyped == ASSUME SignInInv PROVE SignInTypeOK
<1>1. DOMAIN token = 1 .. Len(token)
  BY LenProperties DEF SignInInv, Typed
<1> QED BY <1>1, Now, OtpFacts DEF SignInTypeOK, SignInInv, Closed, Entries

\* Every variable and every field has its type in every reachable state.
THEOREM SignInTypeCorrect == SignInSpec => []SignInTypeOK
BY SignInInvariance, SignInTyped, PTL

\* Through whatever endpoints an account is guessed at, MaxFailed wrong answers lock it,
\* and no step of an authenticator and no recovery code works twice
\* (api/v1/auth.py _spend_attempt, security/mfa.py verify, use_recovery_code).
THEOREM SignInBounded == SignInSpec => []SignInIsBounded
<1>1. ASSUME SignInInv PROVE SignInIsBounded
  <2>1. /\ user.failed \in 0 .. MaxFailed - 1 /\ MaxFailed \in Nat \ {0} /\ user.locked \in BOOLEAN
    BY <1>1, Now, SignInAssumption DEF User
  <2>2. ghost.guesses = IF user.locked THEN MaxFailed ELSE user.failed
    BY <1>1 DEF SignInInv, Counted
  <2>3. ghost.guesses <= MaxFailed /\ (ghost.guesses = MaxFailed => user.locked)
    BY <2>1, <2>2
  <2>4. ~ghost.repeated
    BY <1>1, Now DEF Used
  <2> QED BY <2>3, <2>4 DEF SignInIsBounded, GuessesAreBounded, CodesWorkOnce
<1> QED BY SignInInvariance, <1>1, PTL

\* A step that lengthens the list of tokens completes a sign-in or exchanges a token, of
\* an account that is active, and one that is active is not deleted.
LEMMA TokensGoToTheLiving ==
  SignInInv /\ [SignInNext]_signInVars => (Len(token') > Len(token) => user.active /\ ~user.deleted)
<1> SUFFICES ASSUME SignInInv, [SignInNext]_signInVars, ~(user.active /\ ~user.deleted)
             PROVE  ~(Len(token') > Len(token))
  OBVIOUS
<1>1. ~user.active
  BY Now DEF Gone, User
<1> DEFINE n == Len(token)
<1>2. token \in Seq(Token) /\ n \in Nat /\ DOMAIN token = 1 .. n
  BY LenProperties DEF SignInInv, Typed
<1>3. \A i \in 1 .. n : token[i] \in Token
  BY <1>2, ElementOfSeq
<1>4. ASSUME token' = token PROVE ~(Len(token') > Len(token))
  BY <1>2, <1>4
<1>5. ASSUME token' = Revoked PROVE ~(Len(token') > Len(token))
  <2>1. token' = [i \in 1 .. n |-> [token[i] EXCEPT !.state = "revoked"]]
    BY <1>2, <1>5 DEF Revoked
  <2>2. \A i \in 1 .. n : token'[i] \in Token
    BY <1>3, <2>1 DEF Token
  <2>3. token' \in [1 .. n -> Token]
    BY <2>1, <2>2
  <2>4. Len(token') = n
    BY <1>2, <2>3
  <2> QED BY <1>2, <2>4
<1>6. ASSUME NEW i \in DOMAIN token, NEW s, token' = [token EXCEPT ![i].state = s], s \in {"revoked", "expired"}
      PROVE  ~(Len(token') > Len(token))
  <2>1. [token[i] EXCEPT !.state = s] \in Token
    BY <1>2, <1>3, <1>6 DEF Token
  <2>2. Len(token') = n
    BY <1>2, <1>6, <2>1, ExceptSeq
  <2> QED BY <1>2, <2>2
<1>7. CASE LoginNext
  <2>1. token' = token
    BY <1>1, <1>7 DEF LoginNext, LoginWrongPassword, LoginChallenged, LoginWithPassword, LoginAsksForCode,
       LoginWithCode, AnswerChallenge, OidcStart, OidcExchange, OidcCallback
  <2> QED BY <1>4, <2>1
<1>8. CASE SessionNext
  <2>1. CASE Logout \/ ChangePassword
    BY <1>5, <2>1 DEF Logout, ChangePassword
  <2>2. ASSUME NEW i \in DOMAIN token, Refresh(i) PROVE ~(Len(token') > Len(token))
    BY <1>1, <1>5, <1>6, <2>2 DEF Refresh
  <2>3. ASSUME NEW i \in DOMAIN token, TokenExpires(i) PROVE ~(Len(token') > Len(token))
    BY <1>6, <2>3 DEF TokenExpires
  <2> QED BY <1>8, <2>1, <2>2, <2>3 DEF SessionNext
<1>9. CASE MfaNext
  <2>1. token' = token
    BY <1>9 DEF MfaNext, MfaEnroll, MfaSendCode, MfaActivate, MfaRecoveryCodes, MfaDisable, MfaSetup, MfaReset
  <2> QED BY <1>4, <2>1
<1>10. CASE AccountNext
  <2>1. token' = token
    BY <1>10 DEF AccountNext, UpdateUser, DeleteUser, KeyLost, LockEnds, PeriodEnds, EntryExpires
  <2> QED BY <1>4, <2>1
<1>11. CASE UNCHANGED signInVars
  BY <1>4, <1>11 DEF signInVars
<1> QED BY <1>7, <1>8, <1>9, <1>10, <1>11 DEF SignInNext

\* A session has one live token at most and none once it was ended, whatever was refreshed,
\* replayed, revoked or let expire; and nothing that was begun while an account was active
\* gives it a token after it was disabled or deleted (api/v1/auth.py refresh, logout,
\* oidc_exchange, _radius_outcome).
THEOREM SessionsClosed == SignInSpec => SessionsAreClosed
<1>1. ASSUME SignInInv PROVE SessionsEnd
  <2>1. DOMAIN token = 1 .. Len(token)
    BY <1>1, LenProperties DEF SignInInv, Typed
  <2> QED BY <1>1, <2>1 DEF SignInInv, Closed, SessionsEnd
<1>2. SignInInv /\ [SignInNext]_signInVars => [Len(token') > Len(token) => user.active /\ ~user.deleted]_signInVars
  BY TokensGoToTheLiving
<1> QED BY SignInInvariance, <1>1, <1>2, PTL DEF SignInSpec, SessionsAreClosed, GoneGetsNothing

(***************************************************************************)
(* Roles and what is listed.                                               *)
(***************************************************************************)
\* The inductive invariant.
GrantsInv == GrantsTypeOK /\ RolesAreAccounted

-----------------------------------------------------------------------------
(* What the operations make of the rows.                                     *)

\* What an administrator grants are manual rows of the roles named.
LEMMA AssignedRows ==
  ASSUME NEW roles \in SUBSET Roles, NEW teams \in SUBSET Teams
  PROVE  /\ AssignRoles(roles, teams) \subseteq UserRole
         /\ \A g \in AssignRoles(roles, teams) : g.origin = "manual"
         /\ RolesOf(AssignRoles(roles, teams)) \subseteq roles
BY DEF AssignRoles, UserRole, RolesOf

\* A synchronisation leaves the manual rows alone, and the others are of roles it
\* was told and for the estate.
LEMMA SynchronisedRows ==
  ASSUME GrantsTypeOK, RolesAreAccounted, NEW wanted \in SUBSET Roles
  PROVE  /\ SyncDirectoryRoles(wanted) \subseteq UserRole
         /\ \A g \in SyncDirectoryRoles(wanted) :
              IF g.origin = "directory" THEN g.role \in wanted /\ g.team = Estate
              ELSE g \in Manual
<1>1. \A g \in [role : wanted \ RolesOf(grant), team : {Estate}, origin : {"directory"}] :
        g \in UserRole /\ g.origin = "directory" /\ g.role \in wanted /\ g.team = Estate
  BY DEF UserRole
<1>2. Manual \subseteq UserRole /\ FromDirectory \subseteq UserRole
  BY DEF Manual, FromDirectory, GrantsTypeOK
<1>3. \A g \in FromDirectory : g.origin = "directory" /\ g.team = Estate
  BY DEF FromDirectory, RolesAreAccounted
<1>4. \A g \in Manual : g.origin # "directory"
  BY DEF Manual, FromDirectory
<1> QED BY <1>1, <1>2, <1>3, <1>4 DEF SyncDirectoryRoles

\* The invariant, row by row.
LEMMA RowByRow ==
  RolesAreAccounted <=>
    \A g \in grant : IF g.origin = "directory" THEN g.role \in justified /\ g.team = Estate
                     ELSE g.role \in byHand
BY DEF RolesAreAccounted, RolesOf, Manual, FromDirectory

\* ... and in the state after a step.
LEMMA RowByRowNext ==
  RolesAreAccounted' <=>
    \A g \in grant' : IF g.origin = "directory" THEN g.role \in justified' /\ g.team = Estate
                      ELSE g.role \in byHand'
BY DEF RolesAreAccounted, RolesOf, Manual, FromDirectory

-----------------------------------------------------------------------------
(* The steps.                                                                *)

\* A synchronisation that is told `wanted`, whoever vouched for the person.
LEMMA SynchronisationKeeps ==
  ASSUME GrantsInv, NEW wanted \in SUBSET Roles,
         grant' = SyncDirectoryRoles(wanted), justified' = wanted, exists' \in BOOLEAN,
         UNCHANGED <<byHand, estateVars>>
  PROVE  GrantsInv'
<1>1. \A g \in grant' : g \in UserRole
        /\ IF g.origin = "directory" THEN g.role \in wanted /\ g.team = Estate ELSE g \in Manual
  BY SynchronisedRows DEF GrantsInv
<1>2. \A g \in Manual : g.role \in byHand
  BY DEF GrantsInv, RolesAreAccounted, RolesOf
<1>3. GrantsTypeOK'
  BY <1>1 DEF GrantsInv, GrantsTypeOK, estateVars
<1>4. RolesAreAccounted'
  BY <1>1, <1>2, RowByRowNext
<1> QED BY <1>3, <1>4 DEF GrantsInv

\* A person grants `roles`, and what the directory brought stays or goes.
LEMMA GrantingKeeps ==
  ASSUME GrantsInv, NEW roles \in SUBSET Roles, NEW teams \in SUBSET Teams,
         NEW kept \in SUBSET FromDirectory,
         grant' = kept \cup AssignRoles(roles, teams), byHand' = roles, exists' \in BOOLEAN,
         UNCHANGED <<justified, estateVars>>
  PROVE  GrantsInv'
<1>1. \A g \in AssignRoles(roles, teams) : g \in UserRole /\ g.origin = "manual" /\ g.role \in roles
  BY AssignedRows DEF RolesOf
<1>2. \A g \in kept : g \in UserRole /\ g.origin = "directory" /\ g.role \in justified /\ g.team = Estate
  BY DEF GrantsInv, GrantsTypeOK, RolesAreAccounted, FromDirectory, RolesOf
<1>3. GrantsTypeOK'
  BY <1>1, <1>2 DEF GrantsInv, GrantsTypeOK, estateVars
<1>4. RolesAreAccounted'
  BY <1>1, <1>2, RowByRowNext
<1> QED BY <1>3, <1>4 DEF GrantsInv

LEMMA GrantsInitially == GrantsInit => GrantsInv
BY DEF GrantsInit, GrantsInv, GrantsTypeOK, RolesAreAccounted, RolesOf, Manual, FromDirectory

LEMMA GrantsStep == GrantsInv /\ [GrantsNext]_grantVars => GrantsInv'
<1> SUFFICES ASSUME GrantsInv, [GrantsNext]_grantVars PROVE GrantsInv'
  OBVIOUS
<1>1. ASSUME NEW x \in Owned, NEW t \in Teams \cup {Nobody}, Assign(x, t) PROVE GrantsInv'
  <2>1. GrantsTypeOK'
    BY <1>1 DEF GrantsInv, GrantsTypeOK, Assign
  <2>2. RolesAreAccounted'
    BY <1>1, RowByRow, RowByRowNext DEF GrantsInv, Assign
  <2> QED BY <2>1, <2>2 DEF GrantsInv
<1>2. ASSUME NEW roles \in SUBSET Roles, NEW caller \in SUBSET Roles, NEW teams \in SUBSET Teams,
             CreateUser(roles, teams, caller)
      PROVE  GrantsInv'
  <2>1. /\ grant' = {} \cup AssignRoles(roles, teams) /\ byHand' = roles /\ exists' \in BOOLEAN
        /\ UNCHANGED <<justified, estateVars>>
    BY <1>2 DEF CreateUser
  <2>2. {} \in SUBSET FromDirectory
    OBVIOUS
  <2> QED BY <2>1, <2>2, GrantingKeeps
<1>3. ASSUME NEW mapped \in SUBSET Roles,
             \/ ProvisionFromDirectory(mapped) \/ ApplyIdentity(mapped) \/ ApplyAttributes(mapped)
      PROVE  GrantsInv'
  <2>1. RolesFor(mapped) \in SUBSET Roles
    BY GrantsAssumption DEF RolesFor
  <2>2. PICK wanted \in SUBSET Roles : grant' = SyncDirectoryRoles(wanted) /\ justified' = wanted
    BY <1>3, <2>1 DEF ProvisionFromDirectory, ApplyIdentity, ApplyAttributes
  <2>3. exists' \in BOOLEAN /\ UNCHANGED <<byHand, estateVars>>
    BY <1>3 DEF ProvisionFromDirectory, ApplyIdentity, ApplyAttributes, GrantsInv, GrantsTypeOK
  <2> QED BY <2>2, <2>3, SynchronisationKeeps
<1>4. ASSUME NEW roles \in SUBSET Roles, NEW caller \in SUBSET Roles, UpdateUserRoles(roles, caller)
      PROVE  GrantsInv'
  <2>1. exists' \in BOOLEAN
    BY <1>4 DEF UpdateUserRoles, GrantsInv, GrantsTypeOK
  <2> QED BY <1>4, <2>1, GrantingKeeps DEF UpdateUserRoles
<1>5. ASSUME NEW teams \in SUBSET Teams, SetUserScope(teams) PROVE GrantsInv'
  <2>1. RolesOf(grant) \in SUBSET Roles
    BY DEF GrantsInv, GrantsTypeOK, RolesOf, UserRole
  <2>2. /\ grant' = {} \cup AssignRoles(RolesOf(grant), teams) /\ byHand' = RolesOf(grant)
        /\ UNCHANGED <<justified, estateVars>>
    BY <1>5 DEF SetUserScope
  <2>3. exists' \in BOOLEAN /\ {} \in SUBSET FromDirectory
    BY <1>5 DEF SetUserScope, GrantsInv, GrantsTypeOK
  <2> QED BY <2>1, <2>2, <2>3, GrantingKeeps
<1>6. CASE UNCHANGED grantVars
  <2>1. GrantsTypeOK'
    BY <1>6 DEF GrantsInv, GrantsTypeOK, grantVars, estateVars
  <2>2. RolesAreAccounted'
    BY <1>6, RowByRow, RowByRowNext DEF GrantsInv, grantVars
  <2> QED BY <2>1, <2>2 DEF GrantsInv
<1> QED BY <1>1, <1>2, <1>3, <1>4, <1>5, <1>6 DEF GrantsNext

-----------------------------------------------------------------------------
(* What the roles show.                                                      *)

\* The list's condition on the owning team of an asset is the one the row itself is
\* served by: the fallback of a list, coalesce(finding's team, asset's team), and the
\* cascade of the single row decide alike, for every owner and every scope.
LEMMA ListsAgree ==
  ASSUME GrantsTypeOK
  PROVE  ListsShowWhatIsServed
<1>1. Scope.restricted <=> Estate \notin Scope.teams
  BY DEF Scope
<1>2. Scope.unowned => Scope.teams # {}
  BY DEF Scope
<1>3. Scope.restricted \in BOOLEAN /\ Scope.unowned \in BOOLEAN
  BY DEF Scope, GrantsTypeOK
<1> DEFINE s == Scope
<1>4. \A owner : Members(owner, s) <=>
        ~s.restricted \/ IF owner = Nobody THEN s.unowned ELSE owner \in s.teams
  BY <1>1, <1>2, <1>3 DEF Members, Nobody
<1>5. Members(team["asset"], s) <=> AssetVisible(s)
  BY <1>4 DEF AssetVisible
<1>6. Members(OwningTeam, s) <=> FindingVisible(s)
  BY <1>4 DEF OwningTeam, Coalesce, FindingVisible, AssetVisible
<1>7. Members(OwningTeamForTicket, s) <=> TicketVisible(s)
  BY <1>4 DEF OwningTeamForTicket, OwningTeam, Coalesce, TicketVisible, FindingVisible, AssetVisible
<1>8. /\ Members(team["asset"], s) \in BOOLEAN /\ AssetVisible(s) \in BOOLEAN
      /\ Members(OwningTeam, s) \in BOOLEAN /\ FindingVisible(s) \in BOOLEAN
      /\ Members(OwningTeamForTicket, s) \in BOOLEAN /\ TicketVisible(s) \in BOOLEAN
  BY <1>3 DEF Members, AssetVisible, FindingVisible, TicketVisible
<1> QED BY <1>5, <1>6, <1>7, <1>8 DEF ListsShowWhatIsServed, Owned, Listed, Visible

-----------------------------------------------------------------------------
(* The theorems.                                                             *)

LEMMA GrantsInvariance == GrantsSpec => []GrantsInv
BY GrantsInitially, GrantsStep, PTL DEF GrantsSpec

\* Every variable has its type in every reachable state.
THEOREM GrantsTypeCorrect == GrantsSpec => []GrantsTypeOK
<1>1. GrantsInv => GrantsTypeOK
  BY DEF GrantsInv
<1> QED BY GrantsInvariance, <1>1, PTL

\* However grants by hand, changes of scope and sign-ins through a directory, a RADIUS
\* server or an identity provider follow one another, every role held is one a person
\* gave and nobody took back or the last synchronisation justified, and a list shows
\* exactly the assets, findings and tickets that are served one by one
\* (api/v1/auth.py _sync_directory_roles, api/v1/admin.py, security/scope.py).
THEOREM GrantsServed == GrantsSpec => []GrantsAreServed
<1>1. GrantsInv => GrantsAreServed
  BY ListsAgree DEF GrantsInv, GrantsAreServed
<1> QED BY GrantsInvariance, <1>1, PTL

-----------------------------------------------------------------------------
(***************************************************************************)
(* Accounts and roles side by side.                                        *)
(***************************************************************************)

\* What happens to an account is a step of SignIn, what happens to a role one of Grants.
LEMMA OneSideMoves ==
  ASSUME [MCNext]_mcVars
  PROVE  [SignInNext]_signInVars /\ [GrantsNext]_grantVars
<1>1. ASSUME Codes PROVE SignInNext
  BY <1>1 DEF Codes, SignInNext, LoginNext, SessionNext, MfaNext, AccountNext
<1>2. ASSUME Doors PROVE SignInNext
  <2>1. ASSUME NEW chat \in Chats, MfaSetup("telegram", chat) PROVE MfaNext
    BY <2>1 DEF MfaNext, Delivered
  <2>2. LoginNext \/ SessionNext \/ MfaNext \/ AccountNext
    BY <1>2, <2>1 DEF Doors, MfaNext, AccountNext
  <2> QED BY <2>2 DEF SignInNext
<1>3. CASE MCNext
  BY <1>1, <1>2, <1>3 DEF MCNext, Codes, Doors, Sight
<1>4. CASE UNCHANGED mcVars
  BY <1>4 DEF mcVars
<1> QED BY <1>3, <1>4

\* An account and the roles of a person keep their types in every instance, whatever
\* happens around the account (security/auth, services/rbac).
THEOREM AccessTypeCorrect == MCSpec => []AccessTypeOK
<1>1. MCInit => SignInInv /\ GrantsInv
  BY SignInInitially, GrantsInitially DEF MCInit
<1>2. ASSUME SignInInv, GrantsInv, [MCNext]_mcVars
      PROVE  SignInInv' /\ GrantsInv'
  BY <1>2, OneSideMoves, SignInStep, GrantsStep
<1>3. SignInInv /\ GrantsInv => AccessTypeOK
  BY SignInTyped DEF AccessTypeOK, GrantsInv
<1> QED BY <1>1, <1>2, <1>3, PTL DEF MCSpec
=============================================================================
