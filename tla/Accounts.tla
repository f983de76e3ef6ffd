------------------------------ MODULE Accounts ------------------------------
(***************************************************************************)
(* One e-mail address: registration, password and reset tokens.            *)
(*                                                                         *)
(* A reset request is an UPDATE of the tokens it can see and an INSERT; a  *)
(* reset locks its token and then updates the others.  Both wait for rows  *)
(* that another handler has locked.  A circle of waiting handlers is       *)
(* broken by PostgreSQL, which is the refusal GiveUpAccount.               *)
(***************************************************************************)
CONSTANTS Tokens,          \* rows of password_reset_tokens
          AccountRequests, \* handlers under way
          Nobody           \* the password of an address without an account

\* A password is known by what has set it.
ASSUME PasswordsDiffer == Tokens \cap {"registration", "change"} = {}

VARIABLES account,  \* the users row: who set its password, and whether it is verified
          token,    \* password_reset_tokens
          handler   \* handlers: their step and what they have read
accountVars == <<account, token, handler>>

NoToken == [st |-> "absent", lapsed |-> FALSE, rivals |-> {}]
Resting == [step |-> "resting"]

UnusedTokens == {t \in Tokens : token[t].st = "unused"}
Requesting == {q \in AccountRequests : handler[q].step = "insert"}
Inserting == {handler[q].token : q \in Requesting}
\* Tokens locked by a reset between its check and its commit.
Locked(q) == {handler[r].token : r \in {s \in AccountRequests \ {q} :
                                          handler[s].step \in {"revoke", "commit"}}}

Turn(q, state) == handler' = [handler EXCEPT ![q] = state]

-----------------------------------------------------------------------------
(***************************************************************************)
(* The account                                                             *)
(***************************************************************************)
RegisterLook(q) ==
  /\ handler[q] = Resting
  /\ account.pw = Nobody
  /\ Turn(q, [step |-> "register"])
  /\ UNCHANGED <<account, token>>

\* The address is unique: a second registration that has looked is refused.
RegisterCommit(q) ==
  /\ handler[q].step = "register"
  /\ account' = [account EXCEPT !.pw = IF @ = Nobody THEN "registration" ELSE @]
  /\ Turn(q, Resting)
  /\ UNCHANGED token

\* The current password is compared with the row read at the start.
ChangeLook(q) ==
  /\ handler[q] = Resting
  /\ account.pw # Nobody
  /\ Turn(q, [step |-> "change"])
  /\ UNCHANGED <<account, token>>

ChangeCommit(q) ==
  /\ handler[q].step = "change"
  /\ account' = [account EXCEPT !.pw = "change"]
  /\ Turn(q, Resting)
  /\ UNCHANGED token

\* The signed token of the e-mail names the user; a repetition is accepted.
VerifyEmail ==
  /\ account.pw # Nobody
  /\ account' = [account EXCEPT !.verified = TRUE]
  /\ UNCHANGED <<token, handler>>

-----------------------------------------------------------------------------
(***************************************************************************)
(* A reset request                                                         *)
(***************************************************************************)
\* The UPDATE finds the unused tokens of its snapshot.
ForgotUpdate(q) ==
  /\ handler[q] = Resting
  /\ account.pw # Nobody
  /\ \E t \in Tokens \ Inserting :
       /\ token[t].st = "absent"
       /\ Turn(q, [step |-> "insert", token |-> t, old |-> UnusedTokens, rivals |-> Inserting])
  /\ UNCHANGED <<account, token>>

Revoke(t, tokens, old) == IF t \in old /\ tokens[t].st = "unused" THEN "used" ELSE tokens[t].st

\* A slip: earlier tokens are left as they are.
RevokeNothing(tokens, old, self, row) == [tokens EXCEPT ![self] = row]

AfterForgot(tokens, old, self, row) ==
  [t \in Tokens |-> IF t = self THEN row ELSE [tokens[t] EXCEPT !.st = Revoke(t, tokens, old)]]

ForgotCommit(q) ==
  /\ handler[q].step = "insert"
  /\ handler[q].old \cap Locked(q) = {}
  /\ token' = AfterForgot(token, handler[q].old, handler[q].token,
                          [st |-> "unused", lapsed |-> FALSE, rivals |-> handler[q].rivals])
  /\ Turn(q, Resting)
  /\ UNCHANGED account

TokenLapses(t) ==
  /\ token[t].st = "unused" /\ ~token[t].lapsed
  /\ token' = [token EXCEPT ![t].lapsed = TRUE]
  /\ UNCHANGED <<account, handler>>

-----------------------------------------------------------------------------
(***************************************************************************)
(* A reset                                                                 *)
(***************************************************************************)
\* The handler takes the time before it waits for the token.
ResetBegin(q, t) ==
  /\ handler[q] = Resting
  /\ token[t].st # "absent"
  /\ Turn(q, [step |-> "lock", token |-> t, late |-> token[t].lapsed])
  /\ UNCHANGED <<account, token>>

\* A slip: the token is read without FOR UPDATE.
LockFreely(q) == TRUE

LockToken(q) == handler[q].token \notin Locked(q)

ResetLock(q) ==
  /\ handler[q].step = "lock"
  /\ LockToken(q)
  /\ token[handler[q].token].st = "unused"
  /\ ~handler[q].late
  /\ Turn(q, [step |-> "revoke", token |-> handler[q].token])
  /\ UNCHANGED <<account, token>>

ResetUpdate(q) ==
  /\ handler[q].step = "revoke"
  /\ Turn(q, [step |-> "commit", token |-> handler[q].token, old |-> UnusedTokens])
  /\ UNCHANGED <<account, token>>

ResetCommit(q) ==
  /\ handler[q].step = "commit"
  /\ handler[q].old \cap Locked(q) \subseteq {handler[q].token}
  /\ account' = [account EXCEPT !.pw = handler[q].token]
  /\ token' = [t \in Tokens |-> [token[t] EXCEPT !.st = Revoke(t, token, handler[q].old)]]
  /\ Turn(q, Resting)

\* Refused, rolled back or lost.
GiveUpAccount(q) ==
  /\ handler[q] # Resting
  /\ Turn(q, Resting)
  /\ UNCHANGED <<account, token>>

-----------------------------------------------------------------------------
AccountInit ==
  /\ account = [pw |-> Nobody, verified |-> FALSE]
  /\ token = [t \in Tokens |-> NoToken]
  /\ handler = [q \in AccountRequests |-> Resting]

AccountNext ==
  \/ \E q \in AccountRequests :
       \/ RegisterLook(q) \/ RegisterCommit(q) \/ ChangeLook(q) \/ ChangeCommit(q)
       \/ ForgotUpdate(q) \/ ForgotCommit(q)
       \/ ResetLock(q) \/ ResetUpdate(q) \/ ResetCommit(q) \/ GiveUpAccount(q)
       \/ \E t \in Tokens : ResetBegin(q, t)
  \/ \E t \in Tokens : TokenLapses(t)
  \/ VerifyEmail

AccountSpec == AccountInit /\ [][AccountNext]_accountVars

-----------------------------------------------------------------------------
(***************************************************************************)
(* Claims                                                                  *)
(***************************************************************************)
\* A token sets a password only while nothing has used or revoked it, up to the
\* moment of the commit, and never again; a registration sets only the first one.
ResetNeedsUnusedToken ==
  [][account'.pw # account.pw =>
       /\ account'.pw = "registration" => account.pw = Nobody
       /\ account'.pw \in Tokens => /\ token[account'.pw].st = "unused"
                                    /\ token'[account'.pw].st = "used"]_accountVars

\* A new request cancels every token that is not used: two are usable only when
\* the request for one was under way while the other was being answered.
TokensOverlap ==
  \A t, u \in UnusedTokens : t = u \/ t \in token[u].rivals \/ u \in token[t].rivals
=============================================================================
