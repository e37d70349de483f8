------------------------------ MODULE Accounts ------------------------------
(***************************************************************************)
(* Accounts (auth_kit): sign-up, login and its lockout, refresh tokens and *)
(* their rotation, social and guest accounts, password reset, withdrawal   *)
(* with a grace period, sanctions and the daily purge.  auth_kit/service.py *)
(* and the handlers of auth_kit/router.py that add to it.                  *)
(*                                                                         *)
(* A worker is a slot for a request in flight.  A request reads one        *)
(* snapshot in its first step and commits in its second.  The ORM writes   *)
(* the columns of a row the request changed, as absolute values, over what *)
(* was committed in between; an UPDATE that finds no row, a broken unique  *)
(* key and a broken foreign key end the request without effect.            *)
(*                                                                         *)
(* mix is drawn once, in Init: which operations are called, one at a time  *)
(* or overlapping, under which settings.                                   *)
(***************************************************************************)
EXTENDS Verification, FiniteSets

CONSTANTS MaxAccounts, MaxTokens, MaxTime,   \* bounds
          Uids,                \* the identities social providers vouch for
          UidEmail,            \* the e-mail a provider gives with one, or None
          Nonces,              \* nonces of social logins
          NONCE_TTL,           \* age at which a used nonce is deleted
          REFRESH_TOKEN_TTL,
          WITHDRAWAL_GRACE,
          Workers,             \* requests that can be in flight at a time
          Mixes                \* the traffic and the settings to look at

Ids == 1..MaxAccounts

Jtis == 1..MaxTokens

Operations ==
    {"signup", "login", "rotate", "logout", "reset", "withdraw", "cancel",
     "sanction", "suspend", "purge", "expire", "guest", "social", "complete",
     "link", "request_code", "verify_code", "request_link", "verify_link"}

Mix == [ops : SUBSET Operations, serial : BOOLEAN,
        require_phone : BOOLEAN, require_email : BOOLEAN]

ASSUME AccountsAssumption ==
    /\ MaxAccounts \in Nat /\ MaxTokens \in Nat /\ MaxTime \in Nat
    /\ None \notin Uids \cup Nonces
    /\ UidEmail \in [Uids -> Emails \cup {None}]
    /\ NONCE_TTL \in Nat /\ REFRESH_TOKEN_TTL \in Nat
    /\ WITHDRAWAL_GRACE \in Nat \ {0}
    /\ Mixes \subseteq Mix

VARIABLES now,      \* the clock, from 1
          users,    \* users
          tokens,   \* refresh_tokens
          social,   \* social_accounts: the account an identity is linked to, or 0
          sealed,   \* sanctioned_identities: phones that may not sign up again
          nonces,   \* oauth_nonces: when a nonce was used, or Never
          mix, pc, req

dbVars == <<users, tokens, social, sealed, nonces, codes, links>>

vars == <<now, dbVars, mix, pc, req>>

(* deactivated_at is set exactly when purge_at is.  A deleted row keeps    *)
(* its columns here, so that properties can speak of it.                   *)
User == [state : {"none", "present", "deleted"},
         email : Emails \cup {None}, phone : Phones \cup {None},
         has_password : BOOLEAN,
         is_active : BOOLEAN, is_sanctioned : BOOLEAN, purge_at : Nat,
         failed_login_attempts : Nat, locked_until : Nat]

NoUser == [state |-> "none", email |-> None, phone |-> None, has_password |-> FALSE,
           is_active |-> TRUE, is_sanctioned |-> FALSE, purge_at |-> Never,
           failed_login_attempts |-> 0, locked_until |-> Never]

(* login is not a column: the token of the login a token descends from.    *)
RefreshToken == [status : {"none", "live", "revoked", "deleted"},
                 user_id : Ids \cup {0}, login : Jtis \cup {0}, expires_at : Nat]

NoToken == [status |-> "none", user_id |-> 0, login |-> 0, expires_at |-> Never]

(* What a request knows: its account, the row it read and the row it wants *)
(* to leave, the token to rotate, the identity, nonce, phone, e-mail, code *)
(* or link it is about, the accounts of a purge and those of them to seal. *)
Request == [op : Operations \cup {"none", "fail", "reuse"},
            id : Ids \cup {0}, read : User, write : User,
            jti : Jtis \cup {0}, uid : Uids \cup {None}, nonce : Nonces \cup {None},
            code : CodeIds \cup {0}, attempts : Nat, right : BOOLEAN,
            link : LinkIds \cup {0}, batch : SUBSET Ids, seals : SUBSET Ids]

NoRequest == [op |-> "none", id |-> 0, read |-> NoUser, write |-> NoUser, jti |-> 0,
              uid |-> None, nonce |-> None, code |-> 0, attempts |-> 0,
              right |-> FALSE, link |-> 0, batch |-> {}, seals |-> {}]

Present(id) == users[id].state = "present"

(* get_user_by_access_token: the account may call the service.             *)
Admitted(id) ==
    Present(id) /\ users[id].is_active /\ users[id].purge_at = Never

is_email_taken(e) == \E id \in Ids : Present(id) /\ users[id].email = e

is_phone_taken(p) == \E id \in Ids : Present(id) /\ users[id].phone = p

(* Slip: the phone is not compared. *)
assert_unique_slip(e, p) == e # None => ~is_email_taken(e)

assert_unique(e, p) == (e # None => ~is_email_taken(e)) /\ ~is_phone_taken(p)

_assert_not_sanctioned(p) == p \notin sealed

(* decode: a refresh token that was issued and has not run out.            *)
decode(j) == tokens[j].status # "none" /\ tokens[j].expires_at > now

FreeJtis == {j \in Jtis : tokens[j].status = "none"}

FreeIds == {id \in Ids : users[id].state = "none"}

IsLeast(x, S) == x \in S /\ \A y \in S : x <= y

-----------------------------------------------------------------------------
(* Requests.                                                               *)

Creating == {"signup", "guest", "complete"}

Issuing == Creating \cup {"login", "cancel", "social", "rotate"}

InFlight(ops) == Cardinality({w \in Workers : req[w].op \in ops})

(* Bounds: there is an id for every row the requests in flight may insert. *)
Room(op) ==
    /\ op \in Issuing => InFlight(Issuing) < Cardinality(FreeJtis)
    /\ op \in Creating => InFlight(Creating) < Cardinality(FreeIds)
    /\ op = "request_code" => InFlight({op}) < Cardinality(UnusedCodes)
    /\ op = "request_link" => InFlight({op}) < Cardinality(UnusedLinks)

Ready(w) == pc[w] = "idle" /\ (mix.serial => \A v \in Workers : pc[v] = "idle")

(* The request op becomes r; for a refused login it is "fail", for a       *)
(* revoked token that comes back "reuse".                                  *)
Start(w, op, r) ==
    /\ op \in mix.ops
    /\ Ready(w)
    /\ Room(op)
    /\ pc' = [pc EXCEPT ![w] = "commit"]
    /\ req' = [req EXCEPT ![w] = r]
    /\ UNCHANGED <<now, dbVars, mix>>

About(op, id, new) ==
    [NoRequest EXCEPT !.op = op, !.id = id, !.read = users[id], !.write = new]

Finish(w) == /\ pc' = [pc EXCEPT ![w] = "idle"]
             /\ req' = [req EXCEPT ![w] = NoRequest]
             /\ UNCHANGED <<now, mix>>

(* The columns the request changed are written, the others stay.           *)
Updated(cur, read, new) ==
    [cur EXCEPT
        !.is_active = IF new.is_active # read.is_active THEN new.is_active ELSE @,
        !.is_sanctioned =
            IF new.is_sanctioned # read.is_sanctioned THEN new.is_sanctioned ELSE @,
        !.purge_at = IF new.purge_at # read.purge_at THEN new.purge_at ELSE @,
        !.failed_login_attempts =
            IF new.failed_login_attempts # read.failed_login_attempts
            THEN new.failed_login_attempts ELSE @,
        !.locked_until =
            IF new.locked_until # read.locked_until THEN new.locked_until ELSE @]

-----------------------------------------------------------------------------
(* Signing up.                                                             *)

Joins(email, phone) ==
    /\ mix.require_phone => is_phone_verified(phone)
    /\ assert_unique(email, phone)
    /\ _assert_not_sanctioned(phone)

Created(email, phone, password) ==
    [NoUser EXCEPT !.state = "present", !.email = email, !.phone = phone,
                   !.has_password = password]

signup(w, e, p) ==
    /\ mix.require_email => is_email_verified(e)
    /\ Joins(e, p)
    /\ Start(w, "signup",
             [NoRequest EXCEPT !.op = "signup", !.write = Created(e, p, TRUE)])

(* The identity comes from a sign-up token social_login has handed out.    *)
complete_social_signup(w, u, p) ==
    /\ Joins(UidEmail[u], p)
    /\ Start(w, "complete",
             [NoRequest EXCEPT !.op = "complete", !.uid = u,
                               !.write = Created(UidEmail[u], p, FALSE)])

guest_login(w) ==
    Start(w, "guest",
          [NoRequest EXCEPT !.op = "guest", !.write = Created(None, None, FALSE)])

-----------------------------------------------------------------------------
(* Logging in.                                                             *)

LoginOpen(id) ==
    users[id].purge_at = Never /\ ~is_locked(users[id].locked_until, now)

WithLockout(row, state) ==
    [row EXCEPT !.failed_login_attempts = state.failed_attempts,
                !.locked_until = state.locked_until]

(* authenticate with a wrong password, or on an account that has none.     *)
login_failed(w, id) ==
    LET row == users[id]
    IN  /\ Present(id) /\ row.email # None
        /\ LoginOpen(id)
        /\ Start(w, "login",
                 About("fail", id,
                       WithLockout(row, on_failure(row.failed_login_attempts,
                                                   row.locked_until, now))))

login(w, id) ==
    /\ Present(id) /\ users[id].email # None /\ users[id].has_password
    /\ LoginOpen(id)
    /\ users[id].is_active
    /\ Start(w, "login", About("login", id, WithLockout(users[id], on_success)))

(* social_login of the router: the nonce is spent with the login; without  *)
(* a linked account both are rolled back.                                  *)
social_login(w, u, n) ==
    LET id == social[u]
    IN  /\ nonces[n] = Never
        /\ id # 0
        /\ Admitted(id)
        /\ Start(w, "social",
                 [About("social", id, users[id]) EXCEPT !.uid = u, !.nonce = n])

link_social_account(w, id, u) ==
    /\ Admitted(id)
    /\ Start(w, "link", [About("link", id, users[id]) EXCEPT !.uid = u])

rotate_refresh_token(w, j) ==
    LET id == tokens[j].user_id
    IN  /\ decode(j)
        /\ \/ /\ tokens[j].status = "revoked"
              /\ Start(w, "rotate", [About("reuse", id, users[id]) EXCEPT !.jti = j])
           \/ /\ tokens[j].status = "live"
              /\ Admitted(id)
              /\ Start(w, "rotate", [About("rotate", id, users[id]) EXCEPT !.jti = j])

(* One statement: revoke the token if it is live.                          *)
logout(w, j) ==
    /\ "logout" \in mix.ops
    /\ Ready(w)
    /\ decode(j)
    /\ tokens[j].status = "live"
    /\ tokens' = [tokens EXCEPT ![j].status = "revoked"]
    /\ UNCHANGED <<now, users, social, sealed, nonces, codes, links, mix, pc, req>>

-----------------------------------------------------------------------------
(* Reset, withdrawal, sanctions.                                           *)

reset_password(w, id) ==
    /\ Present(id) /\ users[id].has_password
    /\ Start(w, "reset", About("reset", id, WithLockout(users[id], on_success)))

(* Slip: an account that is not active may withdraw as well. *)
withdraw_slip(w, id) ==
    /\ Present(id) /\ users[id].purge_at = Never
    /\ now + WITHDRAWAL_GRACE <= MaxTime
    /\ Start(w, "withdraw",
             About("withdraw", id,
                   [users[id] EXCEPT !.purge_at = now + WITHDRAWAL_GRACE,
                                     !.is_active = FALSE]))

(* Bound: the purge falls within the clock's range.                        *)
withdraw(w, id) ==
    /\ Admitted(id)
    /\ now + WITHDRAWAL_GRACE <= MaxTime
    /\ Start(w, "withdraw",
             About("withdraw", id,
                   [users[id] EXCEPT !.purge_at = now + WITHDRAWAL_GRACE,
                                     !.is_active = FALSE]))

cancel_withdrawal(w, id) ==
    /\ Present(id) /\ users[id].email # None /\ users[id].has_password
    /\ users[id].purge_at # Never
    /\ Start(w, "cancel",
             About("cancel", id,
                   [users[id] EXCEPT !.purge_at = Never, !.is_active = TRUE]))

record_sanction(w, id) ==
    /\ Present(id)
    /\ Start(w, "sanction", About("sanction", id, [users[id] EXCEPT !.is_sanctioned = TRUE]))

(* What emergency_suspend does to the account (CareSession has the rest).  *)
emergency_suspend(w, id) ==
    /\ Present(id)
    /\ Start(w, "suspend",
             About("suspend", id, [users[id] EXCEPT !.is_sanctioned = TRUE,
                                                    !.is_active = FALSE]))

Due(id) == Present(id) /\ users[id].purge_at # Never /\ users[id].purge_at <= now

(* Slips: only accounts that are still active are looked at; also those    *)
(* without a phone.                                                        *)
_seal_sanction_if_needed_slip_active(id) ==
    users[id].is_sanctioned /\ users[id].phone # None /\ users[id].is_active

_seal_sanction_if_needed_slip_none(id) == users[id].is_sanctioned

_seal_sanction_if_needed(id) == users[id].is_sanctioned /\ users[id].phone # None

(* The daily job.                                                          *)
purge_deactivated(w) ==
    LET batch == {id \in Ids : Due(id)}
    IN  /\ batch # {}
        /\ Start(w, "purge",
                 [NoRequest EXCEPT !.op = "purge", !.batch = batch,
                     !.seals = {id \in batch : _seal_sanction_if_needed(id)}])

(* Also of the daily job: three DELETE statements, no reads.               *)
purge_expired_tokens(w) ==
    /\ "expire" \in mix.ops
    /\ Ready(w)
    /\ tokens' = [j \in Jtis |-> IF tokens[j].status \in {"live", "revoked"}
                                    /\ tokens[j].expires_at <= now
                                 THEN [tokens[j] EXCEPT !.status = "deleted"]
                                 ELSE tokens[j]]
    /\ LinksPurged(now)
    /\ nonces' = [n \in Nonces |-> IF nonces[n] + NONCE_TTL <= now THEN Never ELSE nonces[n]]
    /\ UNCHANGED <<now, users, social, sealed, codes, mix, pc, req>>

-----------------------------------------------------------------------------
(* Verification.                                                           *)

request_phone_verification(w, p) ==
    /\ ~is_phone_taken(p)
    /\ Start(w, "request_code",
             [NoRequest EXCEPT !.op = "request_code",
                               !.write = [NoUser EXCEPT !.phone = p]])

verify_phone_code(w, p, c, right) ==
    /\ Guessable(c, p, now)
    /\ Start(w, "verify_code",
             [NoRequest EXCEPT !.op = "verify_code", !.code = c,
                               !.attempts = codes[c].attempts, !.right = right])

request_email_verification(w, e) ==
    /\ ~is_email_taken(e)
    /\ Start(w, "request_link",
             [NoRequest EXCEPT !.op = "request_link",
                               !.write = [NoUser EXCEPT !.email = e]])

verify_email_token(w, k) ==
    /\ Clickable(k, now)
    /\ Start(w, "verify_link", [NoRequest EXCEPT !.op = "verify_link", !.link = k])

-----------------------------------------------------------------------------
(* Commits.                                                                *)

Token(id, of) == [status |-> "live", user_id |-> id, login |-> of,
                     expires_at |-> now + REFRESH_TOKEN_TTL]

(* _issue_tokens: j is a login of its own.                                 *)
Issue(id, j) == /\ IsLeast(j, FreeJtis)
                /\ tokens' = [tokens EXCEPT ![j] = Token(id, j)]

(* Slip: the token that was used stays live. *)
Rotate_slip(id, old, j) ==
    /\ IsLeast(j, FreeJtis)
    /\ tokens' = [tokens EXCEPT ![j] = Token(id, tokens[old].login)]

Rotate(id, old, j) ==
    /\ IsLeast(j, FreeJtis)
    /\ tokens' = [tokens EXCEPT ![old] = [@ EXCEPT !.status = "revoked"],
                                ![j] = Token(id, tokens[old].login)]

(* Slip: only the tokens that are about to expire. *)
_revoke_all_for_user_slip(id) ==
    [j \in Jtis |-> IF tokens[j].user_id = id /\ tokens[j].status = "live"
                       /\ tokens[j].expires_at <= now
                    THEN [tokens[j] EXCEPT !.status = "revoked"] ELSE tokens[j]]

_revoke_all_for_user(id) ==
    [j \in Jtis |-> IF tokens[j].user_id = id /\ tokens[j].status = "live"
                    THEN [tokens[j] EXCEPT !.status = "revoked"] ELSE tokens[j]]

(* users.email is unique; the phone's hash is indexed, no more.            *)
CreateRefused(r) ==
    \/ r.write.email # None /\ is_email_taken(r.write.email)
    \/ r.uid # None /\ social[r.uid] # 0

CommitCreate(w) ==
    LET r == req[w]
    IN  /\ pc[w] = "commit" /\ r.op \in Creating
        /\ ~CreateRefused(r)
        /\ \E id \in Ids, j \in Jtis :
              /\ IsLeast(id, FreeIds)
              /\ users' = [users EXCEPT ![id] = r.write]
              /\ social' = [u \in Uids |-> IF u = r.uid THEN id ELSE social[u]]
              /\ Issue(id, j)
        /\ Finish(w)
        /\ UNCHANGED <<sealed, nonces, codes, links>>

(* Slip: the token's row is not looked for. *)
UpdateRefused_slip(r) == ~Present(r.id) \/ (r.nonce # None /\ nonces[r.nonce] # Never)

UpdateRefused(r) ==
    \/ ~Present(r.id)
    \/ r.op = "rotate" /\ tokens[r.jti].status = "deleted"
    \/ r.nonce # None /\ nonces[r.nonce] # Never

(* login, cancel_withdrawal and social_login issue a token.                *)
CommitIssue(w) ==
    LET r == req[w]
    IN  /\ pc[w] = "commit" /\ r.op \in {"login", "cancel", "social"}
        /\ ~UpdateRefused(r)
        /\ users' = [users EXCEPT ![r.id] = Updated(@, r.read, r.write)]
        /\ \E j \in Jtis : Issue(r.id, j)
        /\ nonces' = [n \in Nonces |-> IF n = r.nonce THEN now ELSE nonces[n]]
        /\ Finish(w)
        /\ UNCHANGED <<social, sealed, codes, links>>

CommitRotate(w) ==
    LET r == req[w]
    IN  /\ pc[w] = "commit" /\ r.op = "rotate"
        /\ ~UpdateRefused(r)
        /\ \E j \in Jtis : Rotate(r.id, r.jti, j)
        /\ Finish(w)
        /\ UNCHANGED <<users, social, sealed, nonces, codes, links>>

(* reset_password, withdraw and a reused token end every session.          *)
CommitRevoke(w) ==
    LET r == req[w]
    IN  /\ pc[w] = "commit" /\ r.op \in {"reset", "withdraw", "reuse"}
        /\ ~UpdateRefused(r)
        /\ users' = [users EXCEPT ![r.id] = Updated(@, r.read, r.write)]
        /\ tokens' = _revoke_all_for_user(r.id)
        /\ Finish(w)
        /\ UNCHANGED <<social, sealed, nonces, codes, links>>

CommitUpdate(w) ==
    LET r == req[w]
    IN  /\ pc[w] = "commit" /\ r.op \in {"fail", "sanction", "suspend"}
        /\ ~UpdateRefused(r)
        /\ users' = [users EXCEPT ![r.id] = Updated(@, r.read, r.write)]
        /\ Finish(w)
        /\ UNCHANGED <<tokens, social, sealed, nonces, codes, links>>

(* Slips: the identity moves to the account that asks for it; no foreign   *)
(* key.                                                                    *)
LinkRefused_slip_moves(r) == ~Present(r.id)

LinkRefused_slip_orphan(r) == social[r.uid] # 0

LinkRefused(r) == ~Present(r.id) \/ social[r.uid] # 0

CommitLink(w) ==
    LET r == req[w]
    IN  /\ pc[w] = "commit" /\ r.op = "link"
        /\ ~LinkRefused(r)
        /\ social' = [social EXCEPT ![r.uid] = r.id]
        /\ Finish(w)
        /\ UNCHANGED <<users, tokens, sealed, nonces, codes, links>>

(* A phone is sealed once: the job of a batch stops as a whole.            *)
PurgeRefused(r) ==
    \E i \in r.seals : \/ users[i].phone \in sealed
                       \/ \E k \in r.seals : k # i /\ users[k].phone = users[i].phone

(* The rows go with what refers to them.                                   *)
CommitPurge(w) ==
    LET r == req[w]
    IN  /\ pc[w] = "commit" /\ r.op = "purge"
        /\ ~PurgeRefused(r)
        /\ sealed' = sealed \cup {users[i].phone : i \in r.seals}
        /\ users' = [i \in Ids |-> IF i \in r.batch /\ Present(i)
                                   THEN [users[i] EXCEPT !.state = "deleted"] ELSE users[i]]
        /\ tokens' = [j \in Jtis |-> IF tokens[j].user_id \in r.batch
                                        /\ tokens[j].status \in {"live", "revoked"}
                                     THEN [tokens[j] EXCEPT !.status = "deleted"]
                                     ELSE tokens[j]]
        /\ social' = [u \in Uids |-> IF social[u] \in r.batch THEN 0 ELSE social[u]]
        /\ Finish(w)
        /\ UNCHANGED <<nonces, codes, links>>

CommitVerification(w) ==
    LET r == req[w]
    IN  /\ pc[w] = "commit"
        /\ \/ r.op = "request_code" /\ NewCode(r.write.phone, now) /\ UNCHANGED links
           \/ r.op = "verify_code" /\ Guessed(r.code, r.attempts, r.right) /\ UNCHANGED links
           \/ r.op = "request_link" /\ NewLink(r.write.email, now) /\ UNCHANGED codes
           \/ /\ r.op = "verify_link" /\ links[r.link].email # None
              /\ Clicked(r.link) /\ UNCHANGED codes
        /\ Finish(w)
        /\ UNCHANGED <<users, tokens, social, sealed, nonces>>

(* A broken key, a row that is gone, or a request that stops half-way: its *)
(* transaction is rolled back.                                             *)
RolledBack(w) == pc[w] = "commit" /\ Finish(w) /\ UNCHANGED dbVars

Commit(w) ==
    \/ CommitCreate(w) \/ CommitIssue(w) \/ CommitRotate(w) \/ CommitRevoke(w)
    \/ CommitUpdate(w) \/ CommitLink(w) \/ CommitPurge(w) \/ CommitVerification(w)

-----------------------------------------------------------------------------
Init == /\ now = 1
        /\ users = [id \in Ids |-> NoUser]
        /\ tokens = [j \in Jtis |-> NoToken]
        /\ social = [u \in Uids |-> 0]
        /\ sealed = {}
        /\ nonces = [n \in Nonces |-> Never]
        /\ VerificationInit
        /\ mix \in Mixes
        /\ pc = [w \in Workers |-> "idle"]
        /\ req = [w \in Workers |-> NoRequest]

Call(w) ==
    \/ \E e \in Emails, p \in Phones : signup(w, e, p)
    \/ \E id \in Ids : \/ login_failed(w, id) \/ login(w, id)
                        \/ reset_password(w, id)
                        \/ withdraw(w, id) \/ cancel_withdrawal(w, id)
                        \/ record_sanction(w, id) \/ emergency_suspend(w, id)
    \/ \E j \in Jtis : rotate_refresh_token(w, j) \/ logout(w, j)
    \/ guest_login(w)
    \/ \E u \in Uids : \/ \E n \in Nonces : social_login(w, u, n)
                        \/ \E p \in Phones : complete_social_signup(w, u, p)
                        \/ \E id \in Ids : link_social_account(w, id, u)
    \/ \E p \in Phones : \/ request_phone_verification(w, p)
                          \/ \E c \in CodeIds, right \in BOOLEAN :
                                verify_phone_code(w, p, c, right)
    \/ \E e \in Emails : request_email_verification(w, e)
    \/ \E k \in LinkIds : verify_email_token(w, k)

Job(w) == purge_deactivated(w) \/ purge_expired_tokens(w)

(* Bound: the clock stops at MaxTime.                                      *)
Tick == now < MaxTime /\ now' = now + 1 /\ UNCHANGED <<dbVars, mix, pc, req>>

Next == Tick \/ \E w \in Workers : Call(w) \/ Job(w) \/ Commit(w) \/ RolledBack(w)

Spec == Init /\ [][Next]_vars

-----------------------------------------------------------------------------
(* The type of every variable. *)
TypeOK ==
    /\ now \in Nat
    /\ users \in [Ids -> User]
    /\ tokens \in [Jtis -> RefreshToken]
    /\ social \in [Uids -> Ids \cup {0}]
    /\ sealed \subseteq Phones
    /\ nonces \in [Nonces -> Nat]
    /\ VerificationTypeOK
    /\ mix \in Mix
    /\ pc \in [Workers -> {"idle", "commit"}]
    /\ req \in [Workers -> Request]

(* The refresh tokens are a token register: no overlap of rotations,       *)
(* logouts, resets, withdrawals and purges revives a revoked token or      *)
(* moves one to another account.                                           *)
Register == INSTANCE TokenRegister
    WITH status <- [j \in Jtis |-> tokens[j].status],
         owner  <- [j \in Jtis |-> tokens[j].user_id],
         Owners <- Ids, Nobody <- 0

Registered == Register!Spec

(* Nothing survives its account: a token that can still be presented and a *)
(* linked identity belong to an account that exists, also when they are    *)
(* written while the purge deletes it.                                     *)
NoOrphans ==
    /\ \A j \in Jtis : tokens[j].status \in {"live", "revoked"} => Present(tokens[j].user_id)
    /\ \A u \in Uids : social[u] # 0 => Present(social[u])

(* An identity of a social provider never moves from one account to        *)
(* another: it is free for a new link only once its account is deleted.    *)
LinkNeverMoves ==
    [][\A u \in Uids : social[u] # 0 => social'[u] \in {social[u], 0}]_vars

(* One at a time, a login has one live token, however often it is rotated. *)
(* Two rotations of one token that overlap (service.py:342) leave two.     *)
OneLivePerLogin ==
    mix.serial =>
        \A j, k \in Jtis :
            /\ tokens[j].status = "live" /\ tokens[k].status = "live"
            /\ tokens[j].login = tokens[k].login
            => j = k

(* One at a time, an account that is being withdrawn has no session left   *)
(* and gets none before the withdrawal is cancelled.  A login or rotation  *)
(* that overlaps the withdrawal leaves one.                                *)
WithdrawnHasNoSession ==
    mix.serial =>
        \A id \in Ids : Present(id) /\ users[id].purge_at # Never =>
            \A j \in Jtis : tokens[j].user_id = id => tokens[j].status # "live"

(* One at a time, a phone belongs to one account, and a sealed one to      *)
(* none.  No key of the database says so: sign-ups that overlap share one. *)
PhoneHeldOnce ==
    mix.serial =>
        \A id \in Ids : Present(id) /\ users[id].phone # None =>
            /\ users[id].phone \notin sealed
            /\ \A k \in Ids : Present(k) /\ users[k].phone = users[id].phone => k = id

(* One at a time, a sanctioned account leaves its phone behind, whatever   *)
(* came between the sanction and the deletion.                             *)
SanctionSealed ==
    mix.serial =>
        \A id \in Ids :
            /\ users[id].state = "deleted" /\ users[id].is_sanctioned
            /\ users[id].phone # None
            => users[id].phone \in sealed

(* Not active for no withdrawal: an administrator has suspended it.        *)
Suspended(id) ==
    Present(id) /\ ~users[id].is_active /\ users[id].purge_at = Never

(* One at a time, an account that was suspended outside a withdrawal stays *)
(* suspended for good: no sequence of sign-in, reset, withdrawal, its      *)
(* cancellation and purge activates it, lets it begin a withdrawal that    *)
(* could be cancelled, or deletes it, and no token is issued to it any     *)
(* more.  Suspended during a withdrawal it is not Suspended in this sense: *)
(* the cancellation gives it back (service.py:599).                        *)
SuspensionHolds ==
    [][mix.serial =>
        \A id \in Ids :
            Suspended(id) =>
                /\ Suspended(id)'
                /\ \A j \in Jtis : tokens'[j].user_id = id => tokens[j].user_id = id]_vars

(* One at a time, an account has a lock set exactly when it has as many    *)
(* failures as the lock takes; a success that overlaps a failure breaks it *)
(* (a lock without failures).                                              *)
LockedMeansFull ==
    mix.serial =>
        \A id \in Ids : users[id].locked_until # Never <=>
                        users[id].failed_login_attempts >= MAX_LOGIN_ATTEMPTS

(* One at a time, a code is compared with few wrong guesses before it is   *)
(* spent; requests that overlap write the count they read and get more.    *)
GuessesBounded ==
    mix.serial => \A c \in CodeIds : codes[c].guesses <= MAX_CODE_ATTEMPTS
=============================================================================
