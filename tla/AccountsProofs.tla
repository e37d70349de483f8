--------------------------- MODULE AccountsProofs ---------------------------
(***************************************************************************)
(* Theorems about Accounts, for any number of accounts, tokens and         *)
(* requests in flight together, and any mix of operations.                 *)
(*                                                                         *)
(* The argument for the register of tokens: what a request has read of a   *)
(* token to rotate stays true but for its status, which only moves on.     *)
(*                                                                         *)
(* The second part is about requests that come one at a time: while one is *)
(* in flight only the clock moves, so that what it has read is still so    *)
(* when it commits.                                                        *)
(***************************************************************************)
EXTENDS Accounts, TLAPS

(* The requests that act for an account that was there when they read.     *)
OfAccount == {"login", "cancel", "social", "rotate", "reset", "withdraw", "reuse",
              "fail", "sanction", "suspend", "link"}

(* What a request in flight still knows when it commits.                   *)
RequestOK(r) ==
    /\ r.op \in OfAccount => r.id \in Ids
    /\ r.op = "link" => r.uid \in Uids
    /\ r.op = "rotate" => /\ r.jti \in Jtis
                          /\ tokens[r.jti].status # "none"
                          /\ tokens[r.jti].user_id = r.id
    /\ \A i \in r.seals : users[i].state # "none" /\ users[i].phone \in Phones

(* The inductive invariant: types, owners of the tokens that were issued,  *)
(* and what the requests in flight know.                                   *)
RegisterInv ==
    /\ TypeOK
    /\ \A j \in Jtis : tokens[j].status # "none" => tokens[j].user_id \in Ids
    /\ \A w \in Workers : RequestOK(req[w])

-----------------------------------------------------------------------------
(* Types of the building blocks.                                           *)

(* The row of an account before it is created is well typed.               *)
LEMMA NoUserType == NoUser \in User
BY DEF NoUser, User, Never

(* A worker without a request is well typed.                               *)
LEMMA NoRequestType == NoRequest \in Request /\ RequestOK(NoRequest)
BY NoUserType DEF NoRequest, Request, RequestOK, OfAccount

(* A token that was not issued is well typed.                              *)
LEMMA NoTokenType == NoToken \in RefreshToken
BY DEF NoToken, RefreshToken, Never

(* The row written at sign-up is well typed.                               *)
LEMMA CreatedType ==
    ASSUME NEW e \in Emails \cup {None}, NEW p \in Phones \cup {None}, NEW b \in BOOLEAN
    PROVE  Created(e, p, b) \in User
BY NoUserType DEF Created, User

(* Writing what lockout decides leaves a well-typed row.                   *)
LEMMA FailureType ==
    ASSUME NEW row \in User, now \in Nat
    PROVE  WithLockout(row, on_failure(row.failed_login_attempts, row.locked_until, now))
               \in User
<1>1. /\ row.failed_login_attempts \in Nat
      /\ row.locked_until \in Nat
  BY DEF User
<1>2. on_failure(row.failed_login_attempts, row.locked_until, now) \in LockoutState
  BY <1>1, LockoutAssumption DEF on_failure, LockoutState, Never
<1> DEFINE s == on_failure(row.failed_login_attempts, row.locked_until, now)
<1>3. s.failed_attempts \in Nat /\ s.locked_until \in Nat
  BY <1>2 DEF LockoutState
<1> HIDE DEF s
<1> QED
  BY <1>3 DEF WithLockout, User, s

(* A login or a reset leaves a well-typed row.                             *)
LEMMA SuccessType ==
    ASSUME NEW row \in User
    PROVE  WithLockout(row, on_success) \in User
BY DEF WithLockout, User, on_success, Never

(* Writing the changed columns of a row over another leaves a well-typed   *)
(* row.                                                                    *)
LEMMA UpdatedType ==
    ASSUME NEW cur \in User, NEW read \in User, NEW new \in User
    PROVE  Updated(cur, read, new) \in User
<1> DEFINE active == IF new.is_active # read.is_active THEN new.is_active ELSE cur.is_active
           sanctioned == IF new.is_sanctioned # read.is_sanctioned
                         THEN new.is_sanctioned ELSE cur.is_sanctioned
           purge == IF new.purge_at # read.purge_at THEN new.purge_at ELSE cur.purge_at
           failed == IF new.failed_login_attempts # read.failed_login_attempts
                     THEN new.failed_login_attempts ELSE cur.failed_login_attempts
           locked == IF new.locked_until # read.locked_until
                     THEN new.locked_until ELSE cur.locked_until
<1>1. /\ active \in BOOLEAN /\ sanctioned \in BOOLEAN
      /\ purge \in Nat /\ failed \in Nat /\ locked \in Nat
  BY DEF User
<1>2. Updated(cur, read, new) =
          [cur EXCEPT !.is_active = active, !.is_sanctioned = sanctioned,
                      !.purge_at = purge, !.failed_login_attempts = failed,
                      !.locked_until = locked]
  BY DEF Updated, User
<1> HIDE DEF active, sanctioned, purge, failed, locked
<1> QED
  BY <1>1, <1>2 DEF User

(* A request that wants to leave a typed row and is about no account yet.  *)
LEMMA WritingType ==
    ASSUME NEW op \in Operations \ OfAccount, NEW row \in User, NEW uid \in Uids \cup {None},
           NEW r, \/ r = [NoRequest EXCEPT !.op = op, !.write = row]
                  \/ r = [NoRequest EXCEPT !.op = op, !.uid = uid, !.write = row]
    PROVE  r \in Request /\ RequestOK(r)
<1>1. r \in Request
  <2>1. CASE r = [NoRequest EXCEPT !.op = op, !.write = row]
    BY <2>1, NoRequestType DEF Request
  <2>2. CASE r = [NoRequest EXCEPT !.op = op, !.uid = uid, !.write = row]
    BY <2>2, NoRequestType DEF Request
  <2> QED
    BY <2>1, <2>2
<1>2. r.op = op /\ r.seals = {}
  BY DEF NoRequest
<1>3. RequestOK(r)
  BY <1>2 DEF RequestOK, OfAccount
<1> QED
  BY <1>1, <1>3

(* A request about an account is well typed.                               *)
LEMMA AboutType ==
    ASSUME TypeOK, NEW id \in Ids, NEW new \in User,
           NEW op \in Operations \cup {"fail", "reuse"}
    PROVE  /\ About(op, id, new) \in Request
           /\ About(op, id, new).op = op
           /\ About(op, id, new).id = id
           /\ About(op, id, new).seals = {}
<1>1. users[id] \in User
  BY DEF TypeOK
<1> QED
  BY <1>1, NoRequestType DEF About, Request, NoRequest

-----------------------------------------------------------------------------
(* Starting a request.                                                     *)

(* A request that starts with typed, true knowledge keeps the invariant.   *)
LEMMA StartKeeps ==
    ASSUME RegisterInv, NEW w \in Workers, NEW op, NEW r \in Request, RequestOK(r),
           Start(w, op, r)
    PROVE  RegisterInv'
<1>1. /\ req' = [req EXCEPT ![w] = r]
      /\ pc' = [pc EXCEPT ![w] = "commit"]
      /\ UNCHANGED <<now, users, tokens, social, sealed, nonces, codes, links, mix>>
  BY DEF Start, dbVars
<1>2. TypeOK'
  BY <1>1 DEF RegisterInv, TypeOK, VerificationTypeOK
<1>3. \A v \in Workers : RequestOK(req[v])'
  BY <1>1 DEF RegisterInv, TypeOK, RequestOK
<1> QED
  BY <1>1, <1>2, <1>3 DEF RegisterInv

(* A request about an account knows it.                                    *)
LEMMA AboutOK ==
    ASSUME RegisterInv, NEW w \in Workers, NEW id \in Ids, NEW new \in User,
           NEW op \in Operations \cup {"fail", "reuse"}, op \notin {"rotate", "link"},
           NEW call, Start(w, call, About(op, id, new))
    PROVE  RegisterInv'
<1>1. TypeOK
  BY DEF RegisterInv
<1>2. /\ About(op, id, new) \in Request
      /\ About(op, id, new).op = op
      /\ About(op, id, new).id = id
      /\ About(op, id, new).seals = {}
  BY <1>1, AboutType
<1>3. RequestOK(About(op, id, new))
  BY <1>2 DEF RequestOK
<1> QED
  BY <1>2, <1>3, StartKeeps

(* Signing up.                                                             *)
LEMMA SignUpStarts ==
    ASSUME RegisterInv, NEW w \in Workers,
           \/ \E e \in Emails, p \in Phones : signup(w, e, p)
           \/ guest_login(w)
           \/ \E u \in Uids, p \in Phones : complete_social_signup(w, u, p)
    PROVE  RegisterInv'
<1>1. ASSUME NEW e \in Emails, NEW p \in Phones, signup(w, e, p)
      PROVE  RegisterInv'
  <2> DEFINE r == [NoRequest EXCEPT !.op = "signup", !.write = Created(e, p, TRUE)]
  <2>1. Created(e, p, TRUE) \in User
    BY CreatedType
  <2>2. r \in Request /\ RequestOK(r)
    BY <2>1, WritingType DEF Operations, OfAccount
  <2> HIDE DEF r
  <2> QED
    BY <1>1, <2>2, StartKeeps DEF signup, r
<1>2. ASSUME guest_login(w)
      PROVE  RegisterInv'
  <2> DEFINE r == [NoRequest EXCEPT !.op = "guest", !.write = Created(None, None, FALSE)]
  <2>1. Created(None, None, FALSE) \in User
    BY CreatedType
  <2>2. r \in Request /\ RequestOK(r)
    BY <2>1, WritingType DEF Operations, OfAccount
  <2> HIDE DEF r
  <2> QED
    BY <1>2, <2>2, StartKeeps DEF guest_login, r
<1>3. ASSUME NEW u \in Uids, NEW p \in Phones, complete_social_signup(w, u, p)
      PROVE  RegisterInv'
  <2> DEFINE r == [NoRequest EXCEPT !.op = "complete", !.uid = u,
                                    !.write = Created(UidEmail[u], p, FALSE)]
  <2>1. Created(UidEmail[u], p, FALSE) \in User
    BY CreatedType, AccountsAssumption
  <2>2. r \in Request /\ RequestOK(r)
    BY <2>1, WritingType DEF Operations, OfAccount
  <2> HIDE DEF r
  <2> QED
    BY <1>3, <2>2, StartKeeps DEF complete_social_signup, r
<1> QED
  BY <1>1, <1>2, <1>3

(* Logging in and what changes the row of an account.                      *)
LEMMA AccountStarts ==
    ASSUME RegisterInv, NEW w \in Workers, NEW id \in Ids,
           \/ login_failed(w, id) \/ login(w, id) \/ reset_password(w, id)
           \/ withdraw(w, id) \/ cancel_withdrawal(w, id)
           \/ record_sanction(w, id) \/ emergency_suspend(w, id)
    PROVE  RegisterInv'
<1>1. users[id] \in User /\ now \in Nat
  BY DEF RegisterInv, TypeOK
<1>2. CASE login_failed(w, id)
  <2> DEFINE row == users[id]
  <2>1. WithLockout(row, on_failure(row.failed_login_attempts, row.locked_until, now))
            \in User
    BY <1>1, FailureType
  <2> QED
    BY <1>2, <2>1, AboutOK DEF login_failed
<1>3. CASE login(w, id)
  BY <1>1, <1>3, SuccessType, AboutOK DEF login, Operations
<1>4. CASE reset_password(w, id)
  BY <1>1, <1>4, SuccessType, AboutOK DEF reset_password, Operations
<1>5. CASE withdraw(w, id)
  <2>1. [users[id] EXCEPT !.purge_at = now + WITHDRAWAL_GRACE, !.is_active = FALSE]
            \in User
    <3>1. now + WITHDRAWAL_GRACE \in Nat
      BY <1>1, AccountsAssumption
    <3> QED
      BY <1>1, <3>1 DEF User
  <2> QED
    BY <1>5, <2>1, AboutOK DEF withdraw, Operations
<1>6. CASE cancel_withdrawal(w, id)
  <2>1. [users[id] EXCEPT !.purge_at = Never, !.is_active = TRUE] \in User
    BY <1>1 DEF User, Never
  <2> QED
    BY <1>6, <2>1, AboutOK DEF cancel_withdrawal, Operations
<1>7. CASE record_sanction(w, id)
  <2>1. [users[id] EXCEPT !.is_sanctioned = TRUE] \in User
    BY <1>1 DEF User
  <2> QED
    BY <1>7, <2>1, AboutOK DEF record_sanction, Operations
<1>8. CASE emergency_suspend(w, id)
  <2>1. [users[id] EXCEPT !.is_sanctioned = TRUE, !.is_active = FALSE] \in User
    BY <1>1 DEF User
  <2> QED
    BY <1>8, <2>1, AboutOK DEF emergency_suspend, Operations
<1> QED
  BY <1>2, <1>3, <1>4, <1>5, <1>6, <1>7, <1>8

(* Social logins, links and rotations.                                     *)
LEMMA SessionStarts ==
    ASSUME RegisterInv, NEW w \in Workers,
           \/ \E u \in Uids, n \in Nonces : social_login(w, u, n)
           \/ \E id \in Ids, u \in Uids : link_social_account(w, id, u)
           \/ \E j \in Jtis : rotate_refresh_token(w, j)
    PROVE  RegisterInv'
<1> USE DEF RegisterInv
<1>1. ASSUME NEW u \in Uids, NEW n \in Nonces, social_login(w, u, n)
      PROVE  RegisterInv'
  <2>1. social[u] \in Ids /\ users[social[u]] \in User
    BY <1>1 DEF social_login, TypeOK
  <2> DEFINE a == About("social", social[u], users[social[u]])
             r == [a EXCEPT !.uid = u, !.nonce = n]
  <2>2. a \in Request /\ a.op = "social" /\ a.id = social[u] /\ a.seals = {}
    BY <2>1, AboutType DEF Operations
  <2>3. Start(w, "social", r)
    BY <1>1 DEF social_login
  <2> HIDE DEF a
  <2>4. r \in Request /\ r.op = "social" /\ r.id = social[u] /\ r.seals = {}
    BY <2>2 DEF Request
  <2> HIDE DEF r
  <2>5. RequestOK(r)
    BY <2>1, <2>4 DEF RequestOK
  <2> QED
    BY <2>3, <2>4, <2>5, StartKeeps
<1>2. ASSUME NEW id \in Ids, NEW u \in Uids, link_social_account(w, id, u)
      PROVE  RegisterInv'
  <2>1. users[id] \in User
    BY DEF TypeOK
  <2> DEFINE a == About("link", id, users[id])
             r == [a EXCEPT !.uid = u]
  <2>2. a \in Request /\ a.op = "link" /\ a.id = id /\ a.seals = {}
    BY <2>1, AboutType DEF Operations
  <2>3. Start(w, "link", r)
    BY <1>2 DEF link_social_account
  <2> HIDE DEF a
  <2>4. r \in Request /\ r.op = "link" /\ r.id = id /\ r.uid = u /\ r.seals = {}
    BY <2>2 DEF Request
  <2> HIDE DEF r
  <2>5. RequestOK(r)
    BY <2>4 DEF RequestOK
  <2> QED
    BY <2>3, <2>4, <2>5, StartKeeps
<1>3. ASSUME NEW j \in Jtis, rotate_refresh_token(w, j)
      PROVE  RegisterInv'
  <2> DEFINE id == tokens[j].user_id
  <2>1. tokens[j].status # "none"
    BY <1>3 DEF rotate_refresh_token, decode
  <2>2. id \in Ids /\ users[id] \in User
    BY <2>1 DEF TypeOK
  <2>3. PICK op \in {"reuse", "rotate"} :
            Start(w, "rotate", [About(op, id, users[id]) EXCEPT !.jti = j])
    BY <1>3 DEF rotate_refresh_token
  <2> DEFINE a == About(op, id, users[id])
             r == [a EXCEPT !.jti = j]
  <2>4. a \in Request /\ a.op = op /\ a.id = id /\ a.seals = {}
    BY <2>2, AboutType DEF Operations
  <2>5. Start(w, "rotate", r)
    BY <2>3
  <2> HIDE DEF a
  <2>6. r \in Request /\ r.op = op /\ r.id = id /\ r.jti = j /\ r.seals = {}
    BY <2>4 DEF Request
  <2> HIDE DEF r
  <2>7. RequestOK(r)
    BY <2>1, <2>2, <2>6 DEF RequestOK
  <2> QED
    BY <2>5, <2>6, <2>7, StartKeeps
<1> QED
  BY <1>1, <1>2, <1>3

(* What is known of the requests of verification and of the purge.         *)
LEMMA CodeRequest ==
    ASSUME NEW q \in Request, NEW c \in CodeIds, NEW n \in Nat, NEW b \in BOOLEAN
    PROVE  [q EXCEPT !.op = "verify_code", !.code = c, !.attempts = n, !.right = b]
               \in Request
<1>1. [q EXCEPT !.op = "verify_code", !.code = c, !.attempts = n, !.right = TRUE] \in Request
  BY DEF Request, Operations
<1>2. [q EXCEPT !.op = "verify_code", !.code = c, !.attempts = n, !.right = FALSE] \in Request
  BY DEF Request, Operations
<1>3. b = TRUE \/ b = FALSE
  OBVIOUS
<1> QED
  BY <1>1, <1>2, <1>3

LEMMA LinkRequest ==
    ASSUME NEW k \in LinkIds, NEW r,
           r = [NoRequest EXCEPT !.op = "verify_link", !.link = k]
    PROVE  r \in Request /\ r.op = "verify_link" /\ r.seals = {}
<1>1. r \in Request
  BY NoRequestType DEF Request, Operations
<1>2. r.op = "verify_link" /\ r.seals = {}
  BY DEF NoRequest
<1> QED
  BY <1>1, <1>2

LEMMA PurgeRequest ==
    ASSUME NEW B \in SUBSET Ids, NEW S \in SUBSET Ids, NEW r,
           r = [NoRequest EXCEPT !.op = "purge", !.batch = B, !.seals = S]
    PROVE  r \in Request /\ r.op = "purge" /\ r.seals = S
<1>1. r \in Request
  BY NoRequestType DEF Request, Operations
<1>2. r.op = "purge" /\ r.seals = S
  BY DEF NoRequest
<1> QED
  BY <1>1, <1>2

(* Verification and the daily purge.                                       *)
LEMMA OtherStarts ==
    ASSUME RegisterInv, NEW w \in Workers,
           \/ \E p \in Phones : request_phone_verification(w, p)
           \/ \E p \in Phones, c \in CodeIds, right \in BOOLEAN :
                 verify_phone_code(w, p, c, right)
           \/ \E e \in Emails : request_email_verification(w, e)
           \/ \E k \in LinkIds : verify_email_token(w, k)
           \/ purge_deactivated(w)
    PROVE  RegisterInv'
<1>1. ASSUME NEW p \in Phones, request_phone_verification(w, p)
      PROVE  RegisterInv'
  <2> DEFINE r == [NoRequest EXCEPT !.op = "request_code",
                                    !.write = [NoUser EXCEPT !.phone = p]]
  <2>1. [NoUser EXCEPT !.phone = p] \in User
    BY NoUserType DEF User
  <2>2. r \in Request /\ RequestOK(r)
    BY <2>1, WritingType DEF Operations, OfAccount
  <2> HIDE DEF r
  <2> QED
    BY <1>1, <2>2, StartKeeps DEF request_phone_verification, r
<1>2. ASSUME NEW p \in Phones, NEW c \in CodeIds, NEW right \in BOOLEAN,
             verify_phone_code(w, p, c, right)
      PROVE  RegisterInv'
  <2> DEFINE r == [NoRequest EXCEPT !.op = "verify_code", !.code = c,
                                    !.attempts = codes[c].attempts, !.right = right]
  <2>1. codes[c].attempts \in Nat
    BY DEF RegisterInv, TypeOK, VerificationTypeOK, PhoneVerificationToken
  <2>2. r \in Request /\ r.op = "verify_code" /\ r.seals = {}
    <3>1. r \in Request
      BY <2>1, NoRequestType, CodeRequest
    <3>2. r.op = "verify_code" /\ r.seals = {}
      BY DEF NoRequest
    <3> QED
      BY <3>1, <3>2
  <2> HIDE DEF r
  <2>3. RequestOK(r)
    BY <2>2 DEF RequestOK, OfAccount
  <2> HIDE DEF r
  <2> QED
    BY <1>2, <2>2, <2>3, StartKeeps DEF verify_phone_code, r
<1>3. ASSUME NEW e \in Emails, request_email_verification(w, e)
      PROVE  RegisterInv'
  <2> DEFINE r == [NoRequest EXCEPT !.op = "request_link",
                                    !.write = [NoUser EXCEPT !.email = e]]
  <2>1. [NoUser EXCEPT !.email = e] \in User
    BY NoUserType DEF User
  <2>2. r \in Request /\ RequestOK(r)
    BY <2>1, WritingType DEF Operations, OfAccount
  <2> HIDE DEF r
  <2> QED
    BY <1>3, <2>2, StartKeeps DEF request_email_verification, r
<1>4. ASSUME NEW k \in LinkIds, verify_email_token(w, k)
      PROVE  RegisterInv'
  <2> DEFINE r == [NoRequest EXCEPT !.op = "verify_link", !.link = k]
  <2>1. r \in Request /\ r.op = "verify_link" /\ r.seals = {}
    BY LinkRequest
  <2> HIDE DEF r
  <2>2. RequestOK(r)
    BY <2>1 DEF RequestOK, OfAccount
  <2> QED
    BY <1>4, <2>1, <2>2, StartKeeps DEF verify_email_token, r
<1>5. ASSUME purge_deactivated(w)
      PROVE  RegisterInv'
  <2> DEFINE batch == {id \in Ids : Due(id)}
             r == [NoRequest EXCEPT !.op = "purge", !.batch = batch,
                     !.seals = {id \in batch : _seal_sanction_if_needed(id)}]
  <2>1. r \in Request /\ RequestOK(r)
    <3> DEFINE seals == {id \in batch : _seal_sanction_if_needed(id)}
    <3>1. batch \in SUBSET Ids /\ seals \in SUBSET Ids
      OBVIOUS
    <3>2. \A i \in Ids : users[i].phone \in Phones \cup {None}
      BY DEF RegisterInv, TypeOK, User
    <3>3. \A i \in seals : users[i].state # "none" /\ users[i].phone \in Phones
      BY <3>2 DEF Due, Present, _seal_sanction_if_needed
    <3> HIDE DEF batch, seals
    <3>4. r \in Request /\ r.op = "purge" /\ r.seals = seals
      BY <3>1, PurgeRequest DEF seals
    <3> HIDE DEF r
    <3> QED
      BY <3>3, <3>4 DEF RequestOK, OfAccount
  <2>2. Start(w, "purge", r)
    BY <1>5 DEF purge_deactivated
  <2> HIDE DEF r
  <2> QED
    BY <2>1, <2>2, StartKeeps
<1> QED
  BY <1>1, <1>2, <1>3, <1>4, <1>5

-----------------------------------------------------------------------------
(* What the steps do to the tokens.                                        *)

(* No token that was issued is taken back or given to someone else.        *)
TokensMove ==
    \A k \in Jtis : tokens[k].status # "none" =>
        /\ tokens'[k].status # "none"
        /\ tokens'[k].user_id = tokens[k].user_id

(* A step on the tokens that keeps their part of the invariant and is a    *)
(* step of the register.                                                   *)
TokensStep ==
    /\ tokens' \in [Jtis -> RefreshToken]
    /\ \A j \in Jtis : tokens'[j].status # "none" => tokens'[j].user_id \in Ids
    /\ TokensMove
    /\ Register!Next \/ UNCHANGED tokens

(* Tokens that do not change.                                              *)
LEMMA SameTokens ==
    ASSUME RegisterInv, UNCHANGED tokens
    PROVE  TokensStep
BY DEF TokensStep, TokensMove, RegisterInv, TypeOK

(* A login issues one token.                                               *)
LEMMA IssueStep ==
    ASSUME RegisterInv, NEW id \in Ids, NEW j \in Jtis, Issue(id, j)
    PROVE  TokensStep
<1>1. tokens \in [Jtis -> RefreshToken] /\ now \in Nat
  BY DEF RegisterInv, TypeOK
<1>2. tokens[j].status = "none"
  BY DEF Issue, IsLeast, FreeJtis
<1>3. Token(id, j) \in RefreshToken
  <2>1. now + REFRESH_TOKEN_TTL \in Nat
    BY <1>1, AccountsAssumption
  <2> QED
    BY <2>1 DEF Token, RefreshToken
<1>4. Token(id, j).status = "live" /\ Token(id, j).user_id = id
  BY DEF Token
<1>5. tokens' = [tokens EXCEPT ![j] = Token(id, j)]
  BY DEF Issue
<1>6. tokens' \in [Jtis -> RefreshToken]
  BY <1>1, <1>3, <1>5
<1>7. \A k \in Jtis : tokens'[k] = IF k = j THEN Token(id, j) ELSE tokens[k]
  BY <1>1, <1>5
<1>8. Register!Issue(j, id)
  BY <1>2, <1>4, <1>7 DEF Register!Issue
<1>9. Register!Next
  BY <1>8 DEF Register!Next
<1> QED
  BY <1>2, <1>4, <1>6, <1>7, <1>9 DEF TokensStep, TokensMove, RegisterInv

(* A rotation issues one token and revokes the one it replaces.            *)
LEMMA RotateStep ==
    ASSUME RegisterInv, NEW id \in Ids, NEW old \in Jtis, NEW j \in Jtis,
           tokens[old].status \in {"live", "revoked"}, tokens[old].user_id = id,
           Rotate(id, old, j)
    PROVE  TokensStep
<1>1. tokens \in [Jtis -> RefreshToken] /\ now \in Nat
  BY DEF RegisterInv, TypeOK
<1>2. tokens[j].status = "none" /\ j # old
  BY DEF Rotate, IsLeast, FreeJtis
<1> DEFINE new == Token(id, tokens[old].login)
           used == [tokens[old] EXCEPT !.status = "revoked"]
<1>3. tokens[old] \in RefreshToken
  BY <1>1
<1>4. new \in RefreshToken
  <2>1. now + REFRESH_TOKEN_TTL \in Nat
    BY <1>1, AccountsAssumption
  <2> QED
    BY <1>3, <2>1 DEF Token, RefreshToken
<1>5. used \in RefreshToken /\ used.status = "revoked" /\ used.user_id = id
  BY <1>3 DEF RefreshToken
<1>6. new.status = "live" /\ new.user_id = id
  BY DEF Token
<1>7. tokens' = [tokens EXCEPT ![old] = used, ![j] = new]
  BY <1>1 DEF Rotate
<1> HIDE DEF new, used
<1>8. tokens' \in [Jtis -> RefreshToken]
  BY <1>1, <1>4, <1>5, <1>7
<1>9. \A k \in Jtis : tokens'[k] = IF k = j THEN new
                                   ELSE IF k = old THEN used ELSE tokens[k]
  BY <1>1, <1>2, <1>7
<1>10. Register!Rotate(old, j)
  BY <1>2, <1>5, <1>6, <1>9 DEF Register!Rotate, Register!Stored
<1>11. Register!Next
  BY <1>10 DEF Register!Next
<1> QED
  BY <1>2, <1>5, <1>6, <1>8, <1>9, <1>11 DEF TokensStep, TokensMove, RegisterInv

(* Revoking or deleting any set of stored tokens.                          *)
LEMMA EndStep ==
    ASSUME RegisterInv, NEW S \in SUBSET Jtis, NEW to \in {"revoked", "deleted"},
           \A j \in S : tokens[j].status \in {"live", "revoked"},
           tokens' = [j \in Jtis |-> IF j \in S THEN [tokens[j] EXCEPT !.status = to]
                                                ELSE tokens[j]]
    PROVE  TokensStep
<1>1. tokens \in [Jtis -> RefreshToken]
  BY DEF RegisterInv, TypeOK
<1>2. \A j \in S : /\ [tokens[j] EXCEPT !.status = to] \in RefreshToken
                   /\ [tokens[j] EXCEPT !.status = to].status = to
                   /\ [tokens[j] EXCEPT !.status = to].user_id = tokens[j].user_id
  BY <1>1 DEF RefreshToken
<1>3. \A j \in Jtis : /\ tokens'[j] \in RefreshToken
                      /\ tokens'[j].user_id = tokens[j].user_id
                      /\ tokens'[j].status = IF j \in S THEN to ELSE tokens[j].status
  BY <1>1, <1>2
<1>4. tokens' \in [Jtis -> RefreshToken]
  BY <1>3
<1>5. Register!Revoke(S) \/ Register!Forget(S)
  BY <1>3 DEF Register!Revoke, Register!Forget, Register!Stored
<1>6. Register!Next
  BY <1>5 DEF Register!Next
<1> QED
  BY <1>3, <1>4, <1>6 DEF TokensStep, TokensMove, RegisterInv

(* Ending all sessions of an account.                                      *)
LEMMA RevokeAllStep ==
    ASSUME RegisterInv, NEW id \in Ids, tokens' = _revoke_all_for_user(id)
    PROVE  TokensStep
<1> DEFINE S == {j \in Jtis : tokens[j].user_id = id /\ tokens[j].status = "live"}
<1>1. tokens' = [j \in Jtis |-> IF j \in S THEN [tokens[j] EXCEPT !.status = "revoked"]
                                           ELSE tokens[j]]
  BY DEF _revoke_all_for_user
<1>2. S \in SUBSET Jtis /\ \A j \in S : tokens[j].status \in {"live", "revoked"}
  OBVIOUS
<1> HIDE DEF S
<1> QED
  BY <1>1, <1>2, EndStep

-----------------------------------------------------------------------------
(* Ending a request.                                                       *)

(* No account that was created is taken back or gets another phone.        *)
UsersMove ==
    \A i \in Ids : users[i].state # "none" =>
        users'[i].state # "none" /\ users'[i].phone = users[i].phone

(* A request that ends over typed rows keeps the invariant.                *)
LEMMA FinishKeeps ==
    ASSUME RegisterInv, NEW w \in Workers, Finish(w), TokensStep, UsersMove,
           users' \in [Ids -> User], social' \in [Uids -> Ids \cup {0}],
           sealed' \subseteq Phones, nonces' \in [Nonces -> Nat], VerificationTypeOK'
    PROVE  RegisterInv'
<1>1. /\ req' = [req EXCEPT ![w] = NoRequest]
      /\ pc' = [pc EXCEPT ![w] = "idle"]
      /\ UNCHANGED <<now, mix>>
  BY DEF Finish
<1>2. TypeOK'
  BY <1>1, NoRequestType DEF RegisterInv, TypeOK, TokensStep
<1>3. RequestOK(NoRequest)'
  BY DEF RequestOK, NoRequest, OfAccount
<1>4. \A v \in Workers : RequestOK(req[v])'
  <2>1. \A v \in Workers : req[v].seals \subseteq Ids
    BY DEF RegisterInv, TypeOK, Request
  <2>2. \A v \in Workers : RequestOK(req[v]) => RequestOK(req[v])' \/ req'[v] # req[v]
    BY <2>1 DEF RequestOK, TokensStep, TokensMove, UsersMove
  <2> QED
    BY <1>1, <1>3, <2>2 DEF RegisterInv, TypeOK
<1> QED
  BY <1>2, <1>4 DEF RegisterInv, TokensStep

(* No identity moves from one account to another.                          *)
SocialStep == \A u \in Uids : social[u] # 0 => social'[u] \in {social[u], 0}

(* Rows of accounts that are updated stay well typed.                      *)
LEMMA UsersUpdated ==
    ASSUME RegisterInv, NEW w \in Workers, NEW id \in Ids,
           users' = [users EXCEPT ![id] = Updated(@, req[w].read, req[w].write)]
    PROVE  users' \in [Ids -> User] /\ UsersMove
<1>1. users[id] \in User /\ req[w].read \in User /\ req[w].write \in User
  BY DEF RegisterInv, TypeOK, Request
<1> DEFINE row == Updated(users[id], req[w].read, req[w].write)
<1>2. row \in User
  BY <1>1, UpdatedType
<1>3. row.state = users[id].state /\ row.phone = users[id].phone
  BY <1>1 DEF Updated, User
<1> HIDE DEF row
<1>4. users' = [users EXCEPT ![id] = row]
  BY DEF row, RegisterInv, TypeOK
<1> QED
  BY <1>2, <1>3, <1>4 DEF RegisterInv, TypeOK, UsersMove

(* Commits that create an account or link an identity.                     *)
LEMMA SocialCommits ==
    ASSUME RegisterInv, NEW w \in Workers, CommitCreate(w) \/ CommitLink(w)
    PROVE  RegisterInv' /\ TokensStep /\ SocialStep
<1>1. req[w] \in Request /\ RequestOK(req[w])
  BY DEF RegisterInv, TypeOK
<1>2. CASE CommitCreate(w)
  <2>1. PICK id \in Ids, j \in Jtis :
            /\ IsLeast(id, FreeIds)
            /\ users' = [users EXCEPT ![id] = req[w].write]
            /\ social' = [u \in Uids |-> IF u = req[w].uid THEN id ELSE social[u]]
            /\ Issue(id, j)
    BY <1>2 DEF CommitCreate
  <2>2. TokensStep
    BY <2>1, IssueStep
  <2>3. users' \in [Ids -> User] /\ social' \in [Uids -> Ids \cup {0}] /\ UsersMove
    BY <1>1, <2>1 DEF RegisterInv, TypeOK, Request, UsersMove, IsLeast, FreeIds
  <2>4. SocialStep
    BY <1>2, <2>1, AccountsAssumption DEF CommitCreate, CreateRefused, SocialStep
  <2>5. Finish(w) /\ UNCHANGED <<sealed, nonces, codes, links>>
    BY <1>2 DEF CommitCreate
  <2>6. sealed' \subseteq Phones /\ nonces' \in [Nonces -> Nat] /\ VerificationTypeOK'
    BY <2>5 DEF RegisterInv, TypeOK, VerificationTypeOK
  <2> QED
    BY <2>2, <2>3, <2>4, <2>5, <2>6, FinishKeeps
<1>3. CASE CommitLink(w)
  <2>1. /\ social[req[w].uid] = 0 /\ req[w].op = "link"
        /\ social' = [social EXCEPT ![req[w].uid] = req[w].id]
        /\ Finish(w)
        /\ UNCHANGED <<users, tokens, sealed, nonces, codes, links>>
    BY <1>3 DEF CommitLink, LinkRefused
  <2>2. req[w].id \in Ids /\ req[w].uid \in Uids
    BY <1>1, <2>1 DEF RequestOK, OfAccount
  <2>3. TokensStep
    BY <2>1, SameTokens
  <2>4. social' \in [Uids -> Ids \cup {0}] /\ SocialStep
    BY <2>1, <2>2 DEF RegisterInv, TypeOK, SocialStep
  <2>5. /\ users' \in [Ids -> User] /\ sealed' \subseteq Phones /\ UsersMove
        /\ nonces' \in [Nonces -> Nat] /\ VerificationTypeOK'
    BY <2>1 DEF RegisterInv, TypeOK, VerificationTypeOK, UsersMove
  <2> QED
    BY <2>1, <2>3, <2>4, <2>5, FinishKeeps
<1> QED
  BY <1>2, <1>3

(* Commits that change an account and its sessions.                        *)
LEMMA AccountCommits ==
    ASSUME RegisterInv, NEW w \in Workers,
           CommitIssue(w) \/ CommitRotate(w) \/ CommitRevoke(w) \/ CommitUpdate(w)
    PROVE  RegisterInv' /\ TokensStep /\ SocialStep
<1>1. req[w] \in Request /\ RequestOK(req[w])
  BY DEF RegisterInv, TypeOK
<1>2. req[w].id \in Ids
  BY <1>1 DEF RequestOK, OfAccount, CommitIssue, CommitRotate, CommitRevoke, CommitUpdate
<1>3. UNCHANGED <<social, sealed, codes, links>> /\ Finish(w)
  BY DEF CommitIssue, CommitRotate, CommitRevoke, CommitUpdate
<1>4. /\ SocialStep /\ social' \in [Uids -> Ids \cup {0}]
      /\ sealed' \subseteq Phones /\ VerificationTypeOK'
  BY <1>3 DEF SocialStep, RegisterInv, TypeOK, VerificationTypeOK
<1>5. CASE CommitIssue(w)
  <2>1. PICK j \in Jtis : Issue(req[w].id, j)
    BY <1>5 DEF CommitIssue
  <2>2. TokensStep
    BY <1>2, <2>1, IssueStep
  <2>3. users' \in [Ids -> User] /\ UsersMove
    BY <1>2, <1>5, UsersUpdated DEF CommitIssue
  <2>4. nonces' \in [Nonces -> Nat]
    BY <1>5 DEF CommitIssue, RegisterInv, TypeOK
  <2> QED
    BY <1>3, <1>4, <2>2, <2>3, <2>4, FinishKeeps
<1>6. CASE CommitRotate(w)
  <2>1. PICK j \in Jtis : Rotate(req[w].id, req[w].jti, j)
    BY <1>6 DEF CommitRotate
  <2>2. /\ req[w].jti \in Jtis
        /\ tokens[req[w].jti].user_id = req[w].id
        /\ tokens[req[w].jti].status \in {"live", "revoked"}
    <3>1. req[w].op = "rotate" /\ tokens[req[w].jti].status # "deleted"
      BY <1>6 DEF CommitRotate, UpdateRefused
    <3>2. req[w].jti \in Jtis /\ tokens[req[w].jti].status # "none"
      BY <1>1, <3>1 DEF RequestOK
    <3>3. tokens[req[w].jti] \in RefreshToken
      BY <3>2 DEF RegisterInv, TypeOK
    <3> QED
      BY <1>1, <3>1, <3>2, <3>3 DEF RequestOK, RefreshToken
  <2>3. TokensStep
    BY <1>2, <2>1, <2>2, RotateStep
  <2>4. users' \in [Ids -> User] /\ nonces' \in [Nonces -> Nat] /\ UsersMove
    BY <1>6 DEF CommitRotate, RegisterInv, TypeOK, UsersMove
  <2> QED
    BY <1>3, <1>4, <2>3, <2>4, FinishKeeps
<1>7. CASE CommitRevoke(w)
  <2>1. TokensStep
    BY <1>2, <1>7, RevokeAllStep DEF CommitRevoke
  <2>2. users' \in [Ids -> User] /\ UsersMove
    BY <1>2, <1>7, UsersUpdated DEF CommitRevoke
  <2>3. nonces' \in [Nonces -> Nat]
    BY <1>7 DEF CommitRevoke, RegisterInv, TypeOK
  <2> QED
    BY <1>3, <1>4, <2>1, <2>2, <2>3, FinishKeeps
<1>8. CASE CommitUpdate(w)
  <2>1. TokensStep
    BY <1>8, SameTokens DEF CommitUpdate
  <2>2. users' \in [Ids -> User] /\ UsersMove
    BY <1>2, <1>8, UsersUpdated DEF CommitUpdate
  <2>3. nonces' \in [Nonces -> Nat]
    BY <1>8 DEF CommitUpdate, RegisterInv, TypeOK
  <2> QED
    BY <1>3, <1>4, <2>1, <2>2, <2>3, FinishKeeps
<1> QED
  BY <1>5, <1>6, <1>7, <1>8

(* The purge deletes accounts with what refers to them.                    *)
LEMMA PurgeCommits ==
    ASSUME RegisterInv, NEW w \in Workers, CommitPurge(w)
    PROVE  RegisterInv' /\ TokensStep /\ SocialStep
<1>1. req[w] \in Request
  BY DEF RegisterInv, TypeOK
<1>2. /\ ~PurgeRefused(req[w])
      /\ sealed' = sealed \cup {users[i].phone : i \in req[w].seals}
      /\ users' = [i \in Ids |-> IF i \in req[w].batch /\ Present(i)
                                 THEN [users[i] EXCEPT !.state = "deleted"] ELSE users[i]]
      /\ tokens' = [j \in Jtis |-> IF tokens[j].user_id \in req[w].batch
                                      /\ tokens[j].status \in {"live", "revoked"}
                                   THEN [tokens[j] EXCEPT !.status = "deleted"]
                                   ELSE tokens[j]]
      /\ social' = [u \in Uids |-> IF social[u] \in req[w].batch THEN 0 ELSE social[u]]
      /\ Finish(w)
      /\ UNCHANGED <<nonces, codes, links>>
  BY DEF CommitPurge
<1> DEFINE S == {j \in Jtis : /\ tokens[j].user_id \in req[w].batch
                              /\ tokens[j].status \in {"live", "revoked"}}
<1>3. tokens' = [j \in Jtis |-> IF j \in S THEN [tokens[j] EXCEPT !.status = "deleted"]
                                           ELSE tokens[j]]
  BY <1>2
<1>4. S \in SUBSET Jtis /\ \A j \in S : tokens[j].status \in {"live", "revoked"}
  OBVIOUS
<1> HIDE DEF S
<1>5. TokensStep
  BY <1>3, <1>4, EndStep
<1>6. users' \in [Ids -> User] /\ UsersMove
  <2>1. \A i \in Ids : /\ [users[i] EXCEPT !.state = "deleted"] \in User
                       /\ [users[i] EXCEPT !.state = "deleted"].state = "deleted"
                       /\ [users[i] EXCEPT !.state = "deleted"].phone = users[i].phone
    BY DEF RegisterInv, TypeOK, User
  <2> QED
    BY <1>2, <2>1 DEF RegisterInv, TypeOK, UsersMove
<1>7. social' \in [Uids -> Ids \cup {0}] /\ SocialStep
  BY <1>2 DEF RegisterInv, TypeOK, SocialStep
<1>8. nonces' \in [Nonces -> Nat] /\ VerificationTypeOK'
  BY <1>2 DEF RegisterInv, TypeOK, VerificationTypeOK
<1>9. sealed' \subseteq Phones
  <2>1. \A i \in req[w].seals : users[i].phone \in Phones
    BY DEF RegisterInv, RequestOK
  <2> QED
    BY <1>2, <2>1 DEF RegisterInv, TypeOK
<1> QED
  BY <1>2, <1>5, <1>6, <1>7, <1>8, <1>9, FinishKeeps

(* Codes and links that are written stay well typed.                       *)
LEMMA VerificationCommits ==
    ASSUME RegisterInv, NEW w \in Workers, CommitVerification(w)
    PROVE  RegisterInv' /\ TokensStep /\ SocialStep
<1> DEFINE r == req[w]
<1>1. r \in Request /\ now \in Nat
  BY DEF RegisterInv, TypeOK
<1>2. Finish(w) /\ UNCHANGED <<users, tokens, social, sealed, nonces>>
  BY DEF CommitVerification
<1>3. TokensStep
  BY <1>2, SameTokens
<1>4. /\ users' \in [Ids -> User] /\ UsersMove /\ sealed' \subseteq Phones
      /\ social' \in [Uids -> Ids \cup {0}] /\ SocialStep /\ nonces' \in [Nonces -> Nat]
  BY <1>2 DEF RegisterInv, TypeOK, UsersMove, SocialStep
<1>5. codes \in [CodeIds -> PhoneVerificationToken] /\ links \in [LinkIds -> EmailVerificationToken]
  BY DEF RegisterInv, TypeOK, VerificationTypeOK
<1>6. VerificationTypeOK'
  <2>1. CASE NewCode(r.write.phone, now) /\ UNCHANGED links
    <3> DEFINE row == [NoCode EXCEPT !.phone = r.write.phone,
                                     !.expires_at = now + PHONE_VERIFICATION_TTL]
    <3>1. r.write.phone \in Phones \cup {None}
      BY <1>1 DEF Request, User
    <3>2. now + PHONE_VERIFICATION_TTL \in Nat
      BY <1>1, VerificationAssumption
    <3>3. row \in PhoneVerificationToken
      BY <3>1, <3>2 DEF NoCode, PhoneVerificationToken
    <3>4. codes' = [codes EXCEPT ![Least(UnusedCodes)] = row]
      BY <2>1 DEF NewCode
    <3> HIDE DEF row
    <3> QED
      BY <1>5, <2>1, <3>3, <3>4 DEF VerificationTypeOK
  <2>2. CASE Guessed(r.code, r.attempts, r.right) /\ UNCHANGED links
    <3>1. r.attempts + 1 \in Nat
      BY <1>1 DEF Request
    <3> DEFINE right == [codes[r.code] EXCEPT !.verified = TRUE]
               wrong == [codes[r.code] EXCEPT !.attempts = r.attempts + 1,
                                              !.guesses = codes[r.code].guesses + 1]
    <3>2. codes' = [codes EXCEPT ![r.code] = IF r.right THEN right ELSE wrong]
      BY <2>2 DEF Guessed
    <3>3. r.code \in CodeIds => right \in PhoneVerificationToken
      BY <1>5 DEF PhoneVerificationToken
    <3>4. r.code \in CodeIds => wrong \in PhoneVerificationToken
      <4>1. r.code \in CodeIds => codes[r.code].guesses + 1 \in Nat
        BY <1>5 DEF PhoneVerificationToken
      <4> DEFINE tries == r.attempts + 1
                 more == codes[r.code].guesses + 1
      <4> HIDE DEF tries, more
      <4>2. r.code \in CodeIds /\ tries \in Nat /\ more \in Nat =>
              [codes[r.code] EXCEPT !.attempts = tries, !.guesses = more]
                  \in PhoneVerificationToken
        BY <1>5 DEF PhoneVerificationToken
      <4> QED
        BY <3>1, <4>1, <4>2 DEF tries, more
    <3>5. codes' \in [CodeIds -> PhoneVerificationToken]
      <4> DEFINE new == IF r.right THEN right ELSE wrong
      <4>1. r.code \in CodeIds => new \in PhoneVerificationToken
        BY <3>3, <3>4
      <4> HIDE DEF new
      <4>2. [codes EXCEPT ![r.code] = new] \in [CodeIds -> PhoneVerificationToken]
        BY <1>5, <4>1
      <4> QED
        BY <3>2, <4>2 DEF new
    <3> QED
      BY <1>5, <2>2, <3>5 DEF VerificationTypeOK
  <2>3. CASE NewLink(r.write.email, now) /\ UNCHANGED codes
    <3> DEFINE row == [NoLink EXCEPT !.email = r.write.email,
                                     !.expires_at = now + EMAIL_VERIFICATION_TTL]
    <3>1. r.write.email \in Emails \cup {None}
      BY <1>1 DEF Request, User
    <3>2. now + EMAIL_VERIFICATION_TTL \in Nat
      BY <1>1, VerificationAssumption
    <3>3. row \in EmailVerificationToken
      BY <3>1, <3>2 DEF NoLink, EmailVerificationToken
    <3>4. links' = [links EXCEPT ![Least(UnusedLinks)] = row]
      BY <2>3 DEF NewLink
    <3> HIDE DEF row
    <3> QED
      BY <1>5, <2>3, <3>3, <3>4 DEF VerificationTypeOK
  <2>4. CASE Clicked(r.link) /\ UNCHANGED codes
    <3>1. links' \in [LinkIds -> EmailVerificationToken]
      BY <1>5, <2>4 DEF Clicked, EmailVerificationToken
    <3> QED
      BY <1>5, <2>4, <3>1 DEF VerificationTypeOK
  <2> QED
    BY <2>1, <2>2, <2>3, <2>4 DEF CommitVerification
<1> QED
  BY <1>2, <1>3, <1>4, <1>6, FinishKeeps

-----------------------------------------------------------------------------
(* The theorems.                                                           *)

(* Steps that are not part of a request in flight.                         *)
LEMMA SingleSteps ==
    ASSUME RegisterInv, NEW w \in Workers,
           (\E j \in Jtis : logout(w, j)) \/ purge_expired_tokens(w)
    PROVE  RegisterInv' /\ TokensStep /\ SocialStep
<1>1. /\ TokensStep /\ VerificationTypeOK' /\ nonces' \in [Nonces -> Nat]
      /\ UNCHANGED <<now, users, social, sealed, mix, pc, req>>
  <2>1. ASSUME NEW j \in Jtis, logout(w, j)
        PROVE  /\ TokensStep /\ VerificationTypeOK' /\ nonces' \in [Nonces -> Nat]
               /\ UNCHANGED <<now, users, social, sealed, mix, pc, req>>
    <3>1. tokens' = [k \in Jtis |-> IF k \in {j}
                                    THEN [tokens[k] EXCEPT !.status = "revoked"]
                                    ELSE tokens[k]]
      BY <2>1 DEF logout, RegisterInv, TypeOK
    <3>2. {j} \in SUBSET Jtis /\ \A k \in {j} : tokens[k].status \in {"live", "revoked"}
      BY <2>1 DEF logout
    <3>3. TokensStep
      BY <3>1, <3>2, EndStep
    <3>4. UNCHANGED <<now, users, social, sealed, nonces, codes, links, mix, pc, req>>
      BY <2>1 DEF logout
    <3> QED
      BY <3>3, <3>4 DEF RegisterInv, TypeOK, VerificationTypeOK
  <2>2. ASSUME purge_expired_tokens(w)
        PROVE  /\ TokensStep /\ VerificationTypeOK' /\ nonces' \in [Nonces -> Nat]
               /\ UNCHANGED <<now, users, social, sealed, mix, pc, req>>
    <3> DEFINE S == {j \in Jtis : /\ tokens[j].status \in {"live", "revoked"}
                                  /\ tokens[j].expires_at <= now}
    <3>1. tokens' = [j \in Jtis |-> IF j \in S THEN [tokens[j] EXCEPT !.status = "deleted"]
                                               ELSE tokens[j]]
      BY <2>2 DEF purge_expired_tokens
    <3>2. S \in SUBSET Jtis /\ \A j \in S : tokens[j].status \in {"live", "revoked"}
      OBVIOUS
    <3> HIDE DEF S
    <3>3. TokensStep
      BY <3>1, <3>2, EndStep
    <3>4. links' \in [LinkIds -> EmailVerificationToken]
      <4>1. \A k \in LinkIds :
                [links[k] EXCEPT !.email = None, !.verified = FALSE] \in EmailVerificationToken
        BY DEF RegisterInv, TypeOK, VerificationTypeOK, EmailVerificationToken
      <4>2. links \in [LinkIds -> EmailVerificationToken]
        BY DEF RegisterInv, TypeOK, VerificationTypeOK
      <4> QED
        BY <2>2, <4>1, <4>2 DEF purge_expired_tokens, LinksPurged
    <3>5. nonces' \in [Nonces -> Nat]
      BY <2>2 DEF purge_expired_tokens, RegisterInv, TypeOK, Never
    <3>6. UNCHANGED <<now, users, social, sealed, codes, mix, pc, req>>
      BY <2>2 DEF purge_expired_tokens
    <3> QED
      BY <3>3, <3>4, <3>5, <3>6 DEF RegisterInv, TypeOK, VerificationTypeOK
  <2> QED
    BY <2>1, <2>2
<1>2. TypeOK'
  BY <1>1 DEF RegisterInv, TypeOK, TokensStep
<1>3. \A v \in Workers : RequestOK(req[v])'
  BY <1>1 DEF RegisterInv, TypeOK, RequestOK, TokensStep, TokensMove
<1>4. SocialStep
  BY <1>1 DEF SocialStep
<1> QED
  BY <1>1, <1>2, <1>3, <1>4 DEF RegisterInv, TokensStep

(* The invariant holds at the start, and the register is empty.            *)
LEMMA RegisterInit == Init => RegisterInv /\ Register!Init
<1> SUFFICES ASSUME Init
             PROVE  RegisterInv /\ Register!Init
  OBVIOUS
<1>1. NoCode \in PhoneVerificationToken /\ NoLink \in EmailVerificationToken
  BY DEF NoCode, NoLink, PhoneVerificationToken, EmailVerificationToken, Never
<1>2. TypeOK
  BY <1>1, NoUserType, NoTokenType, NoRequestType, AccountsAssumption
     DEF Init, TypeOK, VerificationInit, VerificationTypeOK, Never
<1>3. \A j \in Jtis : tokens[j].status = "none" /\ tokens[j].user_id = 0
  BY DEF Init, NoToken
<1>4. \A w \in Workers : RequestOK(req[w])
  BY DEF Init, RequestOK, NoRequest, OfAccount
<1>5. Register!Init
  BY <1>3 DEF Register!Init
<1> QED
  BY <1>2, <1>3, <1>4, <1>5 DEF RegisterInv

(* Every step keeps the invariant, is a step of the register or leaves it  *)
(* alone, and moves no identity.                                           *)
LEMMA RegisterNext == RegisterInv /\ [Next]_vars => RegisterInv' /\ TokensStep /\ SocialStep
<1> SUFFICES ASSUME RegisterInv, [Next]_vars
             PROVE  RegisterInv' /\ TokensStep /\ SocialStep
  OBVIOUS
<1>1. CASE UNCHANGED vars
  <2>1. UNCHANGED <<now, users, tokens, social, sealed, nonces, codes, links, mix, pc, req>>
    BY <1>1 DEF vars, dbVars
  <2>2. TokensStep /\ SocialStep
    BY <2>1, SameTokens DEF SocialStep
  <2> QED
    BY <2>1, <2>2 DEF RegisterInv, TypeOK, VerificationTypeOK, RequestOK
<1>2. CASE Tick
  <2>1. /\ UNCHANGED <<users, tokens, social, sealed, nonces, codes, links, mix, pc, req>>
        /\ now' = now + 1
    BY <1>2 DEF Tick, dbVars
  <2>2. TokensStep /\ SocialStep
    BY <2>1, SameTokens DEF SocialStep
  <2>3. now' \in Nat
    BY <2>1 DEF RegisterInv, TypeOK
  <2> QED
    BY <2>1, <2>2, <2>3 DEF RegisterInv, TypeOK, VerificationTypeOK, RequestOK
<1>3. ASSUME NEW w \in Workers, Commit(w)
      PROVE  RegisterInv' /\ TokensStep /\ SocialStep
  BY <1>3, SocialCommits, AccountCommits, PurgeCommits, VerificationCommits DEF Commit
<1>4. ASSUME NEW w \in Workers, RolledBack(w)
      PROVE  RegisterInv' /\ TokensStep /\ SocialStep
  <2>1. Finish(w) /\ UNCHANGED <<users, tokens, social, sealed, nonces, codes, links>>
    BY <1>4 DEF RolledBack, dbVars
  <2>2. TokensStep /\ SocialStep /\ UsersMove
    BY <2>1, SameTokens DEF SocialStep, UsersMove
  <2>3. /\ users' \in [Ids -> User] /\ social' \in [Uids -> Ids \cup {0}]
        /\ sealed' \subseteq Phones /\ nonces' \in [Nonces -> Nat] /\ VerificationTypeOK'
    BY <2>1 DEF RegisterInv, TypeOK, VerificationTypeOK
  <2> QED
    BY <2>1, <2>2, <2>3, FinishKeeps
<1>5. ASSUME NEW w \in Workers, Call(w) \/ Job(w)
      PROVE  RegisterInv' /\ TokensStep /\ SocialStep
  <2>1. CASE (\E j \in Jtis : logout(w, j)) \/ purge_expired_tokens(w)
    BY <2>1, SingleSteps
  <2>2. CASE ~((\E j \in Jtis : logout(w, j)) \/ purge_expired_tokens(w))
    <3>1. RegisterInv'
      BY <1>5, <2>2, SignUpStarts, AccountStarts, SessionStarts, OtherStarts
         DEF Call, Job
    <3>2. UNCHANGED <<tokens, social>>
      BY <1>5, <2>2 DEF Call, Job, signup, guest_login, complete_social_signup,
         login_failed, login, reset_password, withdraw, cancel_withdrawal,
         record_sanction, emergency_suspend, rotate_refresh_token, social_login,
         link_social_account, request_phone_verification, verify_phone_code,
         request_email_verification, verify_email_token, purge_deactivated, Start, dbVars
    <3> QED
      BY <3>1, <3>2, SameTokens DEF SocialStep
  <2> QED
    BY <2>1, <2>2
<1> QED
  BY <1>1, <1>2, <1>3, <1>4, <1>5 DEF Next

(* Every reachable state is well typed, and a token that was issued has an *)
(* account of the system as its owner.                                     *)
THEOREM AccountsTyped == Spec => []TypeOK
<1>1. RegisterInv => TypeOK
  BY DEF RegisterInv
<1> QED
  BY <1>1, RegisterInit, RegisterNext, PTL DEF Spec

(* The refresh tokens of the service implement the token register: no      *)
(* overlap of requests revives a token or hands it to another account.     *)
THEOREM TokensImplementRegister == Spec => Registered
<1>1. RegisterInv /\ [Next]_vars
          => [Register!Next]_(<<[j \in Jtis |-> tokens[j].status],
                                [j \in Jtis |-> tokens[j].user_id]>>)
  BY RegisterNext DEF TokensStep
<1> QED
  BY <1>1, RegisterInit, RegisterNext, PTL DEF Spec, Registered, Register!Spec

(* A linked social identity never moves to another account.                *)
THEOREM LinksNeverMove == Spec => LinkNeverMoves
<1>1. RegisterInv /\ [Next]_vars
          => [\A u \in Uids : social[u] # 0 => social'[u] \in {social[u], 0}]_vars
  BY RegisterNext DEF SocialStep
<1> QED
  BY <1>1, RegisterInit, RegisterNext, PTL DEF Spec, LinkNeverMoves

-----------------------------------------------------------------------------
(* Nothing survives its account.                                           *)

(* A request that creates an account wants to leave its row in place.      *)
Creations == \A w \in Workers : req[w].op \in Creating => req[w].write.state = "present"

(* Starting such a request keeps the others as they were.                  *)
LEMMA CreationsStart ==
    ASSUME RegisterInv, Creations, NEW w \in Workers, NEW op, NEW r, Start(w, op, r),
           r.op \in Creating => r.write.state = "present"
    PROVE  Creations'
BY DEF Creations, Start, RegisterInv, TypeOK

(* Whoever starts a request that creates fills the row in, and whoever     *)
(* ends one forgets it.                                                    *)
LEMMA CreationsNext ==
    RegisterInv /\ Creations /\ [Next]_vars => Creations'
<1> SUFFICES ASSUME RegisterInv, Creations, [Next]_vars
             PROVE  Creations'
  OBVIOUS
<1>1. CASE UNCHANGED vars \/ Tick
  BY <1>1 DEF vars, Tick, Creations
<1>2. ASSUME NEW w \in Workers, Commit(w) \/ RolledBack(w)
      PROVE  Creations'
  <2>1. Finish(w)
    BY <1>2 DEF Commit, RolledBack, CommitCreate, CommitIssue, CommitRotate, CommitRevoke,
       CommitUpdate, CommitLink, CommitPurge, CommitVerification
  <2>2. req' = [req EXCEPT ![w] = NoRequest] /\ NoRequest.op \notin Creating
    BY <2>1 DEF Finish, NoRequest, Creating
  <2> QED
    BY <2>2 DEF Creations, RegisterInv, TypeOK
<1>3. ASSUME NEW w \in Workers, Call(w) \/ Job(w)
      PROVE  Creations'
  <2>1. ASSUME NEW e, NEW p, signup(w, e, p)
        PROVE  Creations'
    BY <2>1, CreationsStart DEF signup, NoRequest, Created, NoUser
  <2>2. ASSUME NEW u, NEW p, complete_social_signup(w, u, p)
        PROVE  Creations'
    BY <2>2, CreationsStart DEF complete_social_signup, NoRequest, Created, NoUser
  <2>3. CASE guest_login(w)
    BY <2>3, CreationsStart DEF guest_login, NoRequest, Created, NoUser
  <2>4. ASSUME NEW id \in Ids,
               \/ login_failed(w, id) \/ login(w, id) \/ reset_password(w, id)
               \/ withdraw(w, id) \/ cancel_withdrawal(w, id)
               \/ record_sanction(w, id) \/ emergency_suspend(w, id)
        PROVE  Creations'
    BY <2>4, CreationsStart
       DEF login_failed, login, reset_password, withdraw, cancel_withdrawal,
           record_sanction, emergency_suspend, About, NoRequest, Creating
  <2>5. ASSUME NEW j \in Jtis, rotate_refresh_token(w, j)
        PROVE  Creations'
    BY <2>5, CreationsStart DEF rotate_refresh_token, About, NoRequest, Creating
  <2>6. CASE (\E j \in Jtis : logout(w, j)) \/ purge_expired_tokens(w)
    BY <2>6 DEF logout, purge_expired_tokens, Creations
  <2>7. ASSUME NEW u \in Uids, NEW n \in Nonces, social_login(w, u, n)
        PROVE  Creations'
    BY <2>7, CreationsStart DEF social_login, About, NoRequest, Creating
  <2>8. ASSUME NEW u \in Uids, NEW id \in Ids, link_social_account(w, id, u)
        PROVE  Creations'
    BY <2>8, CreationsStart DEF link_social_account, About, NoRequest, Creating
  <2>9. ASSUME NEW p \in Phones, request_phone_verification(w, p)
        PROVE  Creations'
    BY <2>9, CreationsStart DEF request_phone_verification, NoRequest, Creating
  <2>10. ASSUME NEW p \in Phones, NEW c \in CodeIds, NEW right \in BOOLEAN,
                verify_phone_code(w, p, c, right)
         PROVE  Creations'
    BY <2>10, CreationsStart DEF verify_phone_code, NoRequest, Creating
  <2>11. ASSUME NEW e \in Emails, request_email_verification(w, e)
         PROVE  Creations'
    BY <2>11, CreationsStart DEF request_email_verification, NoRequest, Creating
  <2>12. ASSUME NEW k \in LinkIds, verify_email_token(w, k)
         PROVE  Creations'
    BY <2>12, CreationsStart DEF verify_email_token, NoRequest, Creating
  <2>13. CASE purge_deactivated(w)
    BY <2>13, CreationsStart DEF purge_deactivated, NoRequest, Creating
  <2> QED
    BY <1>3, <2>1, <2>2, <2>3, <2>4, <2>5, <2>6, <2>7, <2>8, <2>9, <2>10, <2>11, <2>12,
       <2>13 DEF Call, Job
<1> QED
  BY <1>1, <1>2, <1>3 DEF Next

(* Nothing is orphaned by a step that removes no account and gives new     *)
(* tokens and links to accounts that are there.                            *)
LEMMA OrphansKept ==
    ASSUME RegisterInv, NoOrphans,
           \A id \in Ids : users[id].state = "present" => users'[id].state = "present",
           \A j \in Jtis : tokens'[j].status \in {"live", "revoked"} =>
               \/ /\ tokens[j].status \in {"live", "revoked"}
                  /\ tokens'[j].user_id = tokens[j].user_id
               \/ users'[tokens'[j].user_id].state = "present",
           \A u \in Uids : social'[u] # 0 =>
               social'[u] = social[u] \/ users'[social'[u]].state = "present"
    PROVE  NoOrphans'
<1>1. \A j \in Jtis : tokens[j].status \in {"live", "revoked"} =>
          tokens[j].user_id \in Ids /\ users[tokens[j].user_id].state = "present"
  BY DEF NoOrphans, Present, RegisterInv
<1>2. \A u \in Uids : social[u] # 0 => social[u] \in Ids /\ users[social[u]].state = "present"
  BY DEF NoOrphans, Present, RegisterInv, TypeOK
<1> QED
  BY <1>1, <1>2 DEF NoOrphans, Present

(* A written row keeps the state of the account.                           *)
LEMMA StateKept ==
    ASSUME RegisterInv, NEW w \in Workers, NEW id \in Ids,
           users' = [users EXCEPT ![id] = Updated(@, req[w].read, req[w].write)]
    PROVE  \A i \in Ids : users'[i].state = users[i].state
<1>1. users[id] \in User
  BY DEF RegisterInv, TypeOK
<1>2. Updated(users[id], req[w].read, req[w].write).state = users[id].state
  BY <1>1 DEF Updated, User
<1> QED
  BY <1>2 DEF RegisterInv, TypeOK

(* No step orphans a token or an identity.                                 *)
LEMMA OrphansNext ==
    RegisterInv /\ Creations /\ NoOrphans /\ [Next]_vars => NoOrphans'
<1> SUFFICES ASSUME RegisterInv, Creations, NoOrphans, [Next]_vars
             PROVE  NoOrphans'
  OBVIOUS
<1>1. CASE UNCHANGED <<users, tokens, social>>
  BY <1>1, OrphansKept
<1>2. ASSUME NEW w \in Workers, CommitCreate(w)
      PROVE  NoOrphans'
  <2>1. PICK id \in Ids, j \in Jtis :
            /\ IsLeast(id, FreeIds)
            /\ users' = [users EXCEPT ![id] = req[w].write]
            /\ social' = [u \in Uids |-> IF u = req[w].uid THEN id ELSE social[u]]
            /\ Issue(id, j)
    BY <1>2 DEF CommitCreate
  <2>2. req[w].write.state = "present"
    BY <1>2 DEF CommitCreate, Creations
  <2>3. /\ users'[id].state = "present"
        /\ \A i \in Ids : users[i].state = "present" => users'[i].state = "present"
    BY <2>1, <2>2 DEF RegisterInv, TypeOK
  <2>4. tokens' = [tokens EXCEPT ![j] = Token(id, j)] /\ Token(id, j).user_id = id
    BY <2>1 DEF Issue, Token
  <2>5. \A k \in Jtis : tokens'[k] = tokens[k] \/ tokens'[k].user_id = id
    BY <2>4 DEF RegisterInv, TypeOK
  <2>6. \A u \in Uids : social'[u] = social[u] \/ social'[u] = id
    BY <2>1
  <2> QED
    BY <2>3, <2>5, <2>6, OrphansKept
<1>3. ASSUME NEW w \in Workers, CommitIssue(w)
      PROVE  NoOrphans'
  <2>1. PICK j \in Jtis : Issue(req[w].id, j)
    BY <1>3 DEF CommitIssue
  <2>2. req[w].id \in Ids /\ users[req[w].id].state = "present"
    BY <1>3 DEF CommitIssue, UpdateRefused, Present, RegisterInv, RequestOK, OfAccount
  <2>3. \A i \in Ids : users'[i].state = users[i].state
    BY <1>3, <2>2, StateKept DEF CommitIssue
  <2>4. /\ tokens' = [tokens EXCEPT ![j] = Token(req[w].id, j)]
        /\ Token(req[w].id, j).user_id = req[w].id
    BY <2>1 DEF Issue, Token
  <2>5. \A k \in Jtis : tokens'[k] = tokens[k] \/ tokens'[k].user_id = req[w].id
    BY <2>4 DEF RegisterInv, TypeOK
  <2>6. UNCHANGED social
    BY <1>3 DEF CommitIssue
  <2> QED
    BY <2>2, <2>3, <2>5, <2>6, OrphansKept
<1>4. ASSUME NEW w \in Workers, CommitRotate(w)
      PROVE  NoOrphans'
  <2>1. PICK j \in Jtis : Rotate(req[w].id, req[w].jti, j)
    BY <1>4 DEF CommitRotate
  <2>2. /\ req[w].id \in Ids /\ users[req[w].id].state = "present"
        /\ req[w].jti \in Jtis /\ tokens[req[w].jti].status # "deleted"
        /\ tokens[req[w].jti].status # "none"
    BY <1>4 DEF CommitRotate, UpdateRefused, Present, RegisterInv, RequestOK, OfAccount
  <2>3. tokens[req[w].jti] \in RefreshToken
    BY <2>2 DEF RegisterInv, TypeOK
  <2>4. tokens[req[w].jti].status \in {"live", "revoked"}
    BY <2>2, <2>3 DEF RefreshToken
  <2>5. /\ [tokens[req[w].jti] EXCEPT !.status = "revoked"].user_id
                = tokens[req[w].jti].user_id
        /\ Token(req[w].id, tokens[req[w].jti].login).user_id = req[w].id
    BY <2>3 DEF RefreshToken, Token
  <2>6. \A k \in Jtis : \/ tokens'[k] = tokens[k]
                        \/ tokens'[k].user_id = req[w].id
                        \/ k = req[w].jti /\ tokens'[k].user_id = tokens[k].user_id
    BY <2>1, <2>2, <2>5 DEF Rotate, RegisterInv, TypeOK
  <2>7. UNCHANGED <<users, social>>
    BY <1>4 DEF CommitRotate
  <2> QED
    BY <2>2, <2>4, <2>6, <2>7, OrphansKept
<1>5. ASSUME NEW w \in Workers, CommitRevoke(w) \/ CommitUpdate(w)
      PROVE  NoOrphans'
  <2>1. req[w].id \in Ids
    BY <1>5 DEF CommitRevoke, CommitUpdate, RegisterInv, RequestOK, OfAccount
  <2>2. \A i \in Ids : users'[i].state = users[i].state
    BY <1>5, <2>1, StateKept DEF CommitRevoke, CommitUpdate
  <2>3. tokens' = _revoke_all_for_user(req[w].id) \/ UNCHANGED tokens
    BY <1>5 DEF CommitRevoke, CommitUpdate
  <2>4. \A j \in Jtis : /\ tokens'[j].user_id = tokens[j].user_id
                        /\ tokens'[j].status \in {"live", "revoked"}
                               => tokens[j].status \in {"live", "revoked"}
    <3>1. \A j \in Jtis : tokens[j] \in RefreshToken
      BY DEF RegisterInv, TypeOK
    <3>2. \A j \in Jtis : [tokens[j] EXCEPT !.status = "revoked"].user_id = tokens[j].user_id
      BY <3>1 DEF RefreshToken
    <3> QED
      BY <2>3, <3>2 DEF _revoke_all_for_user
  <2>5. UNCHANGED social
    BY <1>5 DEF CommitRevoke, CommitUpdate
  <2> QED
    BY <2>2, <2>4, <2>5, OrphansKept
<1>6. ASSUME NEW w \in Workers, CommitLink(w)
      PROVE  NoOrphans'
  <2>1. users[req[w].id].state = "present"
    BY <1>6 DEF CommitLink, LinkRefused, Present
  <2>2. \A u \in Uids : social'[u] = social[u] \/ social'[u] = req[w].id
    BY <1>6 DEF CommitLink, RegisterInv, TypeOK
  <2>3. UNCHANGED <<users, tokens>>
    BY <1>6 DEF CommitLink
  <2> QED
    BY <2>1, <2>2, <2>3, OrphansKept
<1>7. ASSUME NEW w \in Workers, CommitPurge(w)
      PROVE  NoOrphans'
  <2>1. \A i \in Ids \ req[w].batch : users'[i] = users[i]
    BY <1>7 DEF CommitPurge
  <2>2. \A j \in Jtis : tokens'[j].status \in {"live", "revoked"} =>
            /\ tokens'[j] = tokens[j]
            /\ tokens[j].user_id \in Ids \ req[w].batch
    <3>1. \A j \in Jtis : tokens[j] \in RefreshToken
      BY DEF RegisterInv, TypeOK
    <3>2. \A j \in Jtis : [tokens[j] EXCEPT !.status = "deleted"].status = "deleted"
      BY <3>1 DEF RefreshToken
    <3> QED
      BY <1>7, <3>2 DEF CommitPurge, RegisterInv
  <2>3. \A u \in Uids : social'[u] # 0 =>
            social'[u] = social[u] /\ social[u] \in Ids \ req[w].batch
    BY <1>7 DEF CommitPurge, RegisterInv, TypeOK
  <2> QED
    BY <2>1, <2>2, <2>3 DEF NoOrphans, Present
<1>8. ASSUME NEW w \in Workers, CommitVerification(w) \/ RolledBack(w)
      PROVE  NoOrphans'
  BY <1>1, <1>8 DEF CommitVerification, RolledBack, dbVars
<1>9. ASSUME NEW w \in Workers, Call(w) \/ Job(w)
      PROVE  NoOrphans'
  <2>1. CASE (\E j \in Jtis : logout(w, j)) \/ purge_expired_tokens(w)
    <3>1. \A j \in Jtis : tokens[j] \in RefreshToken
      BY DEF RegisterInv, TypeOK
    <3>2. \A j \in Jtis : /\ tokens'[j].user_id = tokens[j].user_id
                          /\ tokens'[j].status \in {"live", "revoked"}
                                 => tokens[j].status \in {"live", "revoked"}
      BY <2>1, <3>1 DEF logout, purge_expired_tokens, RefreshToken, RegisterInv, TypeOK
    <3>3. UNCHANGED <<users, social>>
      BY <2>1 DEF logout, purge_expired_tokens
    <3> QED
      BY <3>2, <3>3, OrphansKept
  <2>2. CASE ~((\E j \in Jtis : logout(w, j)) \/ purge_expired_tokens(w))
    <3>1. UNCHANGED <<users, tokens, social>>
      BY <1>9, <2>2 DEF Call, Job, signup, guest_login, complete_social_signup,
         login_failed, login, reset_password, withdraw, cancel_withdrawal,
         record_sanction, emergency_suspend, rotate_refresh_token, social_login,
         link_social_account, request_phone_verification, verify_phone_code,
         request_email_verification, verify_email_token, purge_deactivated, Start, dbVars
    <3> QED
      BY <1>1, <3>1
  <2> QED
    BY <2>1, <2>2
<1>10. CASE UNCHANGED vars \/ Tick
  BY <1>1, <1>10 DEF vars, dbVars, Tick
<1> QED
  BY <1>2, <1>3, <1>4, <1>5, <1>6, <1>7, <1>8, <1>9, <1>10 DEF Next, Commit

(* No token that can be presented and no linked identity belongs to an     *)
(* account that is gone, whatever overlaps its deletion.                   *)
THEOREM NothingOrphaned == Spec => []NoOrphans
<1>1. Init => Creations /\ NoOrphans
  <2>1. NoRequest.op \notin Creating /\ NoToken.status = "none"
    BY DEF NoRequest, Creating, NoToken
  <2> QED
    BY <2>1 DEF Init, Creations, NoOrphans
<1> QED
  BY <1>1, RegisterInit, RegisterNext, CreationsNext, OrphansNext, PTL DEF Spec

-----------------------------------------------------------------------------
(* One request at a time.                                                  *)

(* A lock and a full count of failures go together.                        *)
LockFits(row) ==
    row.locked_until # Never <=> row.failed_login_attempts >= MAX_LOGIN_ATTEMPTS

(* What the request in flight relies on: its row is as read, and what it   *)
(* checked of tokens, phones, accounts and codes is still so.              *)
Fresh(r) ==
    /\ r.op \in OfAccount => r.read = users[r.id] /\ LockFits(r.write)
    /\ r.op \in OfAccount \ {"withdraw"} => r.write.purge_at \in {r.read.purge_at, Never}
    /\ r.op \in OfAccount \ {"cancel"} => (r.write.is_active => r.read.is_active)
    /\ r.op = "cancel" => r.read.purge_at # Never
    /\ r.op \in {"login", "social", "rotate", "withdraw"} => r.read.is_active
    /\ r.op \in {"login", "cancel", "social"} => r.write.purge_at = Never
    /\ r.op = "rotate" => users[r.id].purge_at = Never /\ tokens[r.jti].status = "live"
    /\ r.op \in Creating =>
           /\ r.write.purge_at = Never /\ LockFits(r.write)
           /\ r.write.phone # None =>
                  r.write.phone \notin sealed /\ ~is_phone_taken(r.write.phone)
    /\ r.op = "purge" =>
           /\ \A i \in r.batch : Present(i) /\ users[i].purge_at # Never
           /\ r.seals = {i \in r.batch : _seal_sanction_if_needed(i)}
    /\ r.op = "verify_code" =>
           /\ r.code \in CodeIds
           /\ r.attempts = codes[r.code].attempts /\ r.attempts < MAX_CODE_ATTEMPTS

Locks == \A id \in Ids : LockFits(users[id])

(* The login a token descends from was a token itself.                     *)
LoginsIssued ==
    \A k \in Jtis : tokens[k].status # "none" =>
        tokens[k].login \in Jtis /\ tokens[tokens[k].login].status # "none"

LiveOnce ==
    \A j, k \in Jtis :
        /\ tokens[j].status = "live" /\ tokens[k].status = "live"
        /\ tokens[j].login = tokens[k].login
        => j = k

NoSession ==
    \A id \in Ids : Present(id) /\ users[id].purge_at # Never =>
        \A j \in Jtis : tokens[j].user_id = id => tokens[j].status # "live"

PhonesApart ==
    \A id \in Ids : Present(id) /\ users[id].phone # None =>
        /\ users[id].phone \notin sealed
        /\ \A k \in Ids : Present(k) /\ users[k].phone = users[id].phone => k = id

Seals ==
    \A id \in Ids :
        /\ users[id].state = "deleted" /\ users[id].is_sanctioned
        /\ users[id].phone # None
        => users[id].phone \in sealed

Counts ==
    \A c \in CodeIds :
        codes[c].guesses = codes[c].attempts /\ codes[c].guesses <= MAX_CODE_ATTEMPTS

DataInv == /\ Locks /\ LoginsIssued /\ LiveOnce /\ NoSession
           /\ PhonesApart /\ Seals /\ Counts

(* At most one request is in flight, and it is fresh.                      *)
OneFresh ==
    /\ \A v, w \in Workers : pc[v] = "commit" /\ pc[w] = "commit" => v = w
    /\ \A w \in Workers : pc[w] = "commit" => Fresh(req[w])

SerialInv == mix.serial => OneFresh /\ DataInv

-----------------------------------------------------------------------------
(* Starting a request.                                                     *)

(* A fresh request that starts alone stays fresh: it changes no row.       *)
LEMMA FreshStart ==
    ASSUME RegisterInv, SerialInv, mix.serial, NEW w \in Workers, NEW op, NEW r,
           Start(w, op, r), Fresh(r)
    PROVE  OneFresh' /\ DataInv'
<1>1. /\ req' = [req EXCEPT ![w] = r]
      /\ pc' = [pc EXCEPT ![w] = "commit"]
      /\ UNCHANGED <<now, users, tokens, social, sealed, nonces, codes, links, mix>>
      /\ \A v \in Workers : pc[v] = "idle"
  BY DEF Start, Ready, dbVars
<1>2. DataInv'
  BY <1>1 DEF SerialInv, DataInv, Locks, LockFits, LoginsIssued, LiveOnce, NoSession,
     PhonesApart, Seals, Counts, Present
<1>3. Fresh(r)'
  BY <1>1 DEF Fresh, LockFits, Present, is_phone_taken, _seal_sanction_if_needed
<1>4. /\ \A v \in Workers : pc'[v] = "commit" => v = w
      /\ req'[w] = r
  BY <1>1 DEF RegisterInv, TypeOK
<1>5. OneFresh'
  BY <1>3, <1>4 DEF OneFresh
<1> QED
  BY <1>2, <1>5

(* The row an operation on an account wants to leave, seen from the row it *)
(* has read.                                                               *)
Fits(op, row, new) ==
    /\ LockFits(new)
    /\ op # "withdraw" => new.purge_at \in {row.purge_at, Never}
    /\ op # "cancel" => (new.is_active => row.is_active)
    /\ op = "cancel" => row.purge_at # Never
    /\ op \in {"login", "social", "withdraw"} => row.is_active
    /\ op \in {"login", "cancel", "social"} => new.purge_at = Never

(* An operation on an account starts fresh.                                *)
LEMMA FreshAbout ==
    ASSUME RegisterInv, SerialInv, mix.serial, NEW w \in Workers, NEW call,
           NEW op \in OfAccount \ {"rotate"}, NEW id \in Ids, NEW new \in User,
           Fits(op, users[id], new),
           NEW r, r.op = op, r.id = id, r.read = users[id], r.write = new,
           Start(w, call, r)
    PROVE  OneFresh' /\ DataInv'
<1>1. Fresh(r)
  BY DEF Fresh, Fits, OfAccount, Creating
<1> QED
  BY <1>1, FreshStart

(* What lockout decides keeps lock and count together.                     *)
LEMMA LockoutFits ==
    ASSUME NEW row \in User, now \in Nat
    PROVE  /\ LockFits(WithLockout(row, on_success))
           /\ LockFits(WithLockout(row, on_failure(row.failed_login_attempts,
                                                   row.locked_until, now)))
<1>1. /\ WithLockout(row, on_success).locked_until = 0
      /\ WithLockout(row, on_success).failed_login_attempts = 0
  BY DEF User, WithLockout, on_success, Never
<1> DEFINE s == on_failure(row.failed_login_attempts, row.locked_until, now)
<1>2. /\ s.failed_attempts \in Nat
      /\ s.locked_until = IF s.failed_attempts >= MAX_LOGIN_ATTEMPTS
                          THEN now + LOCKOUT_DURATION ELSE 0
  BY DEF User, on_failure, Never
<1> HIDE DEF s
<1>3. /\ WithLockout(row, s).locked_until = s.locked_until
      /\ WithLockout(row, s).failed_login_attempts = s.failed_attempts
  BY DEF User, WithLockout
<1> QED
  BY <1>1, <1>2, <1>3, LockoutAssumption DEF LockFits, s, Never

(* Every call that starts a request starts a fresh one.                    *)
LEMMA AccountCallsFresh ==
    ASSUME RegisterInv, SerialInv, mix.serial, NEW w \in Workers, NEW id \in Ids,
           \/ login_failed(w, id) \/ login(w, id) \/ reset_password(w, id)
           \/ withdraw(w, id) \/ cancel_withdrawal(w, id)
           \/ record_sanction(w, id) \/ emergency_suspend(w, id)
    PROVE  OneFresh' /\ DataInv'
<1> DEFINE row == users[id]
<1>1. row \in User /\ now \in Nat /\ LockFits(row)
  BY DEF RegisterInv, TypeOK, SerialInv, DataInv, Locks
<1>2. ASSUME NEW op, NEW new
      PROVE  /\ About(op, id, new).op = op /\ About(op, id, new).id = id
             /\ About(op, id, new).read = row /\ About(op, id, new).write = new
  BY DEF About, NoRequest
<1>3. \A s \in LockoutState : /\ WithLockout(row, s) \in User
                              /\ WithLockout(row, s).purge_at = row.purge_at
                              /\ WithLockout(row, s).is_active = row.is_active
  BY <1>1 DEF WithLockout, User, LockoutState
<1>4. on_success \in LockoutState
  BY DEF on_success, LockoutState, Never
<1>5. on_failure(row.failed_login_attempts, row.locked_until, now) \in LockoutState
  <2>1. row.failed_login_attempts \in Nat /\ row.locked_until \in Nat
    BY <1>1 DEF User
  <2> QED
    BY <1>1, <2>1, LockoutAssumption DEF on_failure, LockoutState, Never
<1> HIDE DEF row
<1>6. CASE login_failed(w, id)
  <2> DEFINE new == WithLockout(row, on_failure(row.failed_login_attempts,
                                                row.locked_until, now))
  <2>1. new \in User /\ new.purge_at = row.purge_at /\ new.is_active = row.is_active
    BY <1>3, <1>5
  <2>2. LockFits(new)
    BY <1>1, LockoutFits
  <2>3. Start(w, "login", About("fail", id, new))
    BY <1>6 DEF login_failed, row
  <2> HIDE DEF new
  <2>4. Fits("fail", users[id], new)
    BY <2>1, <2>2 DEF Fits, row
  <2> QED
    BY <1>2, <2>1, <2>3, <2>4, FreshAbout DEF OfAccount, row
<1>7. CASE login(w, id)
  <2> DEFINE new == WithLockout(row, on_success)
  <2>1. new \in User /\ new.purge_at = row.purge_at /\ new.is_active = row.is_active
    BY <1>3, <1>4
  <2>2. LockFits(new)
    BY <1>1, LockoutFits
  <2>3. Start(w, "login", About("login", id, new)) /\ row.purge_at = Never /\ row.is_active
    BY <1>7 DEF login, row, LoginOpen
  <2> HIDE DEF new
  <2>4. Fits("login", users[id], new)
    BY <2>1, <2>2, <2>3 DEF Fits, row
  <2> QED
    BY <1>2, <2>1, <2>3, <2>4, FreshAbout DEF OfAccount, row
<1>8. CASE reset_password(w, id)
  <2> DEFINE new == WithLockout(row, on_success)
  <2>1. new \in User /\ new.purge_at = row.purge_at /\ new.is_active = row.is_active
    BY <1>3, <1>4
  <2>2. LockFits(new)
    BY <1>1, LockoutFits
  <2>3. Start(w, "reset", About("reset", id, new))
    BY <1>8 DEF reset_password, row
  <2> HIDE DEF new
  <2>4. Fits("reset", users[id], new)
    BY <2>1, <2>2 DEF Fits, row
  <2> QED
    BY <1>2, <2>1, <2>3, <2>4, FreshAbout DEF OfAccount, row
<1>9. CASE withdraw(w, id)
  <2> DEFINE new == [row EXCEPT !.purge_at = now + WITHDRAWAL_GRACE, !.is_active = FALSE]
  <2>1. /\ new \in User /\ ~new.is_active
        /\ new.locked_until = row.locked_until
        /\ new.failed_login_attempts = row.failed_login_attempts
    <3>1. now + WITHDRAWAL_GRACE \in Nat
      BY <1>1, AccountsAssumption
    <3> QED
      BY <1>1, <3>1 DEF User
  <2>2. Start(w, "withdraw", About("withdraw", id, new)) /\ row.is_active
    BY <1>9 DEF withdraw, Admitted, row
  <2> HIDE DEF new
  <2>3. Fits("withdraw", users[id], new)
    BY <1>1, <2>1, <2>2 DEF Fits, LockFits, row
  <2> QED
    BY <1>2, <2>1, <2>2, <2>3, FreshAbout DEF OfAccount, row
<1>10. CASE cancel_withdrawal(w, id)
  <2> DEFINE new == [row EXCEPT !.purge_at = Never, !.is_active = TRUE]
  <2>1. /\ new \in User /\ new.purge_at = Never
        /\ new.locked_until = row.locked_until
        /\ new.failed_login_attempts = row.failed_login_attempts
    BY <1>1 DEF User, Never
  <2>2. Start(w, "cancel", About("cancel", id, new)) /\ row.purge_at # Never
    BY <1>10 DEF cancel_withdrawal, row
  <2> HIDE DEF new
  <2>3. Fits("cancel", users[id], new)
    BY <1>1, <2>1, <2>2 DEF Fits, LockFits, row
  <2> QED
    BY <1>2, <2>1, <2>2, <2>3, FreshAbout DEF OfAccount, row
<1>11. CASE record_sanction(w, id)
  <2> DEFINE new == [row EXCEPT !.is_sanctioned = TRUE]
  <2>1. /\ new \in User /\ new.purge_at = row.purge_at /\ new.is_active = row.is_active
        /\ new.locked_until = row.locked_until
        /\ new.failed_login_attempts = row.failed_login_attempts
    BY <1>1 DEF User
  <2>2. Start(w, "sanction", About("sanction", id, new))
    BY <1>11 DEF record_sanction, row
  <2> HIDE DEF new
  <2>3. Fits("sanction", users[id], new)
    BY <1>1, <2>1 DEF Fits, LockFits, row
  <2> QED
    BY <1>2, <2>1, <2>2, <2>3, FreshAbout DEF OfAccount, row
<1>12. CASE emergency_suspend(w, id)
  <2> DEFINE new == [row EXCEPT !.is_sanctioned = TRUE, !.is_active = FALSE]
  <2>1. /\ new \in User /\ new.purge_at = row.purge_at /\ ~new.is_active
        /\ new.locked_until = row.locked_until
        /\ new.failed_login_attempts = row.failed_login_attempts
    BY <1>1 DEF User
  <2>2. Start(w, "suspend", About("suspend", id, new))
    BY <1>12 DEF emergency_suspend, row
  <2> HIDE DEF new
  <2>3. Fits("suspend", users[id], new)
    BY <1>1, <2>1 DEF Fits, LockFits, row
  <2> QED
    BY <1>2, <2>1, <2>2, <2>3, FreshAbout DEF OfAccount, row
<1> QED
  BY <1>6, <1>7, <1>8, <1>9, <1>10, <1>11, <1>12

(* So does signing up.                                                     *)
LEMMA SignUpsFresh ==
    ASSUME RegisterInv, SerialInv, mix.serial, NEW w \in Workers,
           \/ \E e \in Emails, p \in Phones : signup(w, e, p)
           \/ guest_login(w)
           \/ \E u \in Uids, p \in Phones : complete_social_signup(w, u, p)
    PROVE  OneFresh' /\ DataInv'
<1>1. ASSUME NEW e, NEW p, NEW b
      PROVE  /\ Created(e, p, b).purge_at = Never /\ Created(e, p, b).phone = p
             /\ LockFits(Created(e, p, b))
  BY LockoutAssumption DEF Created, NoUser, LockFits, Never
<1>2. ASSUME NEW e, NEW p \in Phones, NEW b, NEW r, Joins(e, p),
             r.op \in Creating, r.write = Created(e, p, b)
      PROVE  Fresh(r)
  BY <1>1, <1>2 DEF Fresh, Joins, assert_unique, _assert_not_sanctioned, Creating, OfAccount
<1>3. ASSUME NEW e \in Emails, NEW p \in Phones, signup(w, e, p)
      PROVE  OneFresh' /\ DataInv'
  <2> DEFINE r == [NoRequest EXCEPT !.op = "signup", !.write = Created(e, p, TRUE)]
  <2>1. r.op \in Creating /\ r.write = Created(e, p, TRUE)
    BY DEF NoRequest, Creating
  <2>2. Start(w, "signup", r) /\ Joins(e, p)
    BY <1>3 DEF signup
  <2> HIDE DEF r
  <2> QED
    BY <1>2, <2>1, <2>2, FreshStart
<1>4. ASSUME NEW u \in Uids, NEW p \in Phones, complete_social_signup(w, u, p)
      PROVE  OneFresh' /\ DataInv'
  <2> DEFINE r == [NoRequest EXCEPT !.op = "complete", !.uid = u,
                                    !.write = Created(UidEmail[u], p, FALSE)]
  <2>1. r.op \in Creating /\ r.write = Created(UidEmail[u], p, FALSE)
    BY DEF NoRequest, Creating
  <2>2. Start(w, "complete", r) /\ Joins(UidEmail[u], p)
    BY <1>4 DEF complete_social_signup
  <2> HIDE DEF r
  <2> QED
    BY <1>2, <2>1, <2>2, FreshStart
<1>5. CASE guest_login(w)
  <2> DEFINE r == [NoRequest EXCEPT !.op = "guest", !.write = Created(None, None, FALSE)]
  <2>1. r.op = "guest" /\ r.write = Created(None, None, FALSE)
    BY DEF NoRequest
  <2>2. Start(w, "guest", r)
    BY <1>5 DEF guest_login
  <2> HIDE DEF r
  <2>3. r.write.purge_at = Never /\ r.write.phone = None /\ LockFits(r.write)
    BY <2>1, LockoutAssumption DEF Created, NoUser, LockFits, Never
  <2>4. Fresh(r)
    BY <2>1, <2>3 DEF Fresh, Creating, OfAccount
  <2> QED
    BY <2>2, <2>4, FreshStart
<1> QED
  BY <1>3, <1>4, <1>5

(* And every other call.                                                   *)
LEMMA OtherCallsFresh ==
    ASSUME RegisterInv, SerialInv, mix.serial, NEW w \in Workers,
           \/ \E j \in Jtis : rotate_refresh_token(w, j)
           \/ \E u \in Uids, n \in Nonces : social_login(w, u, n)
           \/ \E u \in Uids, id \in Ids : link_social_account(w, id, u)
           \/ \E p \in Phones : request_phone_verification(w, p)
           \/ \E p \in Phones, c \in CodeIds, right \in BOOLEAN :
                  verify_phone_code(w, p, c, right)
           \/ \E e \in Emails : request_email_verification(w, e)
           \/ \E k \in LinkIds : verify_email_token(w, k)
           \/ purge_deactivated(w)
    PROVE  OneFresh' /\ DataInv'
<1>0. ASSUME NEW id \in Ids
      PROVE  users[id] \in User /\ LockFits(users[id])
  BY DEF RegisterInv, TypeOK, SerialInv, DataInv, Locks
<1>1. ASSUME NEW j \in Jtis, rotate_refresh_token(w, j)
      PROVE  OneFresh' /\ DataInv'
  <2> DEFINE id == tokens[j].user_id
             reuse == [About("reuse", id, users[id]) EXCEPT !.jti = j]
             rotate == [About("rotate", id, users[id]) EXCEPT !.jti = j]
  <2>1. id \in Ids
    BY <1>1 DEF rotate_refresh_token, decode, RegisterInv
  <2>2. /\ reuse.op = "reuse" /\ reuse.id = id /\ reuse.read = users[id]
        /\ reuse.write = users[id]
        /\ rotate.op = "rotate" /\ rotate.id = id /\ rotate.read = users[id]
        /\ rotate.write = users[id] /\ rotate.jti = j
    BY DEF About, NoRequest
  <2>3. \/ Start(w, "rotate", reuse)
        \/ /\ Start(w, "rotate", rotate)
           /\ tokens[j].status = "live" /\ users[id].purge_at = Never
           /\ users[id].is_active
    BY <1>1 DEF rotate_refresh_token, Admitted
  <2> HIDE DEF reuse, rotate, id
  <2>4. CASE Start(w, "rotate", reuse)
    <3>1. Fresh(reuse)
      BY <1>0, <2>1, <2>2 DEF Fresh, OfAccount, Creating
    <3> QED
      BY <2>4, <3>1, FreshStart
  <2>5. CASE /\ Start(w, "rotate", rotate)
             /\ tokens[j].status = "live" /\ users[id].purge_at = Never
             /\ users[id].is_active
    <3>1. Fresh(rotate)
      BY <1>0, <2>1, <2>2, <2>5 DEF Fresh, OfAccount, Creating
    <3> QED
      BY <2>5, <3>1, FreshStart
  <2> QED
    BY <2>3, <2>4, <2>5
<1>2. ASSUME NEW u \in Uids, NEW n \in Nonces, social_login(w, u, n)
      PROVE  OneFresh' /\ DataInv'
  <2> DEFINE id == social[u]
             r == [About("social", id, users[id]) EXCEPT !.uid = u, !.nonce = n]
  <2>1. /\ id \in Ids /\ users[id].purge_at = Never /\ users[id].is_active
        /\ Start(w, "social", r)
    BY <1>2 DEF social_login, Admitted, RegisterInv, TypeOK
  <2>2. r.op = "social" /\ r.id = id /\ r.read = users[id] /\ r.write = users[id]
    BY DEF About, NoRequest
  <2> HIDE DEF r, id
  <2>3. Fits("social", users[id], users[id])
    BY <1>0, <2>1 DEF Fits
  <2> QED
    BY <1>0, <2>1, <2>2, <2>3, FreshAbout DEF OfAccount
<1>3. ASSUME NEW u \in Uids, NEW id \in Ids, link_social_account(w, id, u)
      PROVE  OneFresh' /\ DataInv'
  <2> DEFINE r == [About("link", id, users[id]) EXCEPT !.uid = u]
  <2>1. Start(w, "link", r)
    BY <1>3 DEF link_social_account
  <2>2. r.op = "link" /\ r.id = id /\ r.read = users[id] /\ r.write = users[id]
    BY DEF About, NoRequest
  <2> HIDE DEF r
  <2>3. Fits("link", users[id], users[id])
    BY <1>0 DEF Fits
  <2> QED
    BY <1>0, <2>1, <2>2, <2>3, FreshAbout DEF OfAccount
<1>4. ASSUME NEW p \in Phones, request_phone_verification(w, p)
      PROVE  OneFresh' /\ DataInv'
  BY <1>4, FreshStart DEF request_phone_verification, NoRequest, Fresh, OfAccount, Creating
<1>5. ASSUME NEW p \in Phones, NEW c \in CodeIds, NEW right \in BOOLEAN,
             verify_phone_code(w, p, c, right)
      PROVE  OneFresh' /\ DataInv'
  <2>1. codes[c].attempts < MAX_CODE_ATTEMPTS
    BY <1>5 DEF verify_phone_code, Guessable
  <2> QED
    BY <1>5, <2>1, FreshStart DEF verify_phone_code, NoRequest, Fresh, OfAccount, Creating
<1>6. ASSUME NEW e \in Emails, request_email_verification(w, e)
      PROVE  OneFresh' /\ DataInv'
  BY <1>6, FreshStart DEF request_email_verification, NoRequest, Fresh, OfAccount, Creating
<1>7. ASSUME NEW k \in LinkIds, verify_email_token(w, k)
      PROVE  OneFresh' /\ DataInv'
  BY <1>7, FreshStart DEF verify_email_token, NoRequest, Fresh, OfAccount, Creating
<1>8. CASE purge_deactivated(w)
  <2> DEFINE batch == {id \in Ids : Due(id)}
             r == [NoRequest EXCEPT !.op = "purge", !.batch = batch,
                     !.seals = {id \in batch : _seal_sanction_if_needed(id)}]
  <2>1. /\ r.op = "purge" /\ r.batch = batch
        /\ r.seals = {id \in batch : _seal_sanction_if_needed(id)}
    BY DEF NoRequest
  <2>2. Start(w, "purge", r) /\ \A i \in batch : Present(i) /\ users[i].purge_at # Never
    BY <1>8 DEF purge_deactivated, Due
  <2> HIDE DEF r, batch
  <2>3. Fresh(r)
    BY <2>1, <2>2 DEF Fresh, OfAccount, Creating
  <2> QED
    BY <2>2, <2>3, FreshStart
<1> QED
  BY <1>1, <1>2, <1>3, <1>4, <1>5, <1>6, <1>7, <1>8

-----------------------------------------------------------------------------
(* Commits.                                                                *)

(* A request that commits was the only one in flight, and none is left.    *)
LEMMA FinishAlone ==
    ASSUME RegisterInv, SerialInv, mix.serial, NEW w \in Workers,
           pc[w] = "commit", Finish(w)
    PROVE  OneFresh' /\ Fresh(req[w])
<1>1. \A v \in Workers : pc'[v] = "idle"
  BY DEF SerialInv, OneFresh, Finish, RegisterInv, TypeOK
<1> QED
  BY <1>1 DEF OneFresh, SerialInv

(* The row of id is as row in the columns a request writes, and as it was  *)
(* in the others; the other rows are as they were.                         *)
LeftAs(id, row) ==
    /\ \A i \in Ids \ {id} : users'[i] = users[i]
    /\ users'[id].state = users[id].state /\ users'[id].phone = users[id].phone
    /\ users'[id].is_active = row.is_active
    /\ users'[id].purge_at = row.purge_at
    /\ users'[id].locked_until = row.locked_until
    /\ users'[id].failed_login_attempts = row.failed_login_attempts

WritesRow(w) ==
    users' = [users EXCEPT ![req[w].id] = Updated(@, req[w].read, req[w].write)]

(* The row that is written over the row it was read from is the row the    *)
(* request wanted to leave.                                                *)
LEMMA RowWritten ==
    ASSUME RegisterInv, NEW w \in Workers, req[w].id \in Ids,
           req[w].read = users[req[w].id], WritesRow(w)
    PROVE  LeftAs(req[w].id, req[w].write)
<1> DEFINE id == req[w].id
<1>1. users[id] \in User /\ users \in [Ids -> User]
  BY DEF RegisterInv, TypeOK
<1> DEFINE row == Updated(users[id], req[w].read, req[w].write)
<1>2. /\ row.state = users[id].state /\ row.phone = users[id].phone
      /\ row.is_active = req[w].write.is_active
      /\ row.purge_at = req[w].write.purge_at
      /\ row.locked_until = req[w].write.locked_until
      /\ row.failed_login_attempts = req[w].write.failed_login_attempts
  BY <1>1 DEF Updated, User
<1>3. users' = [users EXCEPT ![id] = row]
  BY <1>1 DEF WritesRow
<1> HIDE DEF row
<1> QED
  BY <1>1, <1>2, <1>3 DEF LeftAs

(* Rows that change as RowWritten says keep what is said of users.         *)
LEMMA UsersKeep ==
    ASSUME RegisterInv, DataInv, NEW id \in Ids, Present(id),
           \A i \in Ids \ {id} : users'[i] = users[i],
           users'[id].state = users[id].state, users'[id].phone = users[id].phone,
           LockFits(users'[id]), UNCHANGED sealed
    PROVE  Locks' /\ PhonesApart' /\ Seals'
<1>1. \A i \in Ids : /\ users'[i].state = users[i].state
                     /\ users'[i].phone = users[i].phone
  OBVIOUS
<1>2. PhonesApart'
  BY <1>1 DEF DataInv, PhonesApart, Present
<1>3. Seals'
  BY DEF DataInv, Seals, Present
<1>4. Locks'
  BY DEF DataInv, Locks, LockFits
<1> QED
  BY <1>2, <1>3, <1>4

(* A token that is issued descends from itself.                            *)
LEMMA IssuedOnce ==
    ASSUME RegisterInv, DataInv, NEW id \in Ids, NEW j \in Jtis, Issue(id, j)
    PROVE  /\ LoginsIssued' /\ LiveOnce'
           /\ \A k \in Jtis \ {j} : tokens'[k] = tokens[k]
           /\ tokens'[j].user_id = id
<1>1. tokens[j].status = "none" /\ tokens' = [tokens EXCEPT ![j] = Token(id, j)]
  BY DEF Issue, IsLeast, FreeJtis
<1>2. /\ Token(id, j).status = "live" /\ Token(id, j).login = j
      /\ Token(id, j).user_id = id
  BY DEF Token
<1>3. /\ \A k \in Jtis \ {j} : tokens'[k] = tokens[k]
      /\ tokens'[j] = Token(id, j)
  BY <1>1 DEF RegisterInv, TypeOK
<1>4. \A k \in Jtis : tokens[k].status # "none" =>
          tokens[k].login \in Jtis \ {j} /\ tokens[tokens[k].login].status # "none"
  BY <1>1 DEF DataInv, LoginsIssued
<1>5. LoginsIssued'
  BY <1>2, <1>3, <1>4 DEF LoginsIssued
<1>6. LiveOnce'
  BY <1>2, <1>3, <1>4 DEF DataInv, LiveOnce
<1> QED
  BY <1>2, <1>3, <1>5, <1>6

(* Tokens that end leave the others as they were.                          *)
LEMMA EndedOnce ==
    ASSUME DataInv,
           \A j \in Jtis : /\ tokens'[j].user_id = tokens[j].user_id
                           /\ tokens'[j].login = tokens[j].login
                           /\ tokens'[j].status # tokens[j].status =>
                                  /\ tokens[j].status # "none"
                                  /\ tokens'[j].status \in {"revoked", "deleted"}
    PROVE  LoginsIssued' /\ LiveOnce'
<1>1. LoginsIssued'
  BY DEF DataInv, LoginsIssued
<1>2. LiveOnce'
  BY DEF DataInv, LiveOnce
<1> QED
  BY <1>1, <1>2

(* Columns of the token of an account that ends.                           *)
LEMMA EndedColumns ==
    ASSUME RegisterInv
    PROVE  \A j \in Jtis, to \in {"revoked", "deleted"} :
               LET row == [tokens[j] EXCEPT !.status = to]
               IN  /\ row.status = to /\ row.user_id = tokens[j].user_id
                   /\ row.login = tokens[j].login
BY DEF RegisterInv, TypeOK, RefreshToken

(* An account that is created: nobody else has its phone.                  *)
LEMMA CreateSerial ==
    ASSUME RegisterInv, Creations, SerialInv, mix.serial, NEW w \in Workers,
           CommitCreate(w)
    PROVE  OneFresh' /\ DataInv'
<1> DEFINE row == req[w].write
<1>1. /\ pc[w] = "commit" /\ Finish(w) /\ req[w].op \in Creating
      /\ UNCHANGED <<sealed, nonces, codes, links>>
  BY DEF CommitCreate
<1>2. PICK id \in Ids, j \in Jtis :
          /\ IsLeast(id, FreeIds)
          /\ users' = [users EXCEPT ![id] = row]
          /\ Issue(id, j)
  BY DEF CommitCreate
<1>3. OneFresh' /\ Fresh(req[w])
  BY <1>1, FinishAlone
<1>4. DataInv
  BY DEF SerialInv
<1>5. /\ row.purge_at = Never /\ LockFits(row)
      /\ row.phone # None => row.phone \notin sealed /\ ~is_phone_taken(row.phone)
  BY <1>1, <1>3 DEF Fresh
<1>6. users'[id] = row /\ \A i \in Ids \ {id} : users'[i] = users[i]
  BY <1>2 DEF RegisterInv, TypeOK
<1>7. users[id].state = "none"
  BY <1>2 DEF IsLeast, FreeIds
<1> HIDE DEF row
<1>8. LoginsIssued' /\ LiveOnce'
  BY <1>2, <1>4, IssuedOnce
<1>9. Locks'
  BY <1>4, <1>5, <1>6 DEF DataInv, Locks, LockFits
<1>10. NoSession'
  <2>1. ASSUME NEW i \in Ids, Present(i)', users'[i].purge_at # Never
        PROVE  \A k \in Jtis : tokens'[k].user_id = i => tokens'[k].status # "live"
    <3>1. i # id
      BY <1>5, <1>6, <2>1
    <3>2. Present(i) /\ users[i].purge_at # Never
      BY <1>6, <2>1, <3>1 DEF Present
    <3> QED
      BY <1>2, <1>4, <3>1, <3>2, IssuedOnce DEF DataInv, NoSession
  <2> QED
    BY <2>1 DEF NoSession
<1>11. PhonesApart'
  <2>1. ASSUME NEW i \in Ids, Present(i)', users'[i].phone # None
        PROVE  /\ users'[i].phone \notin sealed'
               /\ \A k \in Ids : Present(k)' /\ users'[k].phone = users'[i].phone => k = i
    <3>1. CASE i = id
      BY <1>1, <1>5, <1>6, <2>1, <3>1 DEF Present, is_phone_taken
    <3>2. CASE i # id
      BY <1>1, <1>4, <1>5, <1>6, <2>1, <3>2
         DEF Present, is_phone_taken, DataInv, PhonesApart
    <3> QED
      BY <3>1, <3>2
  <2> QED
    BY <2>1 DEF PhonesApart
<1>12. Seals'
  <2>1. row.state = "present"
    BY <1>1 DEF Creations, row
  <2> QED
    BY <1>1, <1>4, <1>6, <2>1 DEF DataInv, Seals
<1>13. Counts'
  BY <1>1, <1>4 DEF DataInv, Counts
<1> QED
  BY <1>3, <1>8, <1>9, <1>10, <1>11, <1>12, <1>13 DEF DataInv

(* A row that is written by itself: login, reset, withdrawal, sanction.    *)
LEMMA AccountSerial ==
    ASSUME RegisterInv, SerialInv, mix.serial, NEW w \in Workers,
           CommitIssue(w) \/ CommitRevoke(w) \/ CommitUpdate(w)
    PROVE  OneFresh' /\ DataInv'
<1> DEFINE id == req[w].id
           new == req[w].write
<1>1. /\ pc[w] = "commit" /\ Finish(w) /\ ~UpdateRefused(req[w])
      /\ req[w].op \in OfAccount \ {"rotate", "link"}
      /\ users' = [users EXCEPT ![id] = Updated(@, req[w].read, new)]
      /\ UNCHANGED <<sealed, codes, links>>
  BY DEF CommitIssue, CommitRevoke, CommitUpdate, OfAccount
<1>2. OneFresh' /\ Fresh(req[w])
  BY <1>1, FinishAlone
<1>3. DataInv
  BY DEF SerialInv
<1>4. id \in Ids /\ Present(id)
  BY <1>1 DEF UpdateRefused, RegisterInv, RequestOK
<1>5. req[w].read = users[id] /\ LockFits(new)
  BY <1>1, <1>2 DEF Fresh
<1>6. /\ \A i \in Ids \ {id} : users'[i] = users[i]
      /\ users'[id].state = users[id].state /\ users'[id].phone = users[id].phone
      /\ users'[id].purge_at = new.purge_at
      /\ users'[id].locked_until = new.locked_until
      /\ users'[id].failed_login_attempts = new.failed_login_attempts
  <2>1. req[w].id \in Ids /\ req[w].read = users[req[w].id] /\ WritesRow(w)
    BY <1>1, <1>4, <1>5 DEF WritesRow
  <2>2. LeftAs(id, new)
    BY <2>1, RowWritten
  <2> QED
    BY <2>2 DEF LeftAs
<1>7. LockFits(users'[id])
  BY <1>5, <1>6 DEF LockFits
<1>8. new.purge_at = Never \/ new.purge_at = users[id].purge_at \/ req[w].op = "withdraw"
  BY <1>1, <1>2, <1>5 DEF Fresh
<1>9. CommitIssue(w) => new.purge_at = Never
  BY <1>2 DEF Fresh, CommitIssue
<1> HIDE DEF id, new
<1>10. Locks' /\ PhonesApart' /\ Seals'
  BY <1>1, <1>3, <1>4, <1>6, <1>7, UsersKeep
<1>11. Counts'
  BY <1>1, <1>3 DEF DataInv, Counts
<1>12. LoginsIssued' /\ LiveOnce' /\ NoSession'
  <2>1. CASE CommitIssue(w)
    <3>1. PICK j \in Jtis : Issue(id, j)
      BY <2>1 DEF CommitIssue, id
    <3>2. /\ LoginsIssued' /\ LiveOnce'
          /\ \A k \in Jtis \ {j} : tokens'[k] = tokens[k]
          /\ tokens'[j].user_id = id
      BY <1>3, <1>4, <3>1, IssuedOnce
    <3>3. NoSession'
      BY <1>3, <1>6, <1>9, <2>1, <3>2 DEF DataInv, NoSession, Present
    <3> QED
      BY <3>2, <3>3
  <2>2. CASE CommitRevoke(w)
    <3>1. tokens' = _revoke_all_for_user(id)
      BY <2>2 DEF CommitRevoke, id
    <3>2. \A j \in Jtis :
              /\ tokens'[j].user_id = tokens[j].user_id
              /\ tokens'[j].login = tokens[j].login
              /\ tokens'[j].status = IF tokens[j].user_id = id /\ tokens[j].status = "live"
                                     THEN "revoked" ELSE tokens[j].status
      BY <3>1, EndedColumns DEF _revoke_all_for_user
    <3>3. LoginsIssued' /\ LiveOnce'
      BY <1>3, <3>2, EndedOnce
    <3>4. NoSession'
      BY <1>3, <1>6, <3>2 DEF DataInv, NoSession, Present
    <3> QED
      BY <3>3, <3>4
  <2>3. CASE CommitUpdate(w)
    <3>1. UNCHANGED tokens /\ req[w].op # "withdraw"
      BY <2>3 DEF CommitUpdate
    <3>2. LoginsIssued' /\ LiveOnce'
      BY <1>3, <3>1 DEF DataInv, LoginsIssued, LiveOnce
    <3>3. NoSession'
      BY <1>3, <1>6, <1>8, <3>1 DEF DataInv, NoSession, Present
    <3> QED
      BY <3>2, <3>3
  <2> QED
    BY <2>1, <2>2, <2>3
<1> QED
  BY <1>2, <1>10, <1>11, <1>12 DEF DataInv

(* A rotation: the token was live, so no other of its login is.            *)
LEMMA RotateSerial ==
    ASSUME RegisterInv, SerialInv, mix.serial, NEW w \in Workers, CommitRotate(w)
    PROVE  OneFresh' /\ DataInv'
<1> DEFINE id == req[w].id
           old == req[w].jti
<1>1. /\ pc[w] = "commit" /\ Finish(w) /\ req[w].op = "rotate"
      /\ UNCHANGED <<users, social, sealed, nonces, codes, links>>
  BY DEF CommitRotate
<1>2. OneFresh' /\ Fresh(req[w])
  BY <1>1, FinishAlone
<1>3. DataInv
  BY DEF SerialInv
<1>4. /\ old \in Jtis /\ tokens[old].status = "live" /\ tokens[old].user_id = id
      /\ users[id].purge_at = Never
  BY <1>1, <1>2 DEF Fresh, RegisterInv, RequestOK
<1>5. PICK j \in Jtis : Rotate(id, old, j)
  BY DEF CommitRotate
<1> HIDE DEF id, old
<1> DEFINE used == [tokens[old] EXCEPT !.status = "revoked"]
           next == Token(id, tokens[old].login)
<1>6. tokens[j].status = "none" /\ j # old
  BY <1>4, <1>5 DEF Rotate, IsLeast, FreeJtis
<1>7. /\ used.status = "revoked" /\ used.user_id = id /\ used.login = tokens[old].login
      /\ next.status = "live" /\ next.user_id = id /\ next.login = tokens[old].login
  <2>1. tokens[old] \in RefreshToken
    BY <1>4 DEF RegisterInv, TypeOK
  <2> QED
    BY <1>4, <2>1 DEF Token, RefreshToken
<1>8. /\ tokens'[j] = next /\ tokens'[old] = used
      /\ \A k \in Jtis \ {j, old} : tokens'[k] = tokens[k]
  BY <1>4, <1>5, <1>6 DEF Rotate, RegisterInv, TypeOK
<1> HIDE DEF used, next
<1>9. LoginsIssued'
  <2>1. \A k \in Jtis : tokens[k].status # "none" => tokens'[k].status # "none"
    BY <1>6, <1>7, <1>8
  <2> QED
    BY <1>3, <1>4, <1>7, <1>8, <2>1 DEF DataInv, LoginsIssued
<1>10. LiveOnce'
  <2>1. \A k \in Jtis : tokens[k].status = "live" /\ tokens[k].login = tokens[old].login
                          => k = old
    BY <1>3, <1>4 DEF DataInv, LiveOnce
  <2>2. \A k \in Jtis \ {j} : tokens'[k].status = "live" =>
            k # old /\ tokens'[k] = tokens[k]
    BY <1>7, <1>8
  <2> QED
    BY <1>3, <1>7, <1>8, <2>1, <2>2 DEF DataInv, LiveOnce
<1>11. NoSession'
  <2>1. ASSUME NEW i \in Ids, Present(i), users[i].purge_at # Never, NEW k \in Jtis,
               tokens'[k].user_id = i
        PROVE  tokens'[k].status # "live"
    <3>1. i # id
      BY <1>4, <2>1
    <3>2. k # j /\ k # old
      BY <1>7, <1>8, <2>1, <3>1
    <3> QED
      BY <1>3, <1>8, <2>1, <3>2 DEF DataInv, NoSession
  <2> QED
    BY <1>1, <2>1 DEF NoSession, Present
<1>12. Locks' /\ PhonesApart' /\ Seals' /\ Counts'
  BY <1>1, <1>3 DEF DataInv, Locks, LockFits, PhonesApart, Seals, Counts, Present
<1> QED
  BY <1>2, <1>9, <1>10, <1>11, <1>12 DEF DataInv

(* A link, and a proof of a phone or an e-mail.                            *)
LEMMA OtherSerial ==
    ASSUME RegisterInv, SerialInv, mix.serial, NEW w \in Workers,
           CommitLink(w) \/ CommitVerification(w) \/ RolledBack(w)
    PROVE  OneFresh' /\ DataInv'
<1>1. /\ pc[w] = "commit" /\ Finish(w)
      /\ UNCHANGED <<users, tokens, sealed>>
  BY DEF CommitLink, CommitVerification, RolledBack, dbVars
<1>2. OneFresh' /\ Fresh(req[w])
  BY <1>1, FinishAlone
<1>3. DataInv
  BY DEF SerialInv
<1>4. Locks' /\ LoginsIssued' /\ LiveOnce' /\ NoSession' /\ PhonesApart' /\ Seals'
  BY <1>1, <1>3 DEF DataInv, Locks, LockFits, LoginsIssued, LiveOnce, NoSession,
     PhonesApart, Seals, Present
<1>5. Counts'
  <2>1. CASE UNCHANGED codes
    BY <1>3, <2>1 DEF DataInv, Counts
  <2>2. CASE req[w].op = "request_code" /\ NewCode(req[w].write.phone, now)
    <3> DEFINE row == [NoCode EXCEPT !.phone = req[w].write.phone,
                                     !.expires_at = now + PHONE_VERIFICATION_TTL]
    <3>1. row.guesses = 0 /\ row.attempts = 0
      BY DEF NoCode
    <3>2. codes' = [codes EXCEPT ![Least(UnusedCodes)] = row]
      BY <2>2 DEF NewCode
    <3> HIDE DEF row
    <3>3. \A c \in CodeIds : codes'[c] = codes[c] \/ codes'[c] = row
      BY <3>2 DEF RegisterInv, TypeOK, VerificationTypeOK
    <3> QED
      BY <1>3, <3>1, <3>3, VerificationAssumption DEF DataInv, Counts
  <2>3. CASE req[w].op = "verify_code" /\ Guessed(req[w].code, req[w].attempts, req[w].right)
    <3> DEFINE c == req[w].code
               hit == [codes[c] EXCEPT !.verified = TRUE]
               miss == [codes[c] EXCEPT !.attempts = req[w].attempts + 1,
                                        !.guesses = codes[c].guesses + 1]
    <3>1. /\ c \in CodeIds /\ req[w].attempts = codes[c].attempts
          /\ codes[c].attempts < MAX_CODE_ATTEMPTS
      BY <1>2, <2>3 DEF Fresh
    <3>2. codes[c] \in PhoneVerificationToken /\ codes[c].guesses = codes[c].attempts
      BY <1>3, <3>1 DEF RegisterInv, TypeOK, VerificationTypeOK, DataInv, Counts
    <3>3. /\ hit.guesses = codes[c].guesses /\ hit.attempts = codes[c].attempts
          /\ miss.guesses = codes[c].guesses + 1 /\ miss.attempts = codes[c].attempts + 1
      BY <3>1, <3>2 DEF PhoneVerificationToken
    <3>4. codes' = [codes EXCEPT ![c] = IF req[w].right THEN hit ELSE miss]
      BY <2>3 DEF Guessed
    <3>5. codes[c].attempts \in Nat /\ MAX_CODE_ATTEMPTS \in Nat
      BY <3>2, VerificationAssumption DEF PhoneVerificationToken
    <3> HIDE DEF c, hit, miss
    <3>6. /\ \A d \in CodeIds \ {c} : codes'[d] = codes[d]
          /\ codes'[c] = hit \/ codes'[c] = miss
      BY <3>1, <3>4 DEF RegisterInv, TypeOK, VerificationTypeOK
    <3> QED
      BY <1>3, <3>1, <3>2, <3>3, <3>5, <3>6 DEF DataInv, Counts
  <2> QED
    BY <2>1, <2>2, <2>3 DEF CommitLink, CommitVerification, RolledBack, dbVars
<1> QED
  BY <1>2, <1>4, <1>5 DEF DataInv

(* The purge: the phone of every sanctioned account that goes is sealed,   *)
(* and no other account has it.                                            *)
LEMMA PurgeSerial ==
    ASSUME RegisterInv, SerialInv, mix.serial, NEW w \in Workers, CommitPurge(w)
    PROVE  OneFresh' /\ DataInv'
<1> DEFINE batch == req[w].batch
<1>1. /\ pc[w] = "commit" /\ Finish(w) /\ req[w].op = "purge"
      /\ UNCHANGED codes
      /\ sealed' = sealed \cup {users[i].phone : i \in req[w].seals}
      /\ users' = [i \in Ids |-> IF i \in batch /\ Present(i)
                                 THEN [users[i] EXCEPT !.state = "deleted"] ELSE users[i]]
      /\ tokens' = [j \in Jtis |-> IF tokens[j].user_id \in batch
                                      /\ tokens[j].status \in {"live", "revoked"}
                                   THEN [tokens[j] EXCEPT !.status = "deleted"]
                                   ELSE tokens[j]]
  BY DEF CommitPurge
<1>2. OneFresh' /\ Fresh(req[w])
  BY <1>1, FinishAlone
<1>3. DataInv
  BY DEF SerialInv
<1>4. /\ batch \subseteq Ids /\ \A i \in batch : Present(i)
      /\ req[w].seals = {i \in batch : users[i].is_sanctioned /\ users[i].phone # None}
  BY <1>1, <1>2 DEF Fresh, _seal_sanction_if_needed, RegisterInv, TypeOK, Request
<1>5. \A i \in Ids :
          /\ users'[i].state = IF i \in batch THEN "deleted" ELSE users[i].state
          /\ users'[i].phone = users[i].phone
          /\ users'[i].is_sanctioned = users[i].is_sanctioned
          /\ users'[i].purge_at = users[i].purge_at
          /\ users'[i].locked_until = users[i].locked_until
          /\ users'[i].failed_login_attempts = users[i].failed_login_attempts
  <2>1. \A i \in Ids : users[i] \in User
    BY DEF RegisterInv, TypeOK
  <2> QED
    BY <1>1, <1>4, <2>1 DEF User
<1>6. \A j \in Jtis :
          /\ tokens'[j].user_id = tokens[j].user_id
          /\ tokens'[j].login = tokens[j].login
          /\ \/ tokens'[j].status = tokens[j].status
             \/ tokens[j].status # "none" /\ tokens'[j].status = "deleted"
  BY <1>1, EndedColumns
<1> HIDE DEF batch
<1>7. LoginsIssued' /\ LiveOnce'
  BY <1>3, <1>6, EndedOnce
<1>8. NoSession'
  BY <1>3, <1>5, <1>6 DEF DataInv, NoSession, Present
<1>9. Locks' /\ Counts'
  BY <1>1, <1>3, <1>5 DEF DataInv, Locks, LockFits, Counts
<1>10. PhonesApart'
  <2>1. ASSUME NEW i \in Ids, Present(i)', users'[i].phone # None
        PROVE  /\ users'[i].phone \notin sealed'
               /\ \A k \in Ids : Present(k)' /\ users'[k].phone = users'[i].phone => k = i
    <3>1. i \notin batch /\ Present(i) /\ users[i].phone # None
      BY <1>5, <2>1 DEF Present
    <3>2. users[i].phone \notin sealed
      BY <1>3, <3>1 DEF DataInv, PhonesApart
    <3>3. \A k \in req[w].seals : users[k].phone # users[i].phone
      BY <1>3, <1>4, <3>1 DEF DataInv, PhonesApart
    <3> QED
      BY <1>1, <1>3, <1>5, <3>1, <3>2, <3>3 DEF DataInv, PhonesApart, Present
  <2> QED
    BY <2>1 DEF PhonesApart
<1>11. Seals'
  BY <1>1, <1>3, <1>4, <1>5 DEF DataInv, Seals
<1> QED
  BY <1>2, <1>7, <1>8, <1>9, <1>10, <1>11 DEF DataInv

-----------------------------------------------------------------------------
(* The invariant.                                                          *)

(* Two deletions and a revocation in one statement each.                   *)
LEMMA StatementsSerial ==
    ASSUME RegisterInv, SerialInv, mix.serial, NEW w \in Workers,
           (\E j \in Jtis : logout(w, j)) \/ purge_expired_tokens(w)
    PROVE  OneFresh' /\ DataInv'
<1>1. \A v \in Workers : pc[v] = "idle"
  BY DEF logout, purge_expired_tokens, Ready
<1>2. UNCHANGED <<users, sealed, codes, pc, req>>
  BY DEF logout, purge_expired_tokens
<1>3. DataInv
  BY DEF SerialInv
<1>4. \A j \in Jtis :
          /\ tokens'[j].user_id = tokens[j].user_id
          /\ tokens'[j].login = tokens[j].login
          /\ \/ tokens'[j].status = tokens[j].status
             \/ tokens[j].status # "none" /\ tokens'[j].status \in {"revoked", "deleted"}
  <2>1. ASSUME NEW j \in Jtis, logout(w, j)
        PROVE  /\ tokens[j].status = "live"
               /\ tokens' = [tokens EXCEPT ![j] = [tokens[j] EXCEPT !.status = "revoked"]]
    BY <2>1 DEF logout, RegisterInv, TypeOK
  <2>2. purge_expired_tokens(w) =>
            tokens' = [j \in Jtis |-> IF tokens[j].status \in {"live", "revoked"}
                                         /\ tokens[j].expires_at <= now
                                      THEN [tokens[j] EXCEPT !.status = "deleted"]
                                      ELSE tokens[j]]
    BY DEF purge_expired_tokens
  <2>3. tokens \in [Jtis -> RefreshToken]
    BY DEF RegisterInv, TypeOK
  <2>4. CASE \E j \in Jtis : logout(w, j)
    <3>1. PICK j \in Jtis : logout(w, j)
      BY <2>4
    <3> DEFINE row == [tokens[j] EXCEPT !.status = "revoked"]
    <3>2. /\ row.status = "revoked" /\ row.user_id = tokens[j].user_id
          /\ row.login = tokens[j].login
      BY EndedColumns
    <3>3. tokens[j].status = "live" /\ tokens' = [tokens EXCEPT ![j] = row]
      BY <2>1, <3>1
    <3> HIDE DEF row
    <3>4. tokens'[j] = row /\ \A k \in Jtis \ {j} : tokens'[k] = tokens[k]
      BY <2>3, <3>3
    <3> QED
      BY <3>2, <3>3, <3>4
  <2>5. CASE purge_expired_tokens(w)
    <3> SUFFICES ASSUME NEW j \in Jtis
                 PROVE  /\ tokens'[j].user_id = tokens[j].user_id
                        /\ tokens'[j].login = tokens[j].login
                        /\ \/ tokens'[j].status = tokens[j].status
                           \/ /\ tokens[j].status # "none"
                              /\ tokens'[j].status \in {"revoked", "deleted"}
      OBVIOUS
    <3> DEFINE row == [tokens[j] EXCEPT !.status = "deleted"]
    <3>1. /\ row.status = "deleted" /\ row.user_id = tokens[j].user_id
          /\ row.login = tokens[j].login
      BY EndedColumns
    <3>2. \/ tokens'[j] = row /\ tokens[j].status \in {"live", "revoked"}
          \/ tokens'[j] = tokens[j]
      BY <2>2, <2>5
    <3> HIDE DEF row
    <3> QED
      BY <3>1, <3>2
  <2> QED
    BY <2>4, <2>5
<1>5. LoginsIssued' /\ LiveOnce'
  BY <1>3, <1>4, EndedOnce
<1>6. NoSession'
  BY <1>2, <1>3, <1>4 DEF DataInv, NoSession, Present
<1>7. Locks' /\ PhonesApart' /\ Seals' /\ Counts'
  BY <1>2, <1>3 DEF DataInv, Locks, LockFits, PhonesApart, Seals, Counts, Present
<1>8. OneFresh'
  BY <1>1, <1>2 DEF OneFresh
<1> QED
  BY <1>5, <1>6, <1>7, <1>8 DEF DataInv

(* It holds at the start.                                                  *)
LEMMA SerialInit == Init => SerialInv
<1> SUFFICES ASSUME Init
             PROVE  OneFresh /\ DataInv
  BY DEF SerialInv
<1>1. /\ NoUser.state = "none" /\ NoUser.locked_until = 0
      /\ NoUser.failed_login_attempts = 0 /\ NoToken.status = "none"
      /\ NoCode.guesses = 0 /\ NoCode.attempts = 0
  BY DEF NoUser, NoToken, NoCode, Never
<1>2. Locks
  BY <1>1, LockoutAssumption DEF Init, Locks, LockFits, Never
<1>3. LoginsIssued /\ LiveOnce /\ NoSession /\ PhonesApart /\ Seals
  BY <1>1 DEF Init, LoginsIssued, LiveOnce, NoSession, PhonesApart, Seals, Present
<1>4. Counts
  BY <1>1, VerificationAssumption DEF Init, VerificationInit, Counts
<1>5. OneFresh
  BY DEF Init, OneFresh
<1> QED
  BY <1>2, <1>3, <1>4, <1>5 DEF DataInv

(* Every step keeps it.                                                    *)
LEMMA SerialNext ==
    RegisterInv /\ Creations /\ SerialInv /\ [Next]_vars => SerialInv'
<1> SUFFICES ASSUME RegisterInv, Creations, SerialInv, [Next]_vars, mix'.serial
             PROVE  OneFresh' /\ DataInv'
  BY DEF SerialInv
<1>1. UNCHANGED mix
  <2>1. CASE UNCHANGED vars \/ Tick
    BY <2>1 DEF vars, Tick
  <2>2. ASSUME NEW w \in Workers, Commit(w) \/ RolledBack(w)
        PROVE  UNCHANGED mix
    BY <2>2 DEF Commit, RolledBack, CommitCreate, CommitIssue, CommitRotate, CommitRevoke,
       CommitUpdate, CommitLink, CommitPurge, CommitVerification, Finish
  <2>3. ASSUME NEW w \in Workers, Call(w) \/ Job(w)
        PROVE  UNCHANGED mix
    BY <2>3 DEF Call, Job, signup, guest_login, complete_social_signup, login_failed, login,
       reset_password, withdraw, cancel_withdrawal, record_sanction, emergency_suspend,
       rotate_refresh_token, social_login, link_social_account, logout,
       request_phone_verification, verify_phone_code, request_email_verification,
       verify_email_token, purge_deactivated, purge_expired_tokens, Start
  <2> QED
    BY <2>1, <2>2, <2>3 DEF Next
<1>2. CASE UNCHANGED <<users, tokens, social, sealed, codes, pc, req>>
  BY <1>1, <1>2 DEF SerialInv, OneFresh, Fresh, DataInv, Locks, LockFits, LoginsIssued, LiveOnce,
     NoSession, PhonesApart, Seals, Counts, Present, is_phone_taken, _seal_sanction_if_needed
<1>3. CASE UNCHANGED vars \/ Tick
  BY <1>2, <1>3 DEF vars, Tick, dbVars
<1>4. ASSUME NEW w \in Workers, Commit(w) \/ RolledBack(w)
      PROVE  OneFresh' /\ DataInv'
  BY <1>1, <1>4, CreateSerial, AccountSerial, RotateSerial, OtherSerial, PurgeSerial
     DEF Commit
<1>5. ASSUME NEW w \in Workers, Call(w) \/ Job(w)
      PROVE  OneFresh' /\ DataInv'
  BY <1>1, <1>5, AccountCallsFresh, SignUpsFresh, OtherCallsFresh, StatementsSerial
     DEF Call, Job
<1> QED
  BY <1>3, <1>4, <1>5 DEF Next

(* One request at a time, every reachable state satisfies the invariant.   *)
THEOREM SerialInvariantHolds == Spec => [](RegisterInv /\ SerialInv)
<1>1. Init => Creations
  BY DEF Init, Creations, NoRequest, Creating
<1> QED
  BY <1>1, RegisterInit, RegisterNext, CreationsNext, SerialInit, SerialNext, PTL DEF Spec

(* One at a time, a login never has two live tokens.                       *)
THEOREM OneLive == Spec => []OneLivePerLogin
<1>1. SerialInv => OneLivePerLogin
  BY DEF SerialInv, DataInv, LiveOnce, OneLivePerLogin
<1> QED
  BY <1>1, SerialInvariantHolds, PTL

(* One at a time, an account that is being withdrawn has no session.       *)
THEOREM WithdrawalEndsSessions == Spec => []WithdrawnHasNoSession
<1>1. SerialInv => WithdrawnHasNoSession
  BY DEF SerialInv, DataInv, NoSession, WithdrawnHasNoSession
<1> QED
  BY <1>1, SerialInvariantHolds, PTL

(* One at a time, a phone belongs to one account and a sealed one to none. *)
THEOREM PhonesHeldOnce == Spec => []PhoneHeldOnce
<1>1. SerialInv => PhoneHeldOnce
  BY DEF SerialInv, DataInv, PhonesApart, PhoneHeldOnce
<1> QED
  BY <1>1, SerialInvariantHolds, PTL

(* One at a time, no sanctioned account takes its phone with it.           *)
THEOREM SanctionsSealed == Spec => []SanctionSealed
<1>1. SerialInv => SanctionSealed
  BY DEF SerialInv, DataInv, Seals, SanctionSealed
<1> QED
  BY <1>1, SerialInvariantHolds, PTL

(* One at a time, an account is locked exactly when its failures are many. *)
THEOREM LocksAreFull == Spec => []LockedMeansFull
<1>1. SerialInv => LockedMeansFull
  BY DEF SerialInv, DataInv, Locks, LockFits, LockedMeansFull
<1> QED
  BY <1>1, SerialInvariantHolds, PTL

(* One at a time, a code is compared with few wrong guesses.               *)
THEOREM GuessesAreFew == Spec => []GuessesBounded
<1>1. SerialInv => GuessesBounded
  BY DEF SerialInv, DataInv, Counts, GuessesBounded
<1> QED
  BY <1>1, SerialInvariantHolds, PTL

(* A step leaves the account id suspended, and issues no token to it.      *)
Held(id) == /\ Suspended(id)'
            /\ \A j \in Jtis : tokens'[j].user_id = id => tokens[j].user_id = id

(* A commit for another account does so, if it issues tokens to no other.  *)
LEMMA OthersHeld ==
    ASSUME RegisterInv, NEW id \in Ids, Suspended(id), users'[id] = users[id],
           \A j \in Jtis : tokens'[j].user_id = id => tokens[j].user_id = id
    PROVE  Held(id)
BY DEF Held, Suspended, Present

(* So does one that writes the row and neither activates the account nor   *)
(* begins a withdrawal.                                                    *)
LEMMA RowHeld ==
    ASSUME RegisterInv, NEW id \in Ids, Suspended(id), NEW w \in Workers,
           pc[w] = "commit", Fresh(req[w]), req[w].id \in Ids, WritesRow(w),
           req[w].op \in {"reset", "reuse", "fail", "sanction", "suspend"},
           \A j \in Jtis : tokens'[j].user_id = tokens[j].user_id
    PROVE  Held(id)
<1>1. /\ req[w].read = users[req[w].id]
      /\ req[w].write.purge_at \in {req[w].read.purge_at, Never}
      /\ req[w].write.is_active => req[w].read.is_active
  BY DEF Fresh, OfAccount
<1>2. LeftAs(req[w].id, req[w].write)
  BY <1>1, RowWritten
<1>3. CASE req[w].id = id
  BY <1>1, <1>2, <1>3 DEF LeftAs, Held, Suspended, Present
<1>4. CASE req[w].id # id
  BY <1>2, <1>4, OthersHeld DEF LeftAs
<1> QED
  BY <1>3, <1>4

(* The requests that issue a token, and withdraw, are of accounts that are *)
(* active or being withdrawn.                                              *)
LEMMA NotOfSuspended ==
    ASSUME NEW w, Fresh(req[w]), NEW id \in Ids, Suspended(id),
           req[w].op \in {"login", "social", "rotate", "withdraw", "cancel"}
    PROVE  req[w].id # id
BY DEF Fresh, OfAccount, Suspended

(* One at a time, an account that is suspended outside a withdrawal stays  *)
(* suspended, is not deleted, begins no withdrawal and gets no token.      *)
THEOREM SuspensionsHold == Spec => SuspensionHolds
<1> DEFINE Kept == mix.serial => \A id \in Ids : Suspended(id) => Held(id)
<1>1. RegisterInv /\ SerialInv /\ [Next]_vars => [Kept]_vars
  <2> SUFFICES ASSUME RegisterInv, SerialInv, [Next]_vars, mix.serial,
                      NEW id \in Ids, Suspended(id)
               PROVE  Held(id)
    OBVIOUS
  <2>1. ASSUME users'[id] = users[id], \A j \in Jtis : tokens'[j].user_id = tokens[j].user_id
        PROVE  Held(id)
    BY <2>1, OthersHeld
  <2>2. ASSUME NEW w \in Workers, pc[w] = "commit", req[w].op \in OfAccount
        PROVE  Fresh(req[w]) /\ req[w].id \in Ids
    BY <2>2 DEF RegisterInv, RequestOK, SerialInv, OneFresh
  <2>3. ASSUME NEW w \in Workers, CommitIssue(w)
        PROVE  Held(id)
    <3>1. /\ pc[w] = "commit" /\ req[w].op \in {"login", "cancel", "social"}
          /\ WritesRow(w) /\ \E j \in Jtis : Issue(req[w].id, j)
      BY <2>3 DEF CommitIssue, WritesRow
    <3>2. Fresh(req[w]) /\ req[w].id \in Ids
      BY <2>2, <3>1 DEF OfAccount
    <3>3. req[w].id # id
      BY <3>1, <3>2, NotOfSuspended
    <3>4. users'[id] = users[id]
      BY <3>1, <3>3 DEF WritesRow, RegisterInv, TypeOK
    <3>5. \A j \in Jtis : tokens'[j].user_id = id => tokens[j].user_id = id
      BY <3>1, <3>2, <3>3, IssuedOnce DEF SerialInv
    <3> QED
      BY <3>4, <3>5, OthersHeld
  <2>4. ASSUME NEW w \in Workers, CommitRotate(w)
        PROVE  Held(id)
    <3>1. /\ pc[w] = "commit" /\ req[w].op = "rotate" /\ UNCHANGED users
          /\ \E j \in Jtis : Rotate(req[w].id, req[w].jti, j)
      BY <2>4 DEF CommitRotate
    <3>2. Fresh(req[w]) /\ req[w].id # id
      BY <2>2, <3>1, NotOfSuspended DEF OfAccount
    <3>3. \A j \in Jtis : tokens'[j].user_id \in {tokens[j].user_id, req[w].id}
      <4>1. PICK j \in Jtis : Rotate(req[w].id, req[w].jti, j)
        BY <3>1
      <4>2. \A k \in Jtis : tokens[k] \in RefreshToken
        BY DEF RegisterInv, TypeOK
      <4>3. req[w].jti \in Jtis
        BY <3>1 DEF RegisterInv, RequestOK
      <4> DEFINE new  == Token(req[w].id, tokens[req[w].jti].login)
                 used == [tokens[req[w].jti] EXCEPT !.status = "revoked"]
      <4>4. new.user_id = req[w].id /\ used.user_id = tokens[req[w].jti].user_id
        BY <4>2, <4>3 DEF Token, RefreshToken
      <4>5. tokens' = [tokens EXCEPT ![req[w].jti] = used, ![j] = new]
        BY <4>1, <4>3 DEF Rotate, RegisterInv, TypeOK
      <4> HIDE DEF new, used
      <4> QED
        BY <4>3, <4>4, <4>5 DEF RegisterInv, TypeOK
    <3> QED
      BY <3>1, <3>2, <3>3, OthersHeld
  <2>5. ASSUME NEW w \in Workers, CommitRevoke(w)
        PROVE  Held(id)
    <3>1. /\ pc[w] = "commit" /\ req[w].op \in {"reset", "withdraw", "reuse"}
          /\ WritesRow(w) /\ tokens' = _revoke_all_for_user(req[w].id)
      BY <2>5 DEF CommitRevoke, WritesRow
    <3>2. Fresh(req[w]) /\ req[w].id \in Ids
      BY <2>2, <3>1 DEF OfAccount
    <3>3. \A j \in Jtis : tokens'[j].user_id = tokens[j].user_id
      <4>1. \A j \in Jtis : [tokens[j] EXCEPT !.status = "revoked"].user_id = tokens[j].user_id
        BY EndedColumns
      <4> QED
        BY <3>1, <4>1 DEF _revoke_all_for_user
    <3>4. CASE req[w].op = "withdraw"
      <4>1. req[w].id # id
        BY <3>2, <3>4, NotOfSuspended
      <4> QED
        BY <2>1, <3>1, <3>3, <4>1 DEF WritesRow, RegisterInv, TypeOK
    <3>5. CASE req[w].op # "withdraw"
      BY <3>1, <3>2, <3>3, <3>5, RowHeld
    <3> QED
      BY <3>4, <3>5
  <2>6. ASSUME NEW w \in Workers, CommitUpdate(w)
        PROVE  Held(id)
    <3>1. /\ pc[w] = "commit" /\ req[w].op \in {"fail", "sanction", "suspend"}
          /\ WritesRow(w) /\ UNCHANGED tokens
      BY <2>6 DEF CommitUpdate, WritesRow
    <3>2. Fresh(req[w]) /\ req[w].id \in Ids
      BY <2>2, <3>1 DEF OfAccount
    <3> QED
      BY <3>1, <3>2, RowHeld
  <2>7. ASSUME NEW w \in Workers, CommitCreate(w)
        PROVE  Held(id)
    <3>1. PICK i \in Ids, j \in Jtis :
              /\ users[i].state = "none" /\ users' = [users EXCEPT ![i] = req[w].write]
              /\ Issue(i, j)
      BY <2>7 DEF CommitCreate, IsLeast, FreeIds
    <3>2. i # id
      BY <3>1 DEF Suspended, Present
    <3>3. users'[id] = users[id]
      BY <3>1, <3>2 DEF RegisterInv, TypeOK
    <3>4. \A k \in Jtis : tokens'[k].user_id = id => tokens[k].user_id = id
      BY <3>1, <3>2, IssuedOnce DEF SerialInv
    <3> QED
      BY <3>3, <3>4, OthersHeld
  <2>8. ASSUME NEW w \in Workers, CommitPurge(w)
        PROVE  Held(id)
    <3>1. pc[w] = "commit" /\ req[w].op = "purge"
      BY <2>8 DEF CommitPurge
    <3>2. id \notin req[w].batch
      BY <3>1 DEF SerialInv, OneFresh, Fresh, Suspended
    <3>3. users'[id] = users[id]
      BY <2>8, <3>2 DEF CommitPurge
    <3>4. \A j \in Jtis : [tokens[j] EXCEPT !.status = "deleted"].user_id = tokens[j].user_id
      BY EndedColumns
    <3>5. \A j \in Jtis : tokens'[j].user_id = tokens[j].user_id
      BY <2>8, <3>4 DEF CommitPurge
    <3> QED
      BY <2>1, <3>3, <3>5
  <2>9. ASSUME NEW w \in Workers, CommitLink(w) \/ CommitVerification(w) \/ RolledBack(w)
        PROVE  UNCHANGED <<users, tokens>>
    BY <2>9 DEF CommitLink, CommitVerification, RolledBack, dbVars
  <2>10. ASSUME NEW w \in Workers, Call(w) \/ Job(w)
         PROVE  Held(id)
    <3>1. \A j \in Jtis, s \in {"revoked", "deleted"} :
              [tokens[j] EXCEPT !.status = s].user_id = tokens[j].user_id
      BY EndedColumns
    <3>2. ASSUME NEW j \in Jtis, logout(w, j)
          PROVE  UNCHANGED users /\ \A k \in Jtis : tokens'[k].user_id = tokens[k].user_id
      <4>1. tokens' = [tokens EXCEPT ![j] = [tokens[j] EXCEPT !.status = "revoked"]]
        BY <3>2 DEF logout, RegisterInv, TypeOK
      <4> QED
        BY <3>1, <3>2, <4>1 DEF logout, RegisterInv, TypeOK
    <3>3. ASSUME purge_expired_tokens(w)
          PROVE  UNCHANGED users /\ \A k \in Jtis : tokens'[k].user_id = tokens[k].user_id
      BY <3>1, <3>3 DEF purge_expired_tokens
    <3>4. ASSUME NEW op, NEW r, Start(w, op, r)
          PROVE  UNCHANGED <<users, tokens>>
      BY <3>4 DEF Start, dbVars
    <3>5. \/ \E j \in Jtis : logout(w, j)
          \/ purge_expired_tokens(w)
          \/ UNCHANGED <<users, tokens>>
      BY <2>10, <3>4 DEF Call, Job, signup, guest_login, complete_social_signup, login_failed,
         login, reset_password, withdraw, cancel_withdrawal, record_sanction,
         emergency_suspend, rotate_refresh_token, social_login, link_social_account,
         request_phone_verification, verify_phone_code, request_email_verification,
         verify_email_token, purge_deactivated
    <3> QED
      BY <2>1, <3>2, <3>3, <3>5
  <2>11. CASE Tick \/ UNCHANGED vars
    BY <2>1, <2>11 DEF Tick, vars, dbVars
  <2> QED
    BY <2>1, <2>3, <2>4, <2>5, <2>6, <2>7, <2>8, <2>9, <2>10, <2>11 DEF Next, Commit
<1> HIDE DEF Kept
<1>2. [Kept]_vars <=> [mix.serial =>
        \A id \in Ids :
            Suspended(id) =>
                /\ Suspended(id)'
                /\ \A j \in Jtis : tokens'[j].user_id = id => tokens[j].user_id = id]_vars
  BY DEF Kept, Held
<1> QED
  BY <1>1, <1>2, SerialInvariantHolds, PTL DEF Spec, SuspensionHolds
=============================================================================
