# ON-Gi: a TLA+ model of the care exchange

ON-Gi ("pumasi-on") lets shift-working parents care for each other's children
and pays with points: half an hour of care is one point. The back end is a
FastAPI application over MySQL (`src/app`), with two libraries of its own for
accounts (`src/auth_kit`) and security helpers (`src/security_kit`), and a React
client (`src/frontend`). This directory models the back end's state: sessions,
points and trust levels; accounts, tokens and verification; everything guardians
keep with the service, up to the scores and candidates computed from it; and the
in-memory guards. TLC checks it on small instances, and TLAPS proves for any
instance all safety properties of sessions, the ledger, trust levels, accounts,
the rows of the family and guards. Only the liveness property, `HoldResolved`, is
model-checked and not proved.

Paths are relative to `src/`.

## 1. Inventory

| component (code) | state | operations | interacts with | hard behaviour | what makes it correct |
| --- | --- | --- | --- | --- | --- |
| Care sessions, CAR (`app/services/care_session_service.py`) | `care_sessions` rows: parties, slots, status, check-in/out, cancellation, fault | create_request, accept, reject, checkin, checkout, cancel, report_no_show | calls the ledger, trust levels, events, notifications; reads schedules and evaluations | several transactions per request, no locks, stale reads, failure between commits, time boundaries | statuses only move forward; no double booking; fault only where no care took place |
| Point ledger, PNT (`point_ledger_service.py`) | `point_accounts` (balance, held_balance), `point_holds`, `point_transactions`/`point_entries` | create_hold, settle_care_session, resolve_hold_on_cancel, resolve_hold_on_no_show | called by CAR and ADM after their own commit | lost updates, double settlement, holds never resolved, clamping | points are neither created nor lost; held_balance is the sum of live holds; every entry has a cause |
| Emergency suspension and dashboard, ADM (`admin_service.py`) | `users.is_active`; CAR's rows | emergency_suspend; statistics (read only) | cancels sessions, releases holds | acts on everybody's sessions in one go, while their parties act | a suspended user is in no confirmed session |
| Evaluations, TRS (`trust_evaluation_service.py`) | `care_evaluations` | submit_evaluation | gates create_request and accept | submitted twice at once | one per session and evaluator |
| Trust levels, TRS (`trust_level_service.py`) | `trust_relationships`, `trust_level_history`, `joint_care_sessions`, `trust_settings` | grant_l1, schedule_joint_session, confirm_joint_session, set_required_count, demote, require_l3 | accept grants L1; solo requests need L3 | both partners confirm at once; a commit in the middle of the promotion | L3 rests on joint sessions both have confirmed; count and history agree with the rows |
| Events and notifications (`hypothesis_event_service.py`, `notification_service.py`) | append-only rows | log, notify, mark_read | part of every handler's transaction | events of a transaction that never commits | an event only of what happened |
| Trust scores, TRS (`trust_score_service.py`) | `trust_weights` (one row), `trust_weight_history` | get_or_create, update_weights, compute | reads evaluations, sessions, logs | nothing to count, weights at their limits, two changes at once | a score between 0 and 1 |
| Matching, MAT (`matching_service.py`) | - (writes exposure events) | find_candidates | reads profiles, tags, values, schedules, children, scores | a candidate purged between ranking and insert | who is shown fits, with a score between 0 and 1 |
| Work schedules, SCH (`work_schedule_service.py`, `core/utils/schedule_slots.py`) | a mask of 48 slots per user and date | register_shift | gates create_request, feeds matching | a night shift writes two dates | nobody is offered in a shift |
| Care logs, CAR (`care_log_service.py`) | one log per session | upsert | after checkin; feeds the scores | concurrent first upsert, deletion under it | allergies are answered |
| Chat, COM (`chat_service.py`) | messages of a related pair | send_message | needs a relationship | the account goes meanwhile | numbers are masked, no message outlives its writer |
| Children, profiles, parenting values, access logs, ACC (`child_service.py`, `guardian_profile_service.py`, `parenting_values_service.py`, `access_log_service.py`) | rows of one guardian, with histories | create, view, update, delete | consent gates; feed matching; sessions refer to children | cascades under running requests, histories from stale reads | consent before data, an access log of it, a history that tells the truth |
| Accounts, `auth_kit` (`service.py`, `verification_service.py`, `router.py`) | `users`, `refresh_tokens`, `social_accounts`, `oauth_nonces`, `sanctioned_identities`, verification rows, consents | sign-up, verification, login with lockout, token rotation, logout, social and guest accounts, linking, reset, withdrawal, cancellation, sanction, purge | `get_current_user` gates every handler | reuse detection, retries, a purge that meets a cancellation, keys the database has and has not | a revoked token never comes back; nothing outlives its account; a sanctioned phone stays out |
| Guards, `security_kit` (`guards.py`) | calls and nonces in memory | LockoutPolicy, RateLimiter, NonceStore | LockoutPolicy is used by `auth_kit` | boundaries of windows, forgetting | at most max_calls per window, one use per nonce |
| `ai_worker`, `infra`, migrations, client | none of the exchange | health check, deployment, pages | HTTP | - | - |

PROJECT.json lists each with its files and status, and the hazards at their
lines.

## 2. Plan

Done: the ledger and the sessions, with what holds of overlapping requests and of
requests one at a time, the books included, proved about them; trust levels, in the
same two ways; the accounts as one state machine, their token register as a
refinement, and proofs of all their properties; the rows of the family with
cascades, scores and matching, with references and consents proved of any overlap,
and shifts, histories and scores of requests one at a time; the guards against
limits that forget nothing, with the refinement proved.

Left, in this order:

1. Lazy creation of point accounts inside `create_hold` and the settlement.
2. The branch of `withdraw` for a time of grace of zero, which deletes at once; the
   configuration says 30 days.

An abstract escrow for `CareSession` is not on the list any more: its statements
(held, then resolved once; nothing paid twice; the sums agree) are the theorems
`LedgerJustified`, `HeldIsBacked` and `BooksBalance` about the model itself.

Liveness stays with TLC.

## 3. How the code is modelled

One HTTP request uses one `AsyncSession`, and a request is a sequence of
transactions. `Workers` are slots for requests in flight. The first step of a
transaction reads: MySQL runs at REPEATABLE READ, so every SELECT of it sees one
snapshot, and everything the code reads, checks and decides until the commit is
one step (`create_request`, `accept`, ... in lower case, as in the code). The
commit is a second step (`Commit...`): the ORM writes only the columns it
changed, as absolute values, over whatever other requests committed meanwhile -
there is no SELECT FOR UPDATE, no version column, and no atomic increment in the
code. A request that fails a check before its first commit changes nothing and
is not a step. Unique keys are kept: `Refused` is the request whose commit they
refuse. `Fail` is a request that stops between two of its steps.

`Serial = TRUE` lets a request start only when none is in flight. These
instances show that the handlers, one at a time and with failures between
transactions, do the right thing. `Serial = FALSE` shows what remains true
whatever overlaps; what does not is a finding or a hazard note. In `Accounts` and
`Family` the same choice is the field `serial` of a *mix*.

Operators whose name contains `_slip` stand next to the definition they vary: a
plausible mistake in that piece of code. They are used by no specification; each
property has one that TLC refutes it with, so that no property here is empty.

Further choices, the same everywhere:

- `expire_on_commit=False`: what a handler has loaded stays as loaded, also
  across its own commits. `req[w]` therefore carries the row, the level, the
  count it read. A transaction that follows a commit takes a new snapshot, and
  what it SELECTs anew (accounts, hold, settings) is read in a step of its own
  (`ReadHold`, `ReadResolve`, `ReadSettle`, `ReadSettings`).
- A snapshot begins with the authentication read of the request, so that
  `Authenticated` and the handler's own reads are one step.
- An autoflush may send an UPDATE before the commit. It takes a row lock that
  delays others, but changes nothing they can read; the commit remains the point
  at which a transaction takes effect. A deadlock victim is `Fail`.
- Ids come from autoincrement columns: `IsNext` is the lowest id not given out.
  Rows are records in functions over ids; `status = "NONE"` is the absent row.
- Append-only tables (events, notifications) are sets: no code counts them.
- Time is a clock that ticks on its own (`Tick`); handlers read `now` once.

`Accounts` and `Family` have many operations that hardly touch each other. `Init`
draws a mix - which operations are called, one at a time or overlapping, and the
settings or the rows it starts from - and the mix stays. The state spaces of the
mixes add up instead of multiplying, and a property "one at a time" is one that
begins with `mix.serial =>`. The proofs are about any set of mixes, the one
with all operations included.

- In both, a request has one transaction, hence two steps: it reads and decides,
  then it commits (`Commit...`), or it is rolled back (`RolledBack`): a broken
  key, a reference to a row that is gone, an UPDATE that finds no row (the ORM
  raises), or a request that stops. `Refused`, `CreateRefused`,
  `UpdateRefused`, `LinkRefused` and `PurgeRefused` say when the database refuses.
- `Updated` and `Merged` write the columns a request has changed, over what others
  have committed since; `RolledBack` is also what remains of a request that is
  refused, except for its autoincrement numbers.
- `Family` holds the rows of some twenty tables in one function `db` from keys
  (`<<"session", 1>>`, `<<"tag", u, t>>`) to records. `refs` of a record are its
  foreign keys with ON DELETE CASCADE; `Cascade` deletes along them; `Needs` is
  what an insert must find. The events' target is ON DELETE SET NULL (`Unlinked`).
  Numbers of `last` are taken at the flush and lost with a rollback.
- A row of an account that is deleted keeps its columns in `Accounts`, so that
  properties can speak of what it was.
- `guesses`, `login`, `granted`, `used` and `free` are history variables: they are
  no columns, nothing else depends on them, and properties need them.
- Scores are whole percents, answers and ages small numbers, a slot mask is a set.
  Weights are whole percents that sum to 100: the code lets the sum miss 1 by 1e-6
  (`app/services/trust_score_service.py:34`), so that a score may exceed 1 by as
  little, which `ScoresInRange` does not see.

## 4. Modules

| module | code | state and actions |
| --- | --- | --- |
| `PointLedger` | `point_ledger_service.py`, the account, hold and ledger tables | `balance`, `held_balance`, `holds`, `ledger`. A service method is the `Posting` it decides on (`create_hold`, `settle_hold`, `_release_hold`, `_forfeit_hold`, `_transfer`, chosen by `resolve_hold_on_cancel` / `_no_show`), and the commit `Post`, which adds the deltas to the balances that were *read* and leaves a column alone when its delta is 0. |
| `CareSession` | `care_session_service.py`, `AdminSuspendService`, `TrustEvaluationService`, the gate `get_user_by_access_token` | `sessions`, `related`, `evaluations`, `events`, `notifications`, `suspended`, the clock, and per worker `pc`, `req`, `todo` (holds a cancellation or suspension has still to resolve), `work` (the posting it is about to commit). One action for a handler's first read, one for each of its commits, one for each later read. |
| `CareInvariant` | - | the inductive invariant `CareInv` of `CareSession`, of any overlap |
| `CareSerialInvariant` | - | `CareSerialInv`, the inductive invariant of requests one at a time |
| `CareBooks` | - | `HeldIsBacked`, `BooksBalance`, and what they rest on (`SerialInv`, `BooksInv`) |
| `MCCareSession` | - | schedules and acquaintances for TLC |
| `CareClaims` | - | what a document says of settling a hold and the code does not keep |
| `CareSessionProofs`, `CareSerialProofs`, `CareBooksProofs` | - | theorems about `CareSession`: of any overlap, of requests one at a time, of the sums |
| `TrustLevel` | `trust_level_service.py`, its repositories, `guard_solo_request` | `level`, `joint_session_count`, `history`, `joint`, `settings`, `events`, `notifications`, `solo`, and per worker `pc`, `req` |
| `TrustInvariant`, `TrustSerialInvariant` | - | the inductive invariants of `TrustLevel`, of any overlap (`TrustInv`) and of requests one at a time (`TrustSerialInv`) |
| `MCTrustLevel` | - | pairs and settings for TLC |
| `TrustLevelProofs` | - | theorems about `TrustLevel`, of any overlap and, in its second part, of requests one at a time |
| `LockoutPolicy` | `LockoutPolicy` of `security_kit/guards.py` | no state: `is_locked`, `on_failure`, `on_success` as operators; `Accounts` stores what they return |
| `Verification` | `verification_service.py` | `codes`, `links`: one-time codes by phone and links by e-mail, what a request reads of them and what it writes. `Accounts` runs the operations |
| `Accounts` | `auth_kit/service.py`, `auth_kit/router.py`, `AdminSuspendService` as far as it writes `users` | `users`, `tokens`, `social`, `sealed`, `nonces`, the clock, and per worker `pc`, `req`. One action for each operation's reads and decision; the commits are grouped by what they write: `CommitCreate`, `CommitIssue`, `CommitRotate`, `CommitRevoke`, `CommitUpdate`, `CommitLink`, `CommitPurge`, `CommitVerification`. `logout` and `purge_expired_tokens` are single statements and single steps. |
| `TokenRegister` | - | the abstract register of refresh tokens that `Accounts` implements |
| `MCAccounts` | - | the eight mixes for TLC |
| `AccountsProofs` | - | theorems about `Accounts`, of any overlap and, in its second part, of requests one at a time |
| `MatchScore` | `schedule_slots.py`, `matching_service.py`, `trust_score_service.py`, the questionnaire of `parenting_values_service.py` | the arithmetic, as operators |
| `Family` | consents, children, profiles, values, schedules, logs, evaluations, scores, matching, chat, notifications | `db`, `last`, `mix`, `req`; one action per operation, with the rows it wants to write or delete, and `Commit` |
| `MCFamily` | - | the fourteen mixes for TLC, and two statements of documents that the code does not keep |
| `FamilyInvariant` | - | the inductive invariants of `Family`, of any overlap (`FamilyInv`) and, beyond it, of requests one at a time (`FamilySerialInv`) |
| `FamilyProofs`, `FamilySerialProofs` | - | theorems about `Family`: of any overlap, of requests one at a time |
| `Guards` | `RateLimiter`, `NonceStore` | `_hits`, `_seen`, the clock, and the history `granted`, `used`, `free`, `reply`; one action per method. A method has no await and is one step. |
| `AccessLimits` | - | the abstract limits, which remember every call; `Guards` implements them |
| `GuardsInvariant` | - | the inductive invariant of `Guards` |
| `MCGuards` | - | symmetry for TLC |
| `GuardsProofs` | - | theorems about `Guards` |

How a request runs through `CareSession`:

- `accept` for a pair without a relationship commits twice before the hold:
  `grant_l1` inserts the relationship and commits the session's new status with
  it (`CommitAcceptNew`), then the events and the notification
  (`CommitAccept`), then `create_hold` reads the balances and checks the limit
  again (`ReadHold`), then the posting (`CommitPosting`).
- `checkout` commits the times (`CommitCheckout`), settles (`ReadSettle`,
  `CommitPosting`), and logs the completion (`CommitComplete`).
- `cancel`, `report_no_show` and `emergency_suspend` commit the new status and
  then resolve the holds, highest id first, skipping those that are not HELD
  (`ReadResolve`, `CommitPosting`, once for each hold).

In `TrustLevel`, `confirm_joint_session` is one commit (`CommitConfirm`) when the
settings of both users exist. Otherwise `get_or_create` inserts a row and
commits on its way, and with it the confirmation and the count, but not the
promotion (`CommitConfirmAndSettings`); then the row is read back and the other
user's settings are looked up (`ReadSettings`, `CommitSettings`), and the
promotion is a commit of its own (`CommitPromotion`), decided from the level and
the count read at the beginning.

How modules compose. `CareSession` extends `PointLedger`, so that one commit of a
session and one posting are steps of one state machine. `Accounts` extends
`Verification`, which extends `LockoutPolicy`. `Family` extends `MatchScore`, and
starts from what care sessions, in any of the states they end in, have left
(`CareLeft`): the session, its hold, its entries. What `CareSession` and `Family` say of the
account gate (`Authenticated`) is `Admitted` of `Accounts`.

## 5. Runs

| run | instance | shows |
| --- | --- | --- |
| `CareSerial` | 2 users, 2 sessions, a day of 2 slots, clock to 3, one request at a time, which may fail between commits | `SerialInv`, the invariant the proofs use; `NoDoubleBooking`, `HeldIsBacked`, `BooksBalance`, `LedgerJustified`, `FaultOnlyWithoutCare`, `StatusForward` |
| `CareSuspension` | the same with suspension and evaluations instead of rejection, cancellation and no-show, clock to 1 (enough for a full slot of care) | `SuspendedNotConfirmed`, `CompletedMeansPaid`, `LedgerJustified` (completed care that is cancelled by a suspension stays paid, and paid once; 2,201,617 states) |
| `CareLive` | 1 session, no failures, fair requests | `HoldResolved` |
| `CareConcurrent` | 2 requests in flight of every handler, 1 session, the pair related before or not | `CareInv` and the three properties that survive all races |
| `TrustSerial` | 1 pair, 2 joint sessions, required counts from 1 to 3, default 2, one request at a time | `CountExact`, `LevelIsHistory`, `UnlockMeetsBoth`, `PromotedWhenDue` |
| `TrustConcurrent` | 2 requests in flight of every handler, minimum 2, with failures | `TrustInv`, `CountBacked`, `SoloEarned` |
| `Accounts` | 2 accounts, 3 tokens, 2 phones, 1 e-mail, 2 identities, 1 nonce, 2 codes, 2 links, clock to 3, 2 requests; 8 mixes (424,438 states) | the refinement `Registered`; `NoOrphans`, `LinkNeverMoves` of any overlap; `OneLivePerLogin`, `WithdrawnHasNoSession`, `PhoneHeldOnce`, `SanctionSealed`, `SuspensionHolds`, `LockedMeansFull`, `GuessesBounded` one at a time |
| `Family` | up to 3 guardians, 3 dates, 2 children, 3 sessions of before, 2 requests; 14 mixes (132,919 states) | every reference leads to a row (`TypeOK`) and `ConsentStays`, of any overlap; `ShiftsKept`, `HistoryFaithful`, `ScoresInRange` one at a time |
| `Guards` | 2 callers, 1 nonce, 2 calls per window of 3 ticks, ttl of 2, 2 ticks a second, clock to 6 (773,457 states) | the refinement `LimitsKept`; `RetryHonest` |
| `ClaimSettledWithinHold`, `ClaimNightCovered`, `ClaimReserveIsHeld` | an instance with the history | each refutes one statement of a document, see section 7 |

Why these bounds:

- Two users are the two parties of a session, in both roles, and either can be
  suspended. Two sessions are what an overlap, an evaluation gate, a rematch, a
  suspension with several holds and a balance limit reached by a first session
  need. Two slots give disjoint, equal and containing ranges; two ticks around
  the deadline and the end of a session give both sides of each boundary.
- `SEED_POINTS = 1` and a limit of -1 put the limit within reach of two holds.
- In the concurrent instances two requests meet in any interleaving of their
  transactions. A third request can only repeat what one of the two may do, and
  the proofs cover any number. `CareConcurrent` has one session and starts at the
  session's time with `DeadlineLead = 0`, so that a single tick separates an
  early from a late cancellation and care of no slot from care of one.
- `CareConcurrent` runs without `Fail`: a request that never takes its next step
  leaves the same database behind and only frees its slot. The proofs
  include failures.
- Two joint sessions with a minimum of 2 is the least instance in which a count
  written twice, from stale reads, would unlock solo care too early.
- In `Accounts` two accounts meet over a phone, an e-mail and an identity; three
  tokens are a login, its rotation and a second rotation or a second login;
  three points in time are before, at and after each boundary, all durations
  being 1 or 2; two failures lock an account, so that one failure is neither. The
  mixes put together what can interact: an account's sessions; its whole life;
  identities; deletion against links; deletion against cancellation and sanction;
  the two proofs before sign-up. Each mix with `serial` also says what the same
  requests do without overlap.
- In `Family`, three guardians make a ranking of two candidates, three dates a
  night between two other shifts, two children a mean. The cells are at 300
  metres (near) and 1500 (too far); the ages 0 and 60 months differ by more than
  the largest difference that counts; the answers lie on both sides of the
  midpoint; the balances of weights include a negative one and one that does
  not sum to 1. The sessions of before are open, done, or missed by either.
- In `Guards` two calls fill a window, three windows' time lets a first, a second
  and a third window follow one another, and two ticks a second separate a wait
  of whole seconds from one of a half.

Deadlock is checked wherever a handler can always be called (a suspension, a
change of settings). `CHECK_DEADLOCK FALSE` stands where it cannot: with the last
session id given out, everybody's sessions closed and the clock at its bound,
nobody has a call left to make. So it is in `Accounts` and `Family`: when the
numbers of the rows are used up and the clock has stopped, a mix may have nothing
left to call. `Guards` never stops, and is checked for it.

Fairness: `FairSpec` assumes weak fairness of `Proceed(w)` for each worker and
nothing else. The event loop keeps running a coroutine once its awaited query
has returned, so that a request in flight goes on to its end; users need not
call anything and the clock need not move. `HoldResolved` is meaningful under it
because the handler that closes a session also resolves its hold; with
`Failures` it cannot be promised, since nothing retries a resolution. No liveness is
stated of the purge: the repository has the job and nothing that calls it.

What the properties watch for:

- `HeldIsBacked`, `BooksBalance`: two accounts, the holds and the entries are
  written in several transactions of different handlers; the sums must agree at
  each of the points where a request may stop.
- `LedgerJustified` recomputes from the session's row what each entry should be:
  slots of care up to the hold, or a full forfeiture after the deadline.
- `NoDoubleBooking` is checked by the code at creation only; `StatusForward` is
  what makes that enough.
- `SuspendedNotConfirmed` relies on `accept` being closed to a suspended provider
  and on the suspension cancelling the requester's open requests too.
- `CountBacked`, `SoloEarned`: counts are written from stale reads, settings may
  be lowered, raised or inserted meanwhile, levels may be taken away and given
  back, and still nobody gets solo care on fewer joint sessions than the minimum.
- `UnlockMeetsBoth`, `PromotedWhenDue`: together, promotion happens exactly when
  both requirements are met, across the two to four transactions it may take.
- `Registered`: `TokenRegister` says a token is issued once, to one account, and
  never live again once revoked or deleted, and that a step issues at most one.
  Every commit of `Accounts` must be a step of it, however stale what it read.
- `NoOrphans`: logins, rotations, links and sign-ups commit while the purge deletes
  the account they are for. Only the keys of the database stand between them.
- `SuspensionHolds`: `is_active` is cleared by a suspension and by a withdrawal, and
  set by a cancelled withdrawal without a question why it was cleared. An account
  suspended outside a withdrawal must stay so: it is never made active, begins no
  withdrawal (which could be cancelled), is not purged, and no token is issued to it.
  What keeps it so are the guards of six operations together. An account suspended
  *during* a withdrawal is not covered: its cancellation gives it back
  (`auth_kit/service.py:599`), and no document says whether it should.
- `SanctionSealed`: `is_sanctioned`, on the other hand, must reach the sealed phones
  whatever came between the sanction and the purge.
- `TypeOK` of `Family` is its referential integrity: no log, hold, evaluation,
  history entry or message outlives its child, session, account or
  relationship, whatever was deleted while it was being added.
- `HistoryFaithful`, `ShiftsKept`: rows written from others read before, in sequences
  of any length.
- `LimitsKept`: `Guards` forgets calls and values as it prunes and sweeps, and must
  still answer like a limit that remembers them all.

## 6. Proofs

The theorems are about any number of users, sessions, slots, tokens, callers and
requests. Those of `CareSessionProofs`, `FamilyProofs` and the first parts of
`TrustLevelProofs` and `AccountsProofs` let requests overlap in any way; those of
`CareSerialProofs`, `CareBooksProofs`, `FamilySerialProofs` and the second parts of
`TrustLevelProofs` and `AccountsProofs` let one begin when the one before has ended.
In both, a request may fail between its transactions unless a theorem says
otherwise. `Serial` and `~Failures` are hypotheses of the theorems that need them.
The assumptions are those named in the modules:

- `LedgerAssumption`, and `CareAssumption`: `None` is no user and no number, times
  and slots are natural numbers;
- `TrustAssumption`: user ids are numbers, the minimum is at least 1 and no more
  than the default;
- `LockoutAssumption`, `VerificationAssumption`, and `AccountsAssumption`: `None` is
  nobody's phone, e-mail or identity, durations are numbers, and limits and the
  time of grace are at least 1;
- `FamilyAssumption`: user ids are positive numbers, there are finitely many
  guardians and tags, and the requester and the provider of the past sessions are
  two of them; ages, answers and ratings are what the schemas admit (0 to 216 months,
  1 to 5); the bounds `MaxRows` are any numbers; the rows a mix starts from fit in them
  and belong to users that mix has;
- `GuardsAssumption`: a limit, a window and a ttl are at least 1.

`CareSessionProofs`: `CareInvariantHolds` (`Spec => []CareInv`), and from it
`TypesHold`, `CareNeedsRelationship`, `LedgerIsCaused`; `HoldsAreFinal` is an
action property. `TypeOK` and the two safety properties are not inductive: they
depend on what requests in flight are about to write. `CareInv` adds

- to each session: it has its two parties as soon as it exists, a check-out only
  after a check-in, a relationship as soon as it is confirmed, checked in or has
  a hold, and a logged acceptance as soon as it has a hold;
- to each request (`Reliable`): of what it has read, the part nobody takes back -
  the session exists and has these parties, the check-in it saw is still there,
  the relationship it saw is still there;
- to each step (`StepInv`, `WorkInv`): what the request itself has committed
  before it, e.g. that a posting about to be written has its cause on record.

The argument is that the database only grows in these respects: parties never
change, relationships, events, holds and entries are never deleted, and times
once recorded stay recorded. The status is *not* among them - overlapping
handlers overwrite each other's - and no part of `CareInv` relies on it beyond
"a confirmed session has a relationship". The proof has a lemma for what a step
of one worker leaves to the others, and a lemma for each action.

`CareSerialProofs`, of requests one at a time: `CareSerialInvariantHolds`, and from it
`NobodyBookedTwice`, `EntriesJustified`, `FaultMeansNoCare`, `NobodySuspendedConfirmed`,
`CompletedIsPaid`; without failures also `HeldMeansOpen` (`HeldOnlyWhileOpen`; no
run checks it, as a hold left over would break `HoldResolved` as well); and the action property
`SessionsMoveForward`. `CareSerialInv` has two halves:

- `SessionFits` says of each session what its row, its hold, its entries and its
  events have to do with each other: a hold has the amount of the booked slots, a
  SETTLED one a check-out, a released or forfeited one a session that is over; a
  fault fits the times; an open session has no suspended requester.
- `CommitFits`, `LaterFits` and `PostFits` say what the request in flight may still
  rely on. Before its first commit: all it read (`FirstFits`), because nobody else
  has written since. After it: what that commit has made of the session, e.g.
  that an accepted session has neither hold nor entry when `create_hold` reads, and
  that a posting is one the code would decide on now, with the balances as they are.

`LedgerJustified` recomputes an entry from the session's row, so that no later
handler may change what it was computed from; this is where the status order
(`StatusForward`) and the times of `FaultFits` are needed. Failures only free the
worker: what a request leaves when it stops half-way is a state `SessionFits`
allows. `OpenOrInHand` is the one conjunct that failures break, and stands under
`~Failures`.

`CareBooksProofs`: `SerialInvariantHolds`, `BooksInvariantHolds`, `HoldsBackHeldBalance`
(`HeldIsBacked`), `PointsAreConserved` (`BooksBalance`). A sum is a recursive function on
`0..n`. Two lemmas are all the steps need - two vectors that agree have the same
sum, and two that differ at one place differ in their sums by as much - and both
are proved by the least number at which they would fail, since a set of naturals
that is not empty has a least element. Each commit of a session leaves both sums
alone; each posting changes one hold, and adds at most one entry, so that the
deltas of its posting are the differences of the sums. That the two parties are
different users (`TwoParties`) is not checked by the code; it follows from both
schedules having been looked at, and without it an entry would count once only.

`TrustLevelProofs`: `TrustInvariantHolds`, `CountIsBacked`, `SoloIsEarned`. The
order `Kept` says how joint sessions move on: the pair and the initiator stay,
confirmations and completion are never taken back. Every step satisfies it, so
that the number of completed sessions of a pair never falls (`KeptGrows`). The
count a request has read plus one is at most the number of sessions completed
together with the one it completes itself (`Reliable`); that remains true while
others commit, and is what the commit needs (`ConfirmWritten`). A promotion
compares that count with requirements that are never below the minimum
(`EnoughAsked`, `PromotionEarned`), hence L3 is earned, and remains so after a
demotion and through every stale read, because completed sessions remain.

The second part of `TrustLevelProofs`, of requests one at a time: `TrustSerialInvariantHolds`, and from it
`CountIsExact`, `HistoryLeadsToLevel`, the action property `UnlockNeedsBoth`
(`UnlockMeetsBoth`), and without failures `PromotedIsDue` (`PromotedWhenDue`). What the
request has read stays so (`ReadFits`): the level and the settings until its end, the
count until its own commit, and one more after it. `NextIsMissing` says that a user
it found without settings has none, which is why the unique key never refuses the
row `get_or_create` inserts. The history of a pair is a chain of moves of one
level each (`Chained`) that ends at its level.

`AccountsProofs`, about any overlap:

- `AccountsTyped` and `TokensImplementRegister` (`Spec => Registered`) from one
  invariant, `RegisterInv`. Beyond the types it says what a request in flight
  knows and nobody can take back: the token it wants to rotate was issued, to the
  account it is about; the accounts a purge is to seal exist and have a phone. Each commit is then a step of
  `TokenRegister`: a rotation that was overtaken by another still finds its token
  issued, and one whose row is deleted is refused by the database.
- `LinksNeverMove`: the key of `social_accounts` refuses a second link, and only a
  purge clears one.
- `NothingOrphaned` (`Spec => []NoOrphans`) needs `Creations` besides: a request that
  creates an account writes a row that is present. A commit that adds a token or a
  link does so for an account it finds or inserts in the same step, and the purge
  takes both along.

The second part of `AccountsProofs`, of requests one at a time: `SerialInvariantHolds`
(`Spec => [](RegisterInv /\ SerialInv)`), and from it `OneLive`,
`WithdrawalEndsSessions`, `PhonesHeldOnce`, `SanctionsSealed`, `LocksAreFull`,
`GuessesAreFew` and the action property `SuspensionsHold`. `SerialInv` says that
at most one request is in flight and is `Fresh`: the row it has read is the row
in the table, and active if the request is a login, a rotation or a withdrawal; the
phone it wants is free, the token it rotates is live, the accounts it purges are
due, with the seals they need. While it is in flight only
the clock moves, so that this stays so until it commits; the lemmas then show for
each commit that it keeps `DataInv`, the seven properties with what they
need (the login of a token was issued; guesses are what the column counts). With
these, every property of the run `Accounts` is proved. `SuspensionsHold` follows from
what is `Fresh`: no commit is about a row that is suspended, except those that leave
`is_active`, `purge_at` and the account's tokens as they are (`NotOfSuspended`,
`RowHeld`, `OthersHeld`).

`FamilyProofs`, about any overlap: `FamilyInvariantHolds`, and from it
`ReferencesAreKept` (`TypeOK`: no row refers to one that is gone) and
`ConsentsAreKept` (`ConsentStays`). TLC checked `FamilyInv` and `FamilySerialInv` on the
instance of the run `Family` before they were proved. `FamilyInv` says

- of each row, in the database or about to be written (`RowFits`): it is of its
  table, and refers to what its key and columns say. References go down in `Rank`,
  from logs to sessions to children to accounts, so that three rounds of `Cascade`
  reach all that hangs on a deleted row;
- of each request (`RequestFits`): of what it has read, the part nobody takes back.
  A row it wants to update belongs to whom it did (`ReadFits`). A consent that was
  answered is deleted with its account only (`AgreementStays`), and then the
  database refuses the child that was to be inserted on the strength of it;
- of each child: its consent is answered, and an entry of the access log says who
  registered it. `create_child` writes both rows in one transaction (`WriteFits`), and
  nothing deletes the one without the other;
- of the terms: an account on its way through the sign-up has the three required
  ones, which are written with its status.

An update merges the columns it changed into the row it finds (`MergedFits`), and
that row is of the same kind and has the same owner as the one it has read,
whoever wrote it since. This is why the references and the required terms hold of
every overlap, while histories and shifts, which are decided on what was read, hold
of requests one at a time.

`FamilySerialProofs`, of requests one at a time: `FamilySerialInvariantHolds`, and from
it `ShiftsAreKept`, `HistoryIsFaithful` and `ScoresStayInRange`. `FamilySerialInv` adds
that what the request in flight has read is what the database says (`UpToDate`), so
that a merge writes just what was decided; that shifts, types and weights are
`Sound`, each computed from the columns beside it; and that values are written
together with the next entry of their history (`Records`), with a number above all
others. Since numbers are not given twice, the entry with the highest number is
the one that was written last (`Recorded`). The scores rest on a lemma for each
part: rates, similarities and the distance score are in 0..100. A sum over
rows is the cardinality of a disjoint union (`Total`), which bounds it by the
number of rows times the largest term, and an average of such terms by that term;
the weights sum to 100, so that the weighted sum stays in the range too. The
code lets an administrator set a negative weight; the statement leaves these out,
as the property says.

`GuardsProofs`: `GuardsInvariantHolds`, the refinement `GuardsImplementLimits`
(`Spec => LimitsKept`) and the invariant `RetryHonest` (`RetryIsHonest`). The calls the limiter
remembers are the last ones of those it has granted, and all it has forgotten are
out of the window (`HitsFit`), because calls come in order; so `_prune` leaves the same
number that `AccessLimits` counts in the window. The same for the values the store
has swept (`SeenFits`). `FreeFits` relates the time a refused caller was told to the
call that was in the way: it is never before that call leaves the window, and at
most one second, which the rounding adds, after it. It is exactly one second when the
wait is a whole number of them (`security_kit/guards.py:121` truncates and adds one).

Only model-checked: `HoldResolved`, which is liveness under fairness. Every other
property of a run that must pass is stated by a theorem.

## 7. Where code and documents disagree

TLC shows three of these with a run of their own, which ends with the history in
question:

| run | statement | what the code does |
| --- | --- | --- |
| `ClaimSettledWithinHold` | care is settled up to the hold (`docs/tasks/T-PNT-2.md:27`) | two overlapping check-outs both pay |
| `ClaimNightCovered` | a night shift takes slots of its date and of the next by AND, and shifts of a date merge (`docs/tasks/T-SCH-1.md:64-67`) | `register_shift` replaces the mask of its own date: registering the date after a night frees the morning of it again |
| `ClaimReserveIsHeld` | completion, cancellation or no-show resolves a hold (`app/models/point_hold.py:3`) | deleting the child deletes its sessions and their holds; `held_balance` stays |

The others follow from the modules in the same way:

- Confirming a session sets its points aside (`app/models/point_hold.py:1-2`):
  `accept` commits CONFIRMED before `create_hold` checks the limit again; refused,
  it leaves a confirmed session without a hold.
- Emergency suspension stops sessions under way or to come
  (`app/services/admin_service.py:58`): a completed session keeps the status
  CONFIRMED and is cancelled as well.
- A late cancellation hands the hold to the other party
  (`app/services/care_session_service.py:268`): not when the provider cancels. The
  hold returns to the requester, and the provider is only recorded as at fault.
- Completion, cancellation or no-show resolves a hold (`app/models/point_hold.py:3`):
  a cancellation between `accept`'s commit and its `create_hold` finds none; the
  hold is created afterwards and stays HELD.
- A joint session counts once both confirm it
  (`docs/requirements/요구사항정의서_품앗이온_v1.2.md:103`): two overlapping confirmations
  each see only their own; both are stored and the session stays SCHEDULED.
- The ledger survives an account without identities
  (`docs/requirements/요구사항정의서_품앗이온_v1.2.md:68`): both users of an entry are
  references with ON DELETE CASCADE, and the purge of one deletes the entries of both.
- A trust score lies between 0 and 1 (`app/dtos/trust_dto.py:37`): `update_weights`
  accepts negative weights that sum to 1. `ScoresInRange` leaves them out.
- The database refuses what `assert_unique` lets pass
  (`auth_kit/verification_service.py:38`): for e-mails, yes; `phone_hash` has an
  index that is not unique.
- Old consents are filtered by `require_reagreement()`
  (`auth_kit/terms_catalog.py:8`): no such function exists.

Properties that hold of requests one at a time and not of overlapping ones, found
by adding them to the concurrent instances or by dropping `mix.serial =>`:

- `HeldIsBacked` and `BooksBalance` (lost updates of the account columns),
  `NoDoubleBooking` (two requests check before either inserts),
  `FaultOnlyWithoutCare` (a check-in between the read and the commit of a
  cancellation), `CountExact` (two sessions completed at once count as one) and
  `LevelIsHistory` (a demotion and a promotion that overlap). With failures, a
  promotion can be lost: when a request ends between the commit inside
  `get_or_create` and `CommitPromotion`, the joint session counts, but the pair
  stays at L2 until its next joint session.
- `OneLivePerLogin` (two rotations of one token both find it live, and reuse
  detection sees neither), `WithdrawnHasNoSession` (a login that overlaps the
  withdrawal), `PhoneHeldOnce` (two sign-ups with one phone), `SanctionSealed` (a
  sanction between the read and the commit of the purge), `SuspensionHolds` (a
  cancellation that overlaps a suspension), `LockedMeansFull` (a success and a
  failure write the two columns of the lock apart), `GuessesBounded` (the count
  of wrong codes is read, raised and written).
- `ShiftsKept` and `HistoryFaithful` (both write from a row read before),
  `ScoresInRange` (two changes of the weights, each writing the columns it
  changed, leave weights that do not sum to 1).

## 8. Not modelled, and why

- In `CareSession`: the child and its owner, `is_solo` (its gate is in
  `TrustLevel`), the meeting place and the distance at check-in, rest times,
  messages, several care dates: they add conditions to a handler, but no state
  that the properties speak of. Schedules are a free input: `create_request`
  may find any of the `Schedules`. Accounts are open from the start;
  `get_or_create` of an account commits a row with the seed, which no property
  would tell apart.
- In `TrustLevel`: places and dates of joint sessions, and the account gate,
  which stands before every handler in the same way as in `CareSession`.
- In `Accounts`: nicknames, the normalisation of e-mails and phones, the rules for
  passwords, the e-mails and messages that are sent, a time of grace of zero,
  cookies and headers. A password-reset token is signed and recorded nowhere, so
  that `reset_password` may come at any time for any account with a password.
- In `Family`: descriptive columns, free texts (the code stores a narrative and
  repeats the scores; correcting them is a stub), the distance of
  two cells (a constant), the top tags of a candidate.
- In `security_kit`: encryption, hashing and signed tokens, which keep no state and
  whose strength is not a matter of states. `RateLimiter` and `NonceStore` are modelled as a
  library: the application creates neither.
- Handlers that only read: lists, statistics, the dashboard.
- The client, the AI worker, migrations and deployment keep no state of the
  exchange.
