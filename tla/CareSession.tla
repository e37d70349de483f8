---------------------------- MODULE CareSession ----------------------------
(***************************************************************************)
(* Care sessions (CAR) and everything their handlers touch: the request /  *)
(* accept / reject / check-in / check-out / cancel / no-show handlers of   *)
(* app/services/care_session_service.py, the emergency suspension of       *)
(* app/services/admin_service.py, evaluations, and the point ledger.       *)
(*                                                                         *)
(* Each of the Workers is a slot for one HTTP request in flight.  A        *)
(* request is a sequence of database transactions.  The first step of a    *)
(* transaction reads: under InnoDB's REPEATABLE READ every SELECT of it    *)
(* sees one snapshot, so reading, checking and deciding what to write are  *)
(* one step.  The last step commits: it writes the columns decided on,     *)
(* whatever other requests have committed in between, since no row is      *)
(* locked for reading and no row has a version.  A request that fails a    *)
(* check before its first commit changes nothing, and is not a step.       *)
(* Fail(w) is a request that stops between two steps: a crash, a lost      *)
(* database connection, a transaction chosen as deadlock victim.           *)
(***************************************************************************)
EXTENDS PointLedger, FiniteSets

CONSTANTS None,           \* SQL NULL
          Workers,        \* requests that can be in flight at a time
          Serial,         \* TRUE: a request starts only when none is in flight
          Failures,       \* TRUE: a request in flight may stop half-way
          Operations,     \* the handlers that are called
          Schedules,      \* the work schedules (available slots) users may have
          Acquainted,     \* pairs that earlier sessions may have related
          NumSlots,       \* slots of the day (48 in the code)
          TicksPerSlot,   \* clock ticks of one slot of SLOT_MINUTES minutes
          DayStart,       \* clock value at which slot 0 of the day starts
          DeadlineLead,   \* CANCELLATION_DEADLINE_HOURS, in ticks
          MaxTime         \* bound: the last clock value

AllOperations == {"create", "accept", "reject", "checkin", "checkout", "cancel",
                  "no_show", "suspend", "evaluate"}

ASSUME CareAssumption ==
    /\ None \notin Users \cup Nat
    /\ Serial \in BOOLEAN
    /\ Failures \in BOOLEAN
    /\ Operations \subseteq AllOperations
    /\ NumSlots \in Nat
    /\ Schedules \subseteq [Users -> SUBSET (0..(NumSlots - 1))]
    /\ Acquainted \subseteq SUBSET Users
    /\ TicksPerSlot \in Nat \ {0}
    /\ DayStart \in Nat
    /\ DeadlineLead \in Nat
    /\ MaxTime \in Nat

VARIABLES sessions,      \* care_sessions
          related,       \* pairs with a row in trust_relationships
          evaluations,   \* care_evaluations: <<session, evaluator>>
          events,        \* hypothesis_events
          notifications, \* notifications
          suspended,     \* users with is_active = FALSE
          now,           \* datetime.now(UTC)
          pc,            \* per worker: the next step of its request
          req,           \* per worker: the request and what it read first
          todo,          \* per worker: sessions whose hold is to be resolved
          work           \* per worker: the point posting it will commit

dbVars == <<ledgerVars, sessions, related, evaluations, events, notifications, suspended>>

workerVars == <<pc, req, todo, work>>

vars == <<dbVars, now, workerVars>>

Time == 0..MaxTime

CareSessionStatus == {"REQUESTED", "CONFIRMED", "REJECTED", "CANCELLED", "NO_SHOW"}

(* A row of care_sessions; the status NONE says that there is no row yet.  *)
(* actual_minutes is kept in ticks.                                        *)
Row == [requester    : Users \cup {None},
        provider     : Users \cup {None},
        start_slot   : Nat,
        end_slot     : Nat,
        status       : CareSessionStatus \cup {"NONE"},
        checkin_at   : Time \cup {None},
        checkout_at  : Time \cup {None},
        actual       : Nat,
        cancelled_at : Time \cup {None},
        at_fault     : Users \cup {None}]

NoRow == [requester |-> None, provider |-> None, start_slot |-> 0, end_slot |-> 0,
          status |-> "NONE", checkin_at |-> None, checkout_at |-> None,
          actual |-> 0, cancelled_at |-> None, at_fault |-> None]

EventType == {"REQUEST_CREATED", "REMATCH_REQUESTED", "REQUEST_ACCEPTED",
              "REQUEST_REJECTED", "SESSION_COMPLETED", "TRUST_LEVEL_TRANSITION"}

NotificationType == {"REQUEST_CREATED", "REQUEST_ACCEPTED", "REQUEST_REJECTED",
                     "SESSION_COMPLETED", "SESSION_CANCELLED", "NO_SHOW_REPORTED",
                     "TRUST_LEVEL_TRANSITION"}

Event == [type : EventType, session : SessionIds]

Notification == [to : Users, type : NotificationType, session : SessionIds]

(* What a worker's request knows after its first read.  op is the handler *)
(* ("rematch" and "accept_new" are the variants of create and accept that  *)
(* the read selects), actor the caller (in emergency_suspend the account   *)
(* to suspend), row the session as read, at the time of the call, stopped  *)
(* the sessions emergency_suspend cancels and late past_deadline.          *)
Request == [op      : AllOperations \cup {"none", "rematch", "accept_new"},
            actor   : Users \cup {None},
            session : SessionIds \cup {0},
            row     : Row,
            at      : Time,
            stopped : SUBSET SessionIds,
            late    : BOOLEAN]

NoRequest == [op |-> "none", actor |-> None, session |-> 0, row |-> NoRow,
              at |-> 0, stopped |-> {}, late |-> FALSE]

Steps == {"idle", "commit", "log", "hold", "resolve", "settle", "post", "complete"}

(* A posting with the session it is for and the account columns its method *)
(* read.                                                                   *)
Work == [session : SessionIds \cup {0},
         posting : Posting,
         balance : [Users -> Int],
         held    : [Users -> Int]]

Zero == [u \in Users |-> 0]

NoWork == [session |-> 0, posting |-> NoPosting, balance |-> Zero, held |-> Zero]

-----------------------------------------------------------------------------
(* Reading the database.                                                   *)

Exists(s) == sessions[s].status # "NONE"

IsParty(u, row) == u \in {row.requester, row.provider}

Counterparty(u, row) == IF u = row.requester THEN row.provider ELSE row.requester

Active(row) == row.status \in {"REQUESTED", "CONFIRMED"}

Pair(row) == {row.requester, row.provider}

(* Two half-open slot ranges meet.                                         *)
Overlaps(row, start, end) == row.start_slot < end /\ row.end_slot > start

(* Slip: only open requests count. *)
has_overlap_slip(u, start, end) ==
    \E s \in SessionIds : /\ IsParty(u, sessions[s])
                          /\ sessions[s].status = "REQUESTED"
                          /\ Overlaps(sessions[s], start, end)

has_overlap(u, start, end) ==
    \E s \in SessionIds : /\ IsParty(u, sessions[s])
                          /\ Active(sessions[s])
                          /\ Overlaps(sessions[s], start, end)

has_completed_pairing(u, v) ==
    \E s \in SessionIds : /\ Exists(s)
                          /\ Pair(sessions[s]) = {u, v}
                          /\ sessions[s].checkout_at # None

has_pending_evaluation(u) ==
    \E s \in SessionIds : /\ IsParty(u, sessions[s])
                          /\ sessions[s].checkout_at # None
                          /\ <<s, u>> \notin evaluations

(* The provider is available in every slot asked for and the requester is  *)
(* in none.                                                                *)
Complementary(schedule, u, v, start, end) ==
    start..(end - 1) \subseteq schedule[v] \ schedule[u]

SlotTime(k) == DayStart + k * TicksPerSlot

_scheduled_start(row) == SlotTime(row.start_slot)

ScheduledEnd(row) == SlotTime(row.end_slot)

past_deadline(row) == now > _scheduled_start(row) - DeadlineLead

(* Slips: the status is not checked; the check-in is not checked. *)
_get_requested_session_slip(u, s) == sessions[s].provider = u

_get_cancellable_session_slip(u, s) ==
    IsParty(u, sessions[s]) /\ Active(sessions[s])

(* The session of an id, as the handlers of its provider and of its        *)
(* parties look it up; they turn the caller away otherwise.                *)
_get_requested_session(u, s) ==
    sessions[s].provider = u /\ sessions[s].status = "REQUESTED"

_get_confirmed_session(u, s) ==
    sessions[s].provider = u /\ sessions[s].status = "CONFIRMED"

_get_cancellable_session(u, s) ==
    /\ IsParty(u, sessions[s])
    /\ Active(sessions[s])
    /\ sessions[s].checkin_at = None

-----------------------------------------------------------------------------
(* The first read of each handler.                                         *)

CanStart(w, op) ==
    /\ op \in Operations
    /\ pc[w] = "idle"
    /\ Serial => \A v \in Workers : pc[v] = "idle"

(* Slip: a suspended account is still let in. *)
Authenticated_slip(u) == u \in Users

(* get_current_user turns away a user whose account is not active.         *)
Authenticated(u) == u \in Users \ suspended

Start(w, r, unresolved) ==
    /\ pc' = [pc EXCEPT ![w] = "commit"]
    /\ req' = [req EXCEPT ![w] = r]
    /\ todo' = [todo EXCEPT ![w] = unresolved]
    /\ UNCHANGED <<dbVars, now, work>>

(* The request of user u about session s.                                  *)
Ask(op, u, s, late) ==
    [op |-> op, actor |-> u, session |-> s, row |-> sessions[s], at |-> now,
     stopped |-> {}, late |-> late]

NewRow(u, v, start, end) ==
    [requester |-> u, provider |-> v, start_slot |-> start, end_slot |-> end,
     status |-> "REQUESTED", checkin_at |-> None, checkout_at |-> None,
     actual |-> 0, cancelled_at |-> None, at_fault |-> None]

(* Bound: there is an id left for every session being created.             *)
Room == Cardinality({w \in Workers : req[w].op \in {"create", "rematch"}})
            < Cardinality({s \in SessionIds : ~Exists(s)})

create_request(w, u, v, start, end) ==
    /\ CanStart(w, "create")
    /\ Room
    /\ Authenticated(u)
    /\ start < end
    /\ ~has_pending_evaluation(u)
    /\ ensure_can_request(u)
    /\ \E schedule \in Schedules : Complementary(schedule, u, v, start, end)
    /\ ~has_overlap(u, start, end)
    /\ ~has_overlap(v, start, end)
    /\ Start(w, [op |-> IF has_completed_pairing(u, v) THEN "rematch" ELSE "create",
                 actor |-> u, session |-> 0, row |-> NewRow(u, v, start, end),
                 at |-> now, stopped |-> {}, late |-> FALSE], {})

accept(w, u, s) ==
    /\ CanStart(w, "accept")
    /\ Authenticated(u)
    /\ _get_requested_session(u, s)
    /\ ~has_pending_evaluation(u)
    /\ Start(w, Ask(IF Pair(sessions[s]) \in related THEN "accept" ELSE "accept_new",
                    u, s, FALSE), {})

reject(w, u, s) ==
    /\ CanStart(w, "reject")
    /\ Authenticated(u)
    /\ _get_requested_session(u, s)
    /\ Start(w, Ask("reject", u, s, FALSE), {})

checkin(w, u, s) ==
    /\ CanStart(w, "checkin")
    /\ Authenticated(u)
    /\ _get_confirmed_session(u, s)
    /\ sessions[s].checkin_at = None
    /\ Start(w, Ask("checkin", u, s, FALSE), {})

checkout(w, u, s) ==
    /\ CanStart(w, "checkout")
    /\ Authenticated(u)
    /\ _get_confirmed_session(u, s)
    /\ sessions[s].checkin_at # None
    /\ sessions[s].checkout_at = None
    /\ Start(w, Ask("checkout", u, s, FALSE), {})

(* Only a confirmed session has a hold to resolve.                         *)
cancel(w, u, s) ==
    /\ CanStart(w, "cancel")
    /\ Authenticated(u)
    /\ _get_cancellable_session(u, s)
    /\ Start(w, Ask("cancel", u, s, past_deadline(sessions[s])),
             IF sessions[s].status = "CONFIRMED" THEN {s} ELSE {})

report_no_show(w, u, s) ==
    /\ CanStart(w, "no_show")
    /\ Authenticated(u)
    /\ IsParty(u, sessions[s])
    /\ sessions[s].status = "CONFIRMED"
    /\ sessions[s].checkin_at = None
    /\ now >= ScheduledEnd(sessions[s])
    /\ Start(w, Ask("no_show", u, s, FALSE), {s})

(* The caller is an administrator; u is the account to suspend.            *)
emergency_suspend(w, u) ==
    LET open == {s \in SessionIds : IsParty(u, sessions[s]) /\ Active(sessions[s])}
    IN  /\ CanStart(w, "suspend")
        /\ Start(w, [op |-> "suspend", actor |-> u, session |-> 0, row |-> NoRow,
                     at |-> now, stopped |-> open, late |-> FALSE],
                 {s \in open : sessions[s].status = "CONFIRMED"})

submit_evaluation(w, u, s) ==
    /\ CanStart(w, "evaluate")
    /\ Authenticated(u)
    /\ IsParty(u, sessions[s])
    /\ sessions[s].checkout_at # None
    /\ <<s, u>> \notin evaluations
    /\ Start(w, Ask("evaluate", u, s, FALSE), {})

-----------------------------------------------------------------------------
(* The first commit of each handler, and the later transactions.           *)

Doing(w, step, ops) == pc[w] = step /\ req[w].op \in ops

Finish(w) ==
    /\ pc' = [pc EXCEPT ![w] = "idle"]
    /\ req' = [req EXCEPT ![w] = NoRequest]
    /\ todo' = [todo EXCEPT ![w] = {}]
    /\ work' = [work EXCEPT ![w] = NoWork]

Continue(w, step) ==
    /\ pc' = [pc EXCEPT ![w] = step]
    /\ UNCHANGED <<req, todo, work>>

(* A handler that has committed a cancellation goes on to the holds.       *)
ResolveNext(w) == IF todo[w] = {} THEN Finish(w) ELSE Continue(w, "resolve")

log(type, s) == events' = events \cup {[type |-> type, session |-> s]}

notify(to, type, s) ==
    notifications' = notifications \cup {[to |-> u, type |-> type, session |-> s] : u \in to}

IsNext(s) == ~Exists(s) /\ \A t \in SessionIds : t < s => Exists(t)

CommitCreate(w) ==
    /\ Doing(w, "commit", {"create", "rematch"})
    /\ \E s \in SessionIds :
          /\ IsNext(s)
          /\ sessions' = [sessions EXCEPT ![s] = req[w].row]
          /\ log(IF req[w].op = "rematch" THEN "REMATCH_REQUESTED"
                                          ELSE "REQUEST_CREATED", s)
          /\ notify({req[w].row.provider}, "REQUEST_CREATED", s)
    /\ Finish(w)
    /\ UNCHANGED <<ledgerVars, related, evaluations, suspended, now>>

(* Slip: the new relationship is not part of the commit. *)
CommitAcceptNew_slip(w) ==
    LET s == req[w].session
    IN  /\ Doing(w, "commit", {"accept_new"})
        /\ Pair(req[w].row) \notin related
        /\ sessions' = [sessions EXCEPT ![s].status = "CONFIRMED"]
        /\ log("TRUST_LEVEL_TRANSITION", s)
        /\ notify(Pair(req[w].row), "TRUST_LEVEL_TRANSITION", s)
        /\ Continue(w, "log")
        /\ UNCHANGED <<ledgerVars, related, evaluations, suspended, now>>

(* grant_l1 finds no relationship: it inserts one and commits, and with it *)
(* the new status.  The pair is unique, so the transaction fails when      *)
(* another request has inserted it meanwhile.                              *)
CommitAcceptNew(w) ==
    LET s == req[w].session
    IN  /\ Doing(w, "commit", {"accept_new"})
        /\ Pair(req[w].row) \notin related
        /\ related' = related \cup {Pair(req[w].row)}
        /\ sessions' = [sessions EXCEPT ![s].status = "CONFIRMED"]
        /\ log("TRUST_LEVEL_TRANSITION", s)
        /\ notify(Pair(req[w].row), "TRUST_LEVEL_TRANSITION", s)
        /\ Continue(w, "log")
        /\ UNCHANGED <<ledgerVars, evaluations, suspended, now>>

(* The commit of accept itself: it carries the new status too when         *)
(* grant_l1 had nothing to do.                                             *)
CommitAccept(w) ==
    LET s == req[w].session
    IN  /\ \/ Doing(w, "log", {"accept_new"}) /\ UNCHANGED sessions
           \/ /\ Doing(w, "commit", {"accept"})
              /\ sessions' = [sessions EXCEPT ![s].status = "CONFIRMED"]
        /\ log("REQUEST_ACCEPTED", s)
        /\ notify({req[w].row.requester}, "REQUEST_ACCEPTED", s)
        /\ Continue(w, "hold")
        /\ UNCHANGED <<ledgerVars, related, evaluations, suspended, now>>

CommitReject(w) ==
    LET s == req[w].session
    IN  /\ Doing(w, "commit", {"reject"})
        /\ sessions' = [sessions EXCEPT ![s].status = "REJECTED"]
        /\ log("REQUEST_REJECTED", s)
        /\ notify({req[w].row.requester}, "REQUEST_REJECTED", s)
        /\ Finish(w)
        /\ UNCHANGED <<ledgerVars, related, evaluations, suspended, now>>

CommitCheckin(w) ==
    /\ Doing(w, "commit", {"checkin"})
    /\ sessions' = [sessions EXCEPT ![req[w].session].checkin_at = req[w].at]
    /\ Finish(w)
    /\ UNCHANGED <<ledgerVars, related, evaluations, events, notifications,
                   suspended, now>>

CheckedOut(row, at, spent) == [row EXCEPT !.checkout_at = at, !.actual = spent]

(* The time cared for is counted from the check-in as read.                *)
CommitCheckout(w) ==
    /\ Doing(w, "commit", {"checkout"})
    /\ sessions' = [sessions EXCEPT ![req[w].session] =
           CheckedOut(@, req[w].at, req[w].at - req[w].row.checkin_at)]
    /\ Continue(w, "settle")
    /\ UNCHANGED <<ledgerVars, related, evaluations, events, notifications,
                   suspended, now>>

(* The columns that end a session are written over those in the database.  *)
Closed(row, status, at, fault) ==
    [requester |-> row.requester, provider |-> row.provider,
     start_slot |-> row.start_slot, end_slot |-> row.end_slot,
     status |-> status, checkin_at |-> row.checkin_at,
     checkout_at |-> row.checkout_at, actual |-> row.actual,
     cancelled_at |-> at, at_fault |-> fault]

(* cancel writes at_fault_user_id only for a late cancellation of a        *)
(* confirmed session.                                                      *)
CommitCancel(w) ==
    LET s == req[w].session
        r == req[w]
    IN  /\ Doing(w, "commit", {"cancel"})
        /\ sessions' = [sessions EXCEPT ![s] = Closed(@, "CANCELLED", r.at,
               IF todo[w] # {} /\ r.late THEN r.actor ELSE @.at_fault)]
        /\ notify({Counterparty(r.actor, r.row)}, "SESSION_CANCELLED", s)
        /\ ResolveNext(w)
        /\ UNCHANGED <<ledgerVars, related, evaluations, events, suspended, now>>

CommitNoShow(w) ==
    LET s == req[w].session
        atFault == Counterparty(req[w].actor, req[w].row)
    IN  /\ Doing(w, "commit", {"no_show"})
        /\ sessions' = [sessions EXCEPT ![s] = Closed(@, "NO_SHOW", req[w].at, atFault)]
        /\ notify({atFault}, "NO_SHOW_REPORTED", s)
        /\ ResolveNext(w)
        /\ UNCHANGED <<ledgerVars, related, evaluations, events, suspended, now>>

CommitSuspend(w) ==
    LET u == req[w].actor
    IN  /\ Doing(w, "commit", {"suspend"})
        /\ suspended' = suspended \cup {u}
        /\ sessions' = [s \in SessionIds |->
               IF s \in req[w].stopped
               THEN Closed(sessions[s], "CANCELLED", req[w].at, sessions[s].at_fault)
               ELSE sessions[s]]
        /\ notifications' = notifications \cup
               {[to |-> Counterparty(u, sessions[s]), type |-> "SESSION_CANCELLED",
                 session |-> s] : s \in req[w].stopped}
        /\ ResolveNext(w)
        /\ UNCHANGED <<ledgerVars, related, evaluations, events, now>>

(* The pair (session, evaluator) is unique.                                *)
CommitEvaluation(w) ==
    LET key == <<req[w].session, req[w].actor>>
    IN  /\ Doing(w, "commit", {"evaluate"})
        /\ key \notin evaluations
        /\ evaluations' = evaluations \cup {key}
        /\ Finish(w)
        /\ UNCHANGED <<ledgerVars, sessions, related, events, notifications,
                       suspended, now>>

-----------------------------------------------------------------------------
(* The point transactions that follow.                                     *)

(* The method has read the accounts and decided on posting p of session s. *)
Prepare(w, s, p, rest) ==
    /\ pc' = [pc EXCEPT ![w] = "post"]
    /\ todo' = [todo EXCEPT ![w] = rest]
    /\ work' = [work EXCEPT ![w] = [session |-> s, posting |-> p,
                                    balance |-> balance, held |-> held_balance]]
    /\ UNCHANGED req

(* accept, after its commit: create_hold checks the limit once more.       *)
ReadHold(w) ==
    LET row == req[w].row
    IN  /\ pc[w] = "hold"
        /\ IF ensure_can_request(row.requester)
           THEN Prepare(w, req[w].session, create_hold(row.end_slot - row.start_slot), {})
           ELSE Finish(w)
        /\ UNCHANGED <<dbVars, now>>

(* What cancel, no-show and suspension decide for a hold that is HELD.     *)
Resolution(w, s) ==
    LET payerAtFault == sessions[s].at_fault = sessions[s].requester
    IN  IF req[w].op = "no_show"
        THEN resolve_hold_on_no_show(holds[s], payerAtFault)
        ELSE resolve_hold_on_cancel(holds[s], req[w].late, payerAtFault)

(* Slip: a hold that has been resolved is resolved once more. *)
ReadResolve_slip(w) ==
    LET made == {s \in todo[w] : holds[s].status # "NONE"}
    IN  /\ pc[w] = "resolve"
        /\ \/ made = {} /\ Finish(w)
           \/ \E s \in made :
                 /\ \A t \in made : t <= s
                 /\ Prepare(w, s, Resolution(w, s), {t \in todo[w] : t < s})
        /\ UNCHANGED <<dbVars, now>>

(* Sessions are taken from the highest id down, and one whose hold is not  *)
(* HELD is skipped.                                                        *)
ReadResolve(w) ==
    LET held == {s \in todo[w] : holds[s].status = "HELD"}
    IN  /\ pc[w] = "resolve"
        /\ \/ held = {} /\ Finish(w)
           \/ \E s \in held :
                 /\ \A t \in held : t <= s
                 /\ Prepare(w, s, Resolution(w, s), {t \in todo[w] : t < s})
        /\ UNCHANGED <<dbVars, now>>

(* check-out, after its commit: nothing to pay, a hold to settle, or a     *)
(* payment without hold.  has_settled raises an error when it finds more   *)
(* than one transaction of the session.                                    *)
ReadSettle(w) ==
    LET s == req[w].session
        rawSlots == sessions[s].actual \div TicksPerSlot
        isHeld == holds[s].status = "HELD"
    IN  /\ pc[w] = "settle"
        /\ \/ Len(ledger[s]) > 1 /\ Finish(w)
           \/ Len(ledger[s]) = 1 /\ Continue(w, "complete")
           \/ ~has_settled(s) /\ isHeld /\ Prepare(w, s, settle_hold(holds[s], rawSlots), {})
           \/ ~has_settled(s) /\ ~isHeld /\ rawSlots > 0 /\ Prepare(w, s, _transfer(rawSlots), {})
           \/ ~has_settled(s) /\ ~isHeld /\ rawSlots <= 0 /\ Continue(w, "complete")
        /\ UNCHANGED <<dbVars, now>>

CommitPosting(w) ==
    LET s == work[w].session
    IN  /\ pc[w] = "post"
        /\ Post(s, work[w].posting, sessions[s].requester, sessions[s].provider,
                work[w].balance, work[w].held)
        /\ IF req[w].op = "checkout" THEN Continue(w, "complete") ELSE ResolveNext(w)
        /\ UNCHANGED <<sessions, related, evaluations, events, notifications,
                       suspended, now>>

CommitComplete(w) ==
    LET s == req[w].session
    IN  /\ pc[w] = "complete"
        /\ log("SESSION_COMPLETED", s)
        /\ notify({req[w].row.requester}, "SESSION_COMPLETED", s)
        /\ Finish(w)
        /\ UNCHANGED <<ledgerVars, sessions, related, evaluations, suspended, now>>

-----------------------------------------------------------------------------
(* A unique constraint refuses the commit: the transaction rolls back and  *)
(* the request ends with an error.                                         *)
Refused(w) ==
    /\ \/ Doing(w, "commit", {"accept_new"}) /\ Pair(req[w].row) \in related
       \/ /\ Doing(w, "commit", {"evaluate"})
          /\ <<req[w].session, req[w].actor>> \in evaluations
       \/ pc[w] = "post" /\ HoldConflict(work[w].session, work[w].posting)
    /\ Finish(w)
    /\ UNCHANGED <<dbVars, now>>

Fail(w) ==
    /\ Failures
    /\ pc[w] # "idle"
    /\ Finish(w)
    /\ UNCHANGED <<dbVars, now>>

Tick ==
    /\ now < MaxTime
    /\ now' = now + 1
    /\ UNCHANGED <<dbVars, workerVars>>

(* A user calls a handler.                                                 *)
Call(w) ==
    \/ \E u, v \in Users, start \in 0..NumSlots, end \in 0..NumSlots :
          create_request(w, u, v, start, end)
    \/ \E u \in Users, s \in SessionIds :
          \/ accept(w, u, s)
          \/ reject(w, u, s)
          \/ checkin(w, u, s)
          \/ checkout(w, u, s)
          \/ cancel(w, u, s)
          \/ report_no_show(w, u, s)
          \/ submit_evaluation(w, u, s)
    \/ \E u \in Users : emergency_suspend(w, u)

(* A request in flight goes on.                                            *)
Proceed(w) ==
    \/ CommitCreate(w)
    \/ CommitAcceptNew(w)
    \/ CommitAccept(w)
    \/ CommitReject(w)
    \/ CommitCheckin(w)
    \/ CommitCheckout(w)
    \/ CommitCancel(w)
    \/ CommitNoShow(w)
    \/ CommitSuspend(w)
    \/ CommitEvaluation(w)
    \/ ReadHold(w)
    \/ ReadResolve(w)
    \/ ReadSettle(w)
    \/ CommitPosting(w)
    \/ CommitComplete(w)
    \/ Refused(w)

Init ==
    /\ LedgerInit
    /\ sessions = [s \in SessionIds |-> NoRow]
    /\ related \in SUBSET Acquainted
    /\ evaluations = {}
    /\ events = {}
    /\ notifications = {}
    /\ suspended = {}
    /\ now = 0
    /\ pc = [w \in Workers |-> "idle"]
    /\ req = [w \in Workers |-> NoRequest]
    /\ todo = [w \in Workers |-> {}]
    /\ work = [w \in Workers |-> NoWork]

Next ==
    \/ \E w \in Workers : Call(w) \/ Proceed(w) \/ Fail(w)
    \/ Tick

Spec == Init /\ [][Next]_vars

(* The event loop keeps running a request it has begun; users need not     *)
(* call anything and the clock need not move.                              *)
FairSpec == Spec /\ \A w \in Workers : WF_vars(Proceed(w))

-----------------------------------------------------------------------------
(* Properties.                                                             *)

(* Every column of every table, and the local state of every request,      *)
(* holds a value of its type.                                              *)
TypeOK ==
    /\ LedgerTypeOK
    /\ sessions \in [SessionIds -> Row]
    /\ related \subseteq SUBSET Users
    /\ evaluations \subseteq SessionIds \X Users
    /\ events \subseteq Event
    /\ notifications \subseteq Notification
    /\ suspended \subseteq Users
    /\ now \in Time
    /\ pc \in [Workers -> Steps]
    /\ req \in [Workers -> Request]
    /\ todo \in [Workers -> SUBSET SessionIds]
    /\ work \in [Workers -> Work]

Quiet == \A w \in Workers : pc[w] = "idle"

(* Nobody has two requested or confirmed sessions at the same time of the  *)
(* day: has_overlap, checked once at creation, is enough because no later  *)
(* handler makes a closed session active again.                            *)
NoDoubleBooking ==
    \A s, t \in SessionIds :
        /\ s # t
        /\ Active(sessions[s]) /\ Active(sessions[t])
        /\ Pair(sessions[s]) \cap Pair(sessions[t]) # {}
        => ~Overlaps(sessions[s], sessions[t].start_slot, sessions[t].end_slot)

(* A session moves only forward: a request is answered or cancelled once,  *)
(* a confirmed session is cancelled or reported once, and a rejected,      *)
(* cancelled or no-show session never comes back.                          *)
Forward == {<<"NONE", "REQUESTED">>, <<"REQUESTED", "CONFIRMED">>,
            <<"REQUESTED", "REJECTED">>, <<"REQUESTED", "CANCELLED">>,
            <<"CONFIRMED", "CANCELLED">>, <<"CONFIRMED", "NO_SHOW">>}

StatusForward ==
    [][\A s \in SessionIds :
          sessions'[s].status # sessions[s].status
              => <<sessions[s].status, sessions'[s].status>> \in Forward]_vars

(* A party is held at fault only in a session that nobody checked in to:   *)
(* care that took place is never turned into a late cancellation or a      *)
(* no-show.                                                                *)
FaultOnlyWithoutCare ==
    \A s \in SessionIds :
        sessions[s].at_fault # None
            => /\ sessions[s].status \in {"CANCELLED", "NO_SHOW"}
               /\ sessions[s].checkin_at = None

(* A suspended user is in no confirmed session, so no child is handed to   *)
(* or by one: the suspension cancels what is open and what is requested    *)
(* afterwards cannot be accepted.                                          *)
SuspendedNotConfirmed ==
    \A s \in SessionIds :
        sessions[s].status = "CONFIRMED" => Pair(sessions[s]) \cap suspended = {}

(* Every ledger transaction is one the session's record justifies, down to *)
(* its amount: a settlement pays the slots of recorded care, up to the     *)
(* hold if there was one; a penalty pays the whole hold, for a requester   *)
(* at fault who cancelled past the deadline or let the session lapse.      *)
Justified(s, tx) ==
    LET row == sessions[s]
        cared == row.actual \div TicksPerSlot
    IN  CASE tx.reason = "SETTLEMENT" ->
               /\ row.checkin_at # None
               /\ row.checkout_at # None
               /\ \/ /\ holds[s].status = "SETTLED"
                     /\ tx.amount <= holds[s].amount
                     /\ tx.amount = cared \/ (tx.amount = holds[s].amount /\ tx.amount < cared)
                  \/ holds[s].status = "NONE" /\ tx.amount = cared
          [] tx.reason = "CANCEL_PENALTY" ->
               /\ row.status = "CANCELLED"
               /\ row.at_fault = row.requester
               /\ row.cancelled_at > _scheduled_start(row) - DeadlineLead
               /\ holds[s].status = "FORFEITED"
               /\ tx.amount = row.end_slot - row.start_slot
          [] tx.reason = "NO_SHOW_PENALTY" ->
               /\ row.status = "NO_SHOW"
               /\ row.at_fault = row.requester
               /\ row.cancelled_at >= ScheduledEnd(row)
               /\ holds[s].status = "FORFEITED"
               /\ tx.amount = row.end_slot - row.start_slot

LedgerJustified ==
    \A s \in SessionIds : \A i \in DOMAIN ledger[s] : Justified(s, ledger[s][i])

(* SESSION_COMPLETED is logged only for a session that is settled: its     *)
(* hold is not HELD any more and a full slot of care has been paid.        *)
CompletedMeansPaid ==
    \A s \in SessionIds :
        [type |-> "SESSION_COMPLETED", session |-> s] \in events
            => /\ holds[s].status # "HELD"
               /\ sessions[s].actual >= TicksPerSlot => has_settled(s)

(* When no request is in flight and none has failed, points are held only  *)
(* for a confirmed session that is still to be completed.                  *)
HeldOnlyWhileOpen ==
    Quiet => \A s \in SessionIds :
                 holds[s].status = "HELD"
                     => /\ sessions[s].status = "CONFIRMED"
                        /\ sessions[s].checkout_at = None

(* Whatever requests are in flight together and wherever they stop: points *)
(* are held, and care is checked in, only between users with a trust       *)
(* relationship, because grant_l1 commits it together with the status.     *)
CareOnlyBetweenRelated ==
    \A s \in SessionIds :
        holds[s].status # "NONE" \/ sessions[s].checkin_at # None
            => Pair(sessions[s]) \in related

(* Whatever requests are in flight together: a transaction in the ledger   *)
(* has the recorded fact it is about, a settlement a check-out and a       *)
(* penalty a cancellation or no-show with a party at fault, and a penalty  *)
(* an acceptance.                                                          *)
HasCause(s, reason) ==
    IF reason = "SETTLEMENT"
    THEN sessions[s].checkout_at # None /\ sessions[s].checkin_at # None
    ELSE /\ sessions[s].cancelled_at # None
         /\ sessions[s].at_fault # None
         /\ [type |-> "REQUEST_ACCEPTED", session |-> s] \in events

LedgerHasCause ==
    \A s \in SessionIds : \A i \in DOMAIN ledger[s] : HasCause(s, ledger[s][i].reason)

(* Whatever requests are in flight together: a hold that has been resolved *)
(* is never HELD again, and an existing hold is never replaced.            *)
HoldNeverReopened ==
    [][\A s \in SessionIds :
          holds[s].status # "NONE"
              => /\ holds'[s].amount = holds[s].amount
                 /\ holds'[s].status = "HELD" => holds[s].status = "HELD"
                 /\ holds'[s].status # "NONE"]_vars

(* Points held for a session that is over do not stay held: the handler    *)
(* that ended the session settles, releases or forfeits them.              *)
HoldResolved ==
    \A s \in SessionIds :
        (/\ holds[s].status = "HELD"
         /\ sessions[s].status # "CONFIRMED" \/ sessions[s].checkout_at # None)
            ~> holds[s].status \in {"SETTLED", "RELEASED", "FORFEITED"}
=============================================================================
