-------------------------- MODULE CareSerialProofs --------------------------
(***************************************************************************)
(* Theorems about CareSession when requests come one at a time, for any    *)
(* number of users, sessions and slots, each request free to stop between  *)
(* two of its transactions.                                                *)
(*                                                                         *)
(* The argument: while one request is in flight only the clock moves, so   *)
(* that what it has read is still so at each of its commits; and whatever  *)
(* point it stops at, the row, the hold, the entries and the events of     *)
(* each session fit.                                                       *)
(***************************************************************************)
EXTENDS CareSerialInvariant, CareSessionProofs

WorkerFits(w) == CommitFits(w) /\ LaterFits(w) /\ PostFits(w)

Alone(w) == \A v \in Workers : pc[v] # "idle" => v = w

-----------------------------------------------------------------------------
(* One request at a time.                                                  *)

(* A request in flight is the only one.                                    *)
LEMMA InFlightAlone ==
    ASSUME OneAtATime, NEW w \in Workers, pc[w] # "idle"
    PROVE  Alone(w)
BY DEF OneAtATime, Alone

(* A worker without a request relies on nothing.                           *)
LEMMA IdleFits ==
    ASSUME NEW w, pc[w] = "idle"
    PROVE  WorkerFits(w) /\ \A s : ~InHand(w, s)
BY DEF WorkerFits, CommitFits, LaterFits, PostFits, InHand

(* After a step of the only request, only its worker has to be looked at.  *)
LEMMA OneMoves ==
    ASSUME NEW w \in Workers, Alone(w), Others(w), WorkerFits(w)',
           \A s \in SessionIds : SessionFits(s)', NoDoubleBooking',
           ~Failures => \A s \in SessionIds : OpenOrInHand(s)'
    PROVE  CareSerialInv'
<1>1. \A v \in Workers \ {w} : pc'[v] = "idle"
  BY DEF Alone, Others
<1>2. OneAtATime'
  BY <1>1 DEF OneAtATime
<1>3. ASSUME NEW v \in Workers, v # w PROVE WorkerFits(v)'
  BY <1>1, <1>3 DEF WorkerFits, CommitFits, LaterFits, PostFits
<1> QED
  BY <1>2, <1>3 DEF CareSerialInv, WorkerFits

(* What sessions, holds and entries say of each other depends on nothing   *)
(* else.                                                                   *)
LEMMA SameFits ==
    ASSUME NEW s \in SessionIds, SessionFits(s),
           sessions'[s] = sessions[s], holds'[s] = holds[s], ledger'[s] = ledger[s],
           suspended' = suspended \/ SuspensionFits(sessions[s])',
           Completed(s)' => Completed(s) \/ Settled(s)
    PROVE  SessionFits(s)'
<1>1. FaultFits(sessions[s])' /\ HoldFits(sessions[s], holds[s])' /\ SuspensionFits(sessions[s])'
  BY DEF SessionFits, FaultFits, HoldFits, SuspensionFits, Active, BookedSlots,
         _scheduled_start, ScheduledEnd
<1>2. \A i \in DOMAIN ledger'[s] : Justified(s, ledger[s][i])'
  BY DEF SessionFits, Justified
<1>3. Settled(s) => Settled(s)'
  BY DEF Settled, has_settled
<1> QED
  BY <1>1, <1>2, <1>3 DEF SessionFits

(* Nobody is booked twice by a step that books nobody.                     *)
LEMMA BookingsStay ==
    ASSUME NoDoubleBooking,
           \A s \in SessionIds : Active(sessions'[s]) =>
               /\ Active(sessions[s])
               /\ sessions'[s].requester = sessions[s].requester
               /\ sessions'[s].provider = sessions[s].provider
               /\ sessions'[s].start_slot = sessions[s].start_slot
               /\ sessions'[s].end_slot = sessions[s].end_slot
    PROVE  NoDoubleBooking'
<1> SUFFICES ASSUME NEW s \in SessionIds, NEW t \in SessionIds, s # t,
                    Active(sessions'[s]), Active(sessions'[t]),
                    Pair(sessions'[s]) \cap Pair(sessions'[t]) # {}
             PROVE  ~Overlaps(sessions'[s], sessions'[t].start_slot, sessions'[t].end_slot)
  BY DEF NoDoubleBooking, Active, Pair, Overlaps
<1>1. /\ Pair(sessions'[s]) = Pair(sessions[s]) /\ Pair(sessions'[t]) = Pair(sessions[t])
      /\ Active(sessions[s]) /\ Active(sessions[t])
  BY DEF Pair
<1>2. ~Overlaps(sessions[s], sessions[t].start_slot, sessions[t].end_slot)
  BY <1>1 DEF NoDoubleBooking
<1> QED
  BY <1>2 DEF Overlaps

(* The database as it is: it still fits.                                   *)
LEMMA DbFits ==
    ASSUME CareSerialInv, UNCHANGED <<sessions, holds, ledger, events, suspended>>
    PROVE  (\A s \in SessionIds : SessionFits(s)') /\ NoDoubleBooking'
<1>1. ASSUME NEW s \in SessionIds PROVE SessionFits(s)'
  BY SameFits DEF CareSerialInv, Completed
<1>2. NoDoubleBooking'
  BY BookingsStay DEF CareSerialInv
<1> QED
  BY <1>1, <1>2

(* Between requests, and before and after what a request does with holds,  *)
(* points are held for open sessions only.                                 *)
LEMMA HeldOpen ==
    ASSUME CareSerialInv, ~Failures, NEW s \in SessionIds, holds[s].status = "HELD",
           \A w \in Workers : pc[w] \in {"idle", "commit", "log", "hold", "complete"}
    PROVE  sessions[s].status = "CONFIRMED" /\ sessions[s].checkout_at = None
BY DEF CareSerialInv, OpenOrInHand, InHand

(* What is open or in hand stays so when neither the session nor the       *)
(* request's part in it changes.                                           *)
LEMMA StillOpen ==
    ASSUME NEW s \in SessionIds, sessions[s].status = "CONFIRMED",
           sessions[s].checkout_at = None, sessions'[s] = sessions[s]
    PROVE  OpenOrInHand(s)'
BY DEF OpenOrInHand

-----------------------------------------------------------------------------
(* Starting a request.                                                     *)

(* A request whose reads fit starts alone and changes no row.              *)
LEMMA FitsStart ==
    ASSUME CareInv, CareSerialInv, Serial, NEW w \in Workers, NEW op, NEW r, NEW t,
           CanStart(w, op), Start(w, r, t), FirstFits(r, t)
    PROVE  CareSerialInv'
<1>1. /\ pc' = [pc EXCEPT ![w] = "commit"]
      /\ req' = [req EXCEPT ![w] = r]
      /\ todo' = [todo EXCEPT ![w] = t]
      /\ UNCHANGED <<balance, held_balance, holds, ledger, sessions, related, evaluations,
                     events, notifications, suspended, now, work>>
  BY DEF Start, dbVars, ledgerVars
<1>2. \A v \in Workers : pc[v] = "idle"
  BY DEF CanStart
<1>3. pc'[w] = "commit" /\ req'[w] = r /\ todo'[w] = t /\ Others(w) /\ Alone(w)
  BY <1>1, <1>2 DEF CareInv, TypeOK, Others, Alone
<1>4. FirstFits(r, t)'
  BY <1>1 DEF FirstFits, MayCreate, MayChange, MaySuspend, has_overlap, IsParty, Active,
              Overlaps, Pair, _scheduled_start, ScheduledEnd
<1>5. WorkerFits(w)'
  BY <1>3, <1>4 DEF WorkerFits, CommitFits, LaterFits, PostFits
<1>6. ASSUME NEW s \in SessionIds, ~Failures PROVE OpenOrInHand(s)'
  <2>1. CASE holds[s].status = "HELD"
    BY <1>1, <1>2, <1>6, <2>1, HeldOpen, StillOpen
  <2>2. CASE holds[s].status # "HELD"
    BY <1>1, <2>2 DEF OpenOrInHand
  <2> QED
    BY <2>1, <2>2
<1> QED
  BY <1>1, <1>3, <1>5, <1>6, DbFits, OneMoves

(* A request about session s that has read its row, and what the row must  *)
(* be for each of the handlers.                                            *)
LEMMA AskFits ==
    ASSUME CareInv, CareSerialInv, Serial, NEW w \in Workers, NEW call,
           NEW op \in SessionOps, NEW u, NEW s, NEW late, NEW t, CanStart(w, call),
           Start(w, Ask(op, u, s, late), t),
           op \in {"accept", "accept_new", "reject"} => sessions[s].status = "REQUESTED",
           op \in {"accept", "accept_new"} => sessions[s].provider \notin suspended,
           op = "accept_new" => Pair(sessions[s]) \notin related,
           op \in {"checkin", "checkout", "no_show"} => sessions[s].status = "CONFIRMED",
           op \in {"checkin", "cancel", "no_show"} => sessions[s].checkin_at = None,
           op = "checkout" => /\ sessions[s].checkin_at # None
                              /\ sessions[s].checkout_at = None,
           op = "cancel" =>
               /\ Active(sessions[s])
               /\ late => now > _scheduled_start(sessions[s]) - DeadlineLead
               /\ t = IF sessions[s].status = "CONFIRMED" THEN {s} ELSE {},
           op = "no_show" => now >= ScheduledEnd(sessions[s]) /\ t = {s}
    PROVE  CareSerialInv'
<1> DEFINE r == Ask(op, u, s, late)
<1>1. /\ r.op = op /\ r.session = s /\ r.row = sessions[s] /\ r.late = late /\ r.at = now
  BY DEF Ask
<1>2. Start(w, r, t)
  OBVIOUS
<1> HIDE DEF r
<1>3. MayChange(r, sessions[s], t)
  BY <1>1 DEF MayChange
<1>4. FirstFits(r, t)
  BY <1>1, <1>3 DEF FirstFits, SessionOps
<1> QED
  BY <1>2, <1>4, FitsStart

(* What the handlers of a session have read fits, and they run alone.      *)
LEMMA SessionCallsFit ==
    ASSUME CareInv, CareSerialInv, Serial, NEW w \in Workers, NEW u \in Users,
           NEW s \in SessionIds,
           \/ accept(w, u, s) \/ reject(w, u, s) \/ checkin(w, u, s) \/ checkout(w, u, s)
           \/ cancel(w, u, s) \/ report_no_show(w, u, s) \/ submit_evaluation(w, u, s)
    PROVE  CareSerialInv'
<1>1. CASE accept(w, u, s)
  <2>1. PICK op \in {"accept", "accept_new"} :
            /\ Start(w, Ask(op, u, s, FALSE), {})
            /\ op = "accept_new" => Pair(sessions[s]) \notin related
    BY <1>1 DEF accept
  <2>2. /\ CanStart(w, "accept") /\ op \in SessionOps
        /\ sessions[s].status = "REQUESTED" /\ sessions[s].provider \notin suspended
    BY <1>1 DEF accept, SessionOps, _get_requested_session, Authenticated
  <2> QED
    BY <2>1, <2>2, AskFits
<1>2. CASE reject(w, u, s)
  <2>1. /\ CanStart(w, "reject") /\ Start(w, Ask("reject", u, s, FALSE), {})
        /\ sessions[s].status = "REQUESTED" /\ "reject" \in SessionOps
    BY <1>2 DEF reject, SessionOps, _get_requested_session
  <2> QED
    BY <2>1, AskFits
<1>3. CASE checkin(w, u, s)
  <2>1. /\ CanStart(w, "checkin") /\ Start(w, Ask("checkin", u, s, FALSE), {})
        /\ sessions[s].status = "CONFIRMED" /\ sessions[s].checkin_at = None
        /\ "checkin" \in SessionOps
    BY <1>3 DEF checkin, SessionOps, _get_confirmed_session
  <2> QED
    BY <2>1, AskFits
<1>4. CASE checkout(w, u, s)
  <2>1. /\ CanStart(w, "checkout") /\ Start(w, Ask("checkout", u, s, FALSE), {})
        /\ sessions[s].status = "CONFIRMED" /\ sessions[s].checkin_at # None
        /\ sessions[s].checkout_at = None /\ "checkout" \in SessionOps
    BY <1>4 DEF checkout, SessionOps, _get_confirmed_session
  <2> QED
    BY <2>1, AskFits
<1>5. CASE cancel(w, u, s)
  <2> DEFINE late == past_deadline(sessions[s])
             t == IF sessions[s].status = "CONFIRMED" THEN {s} ELSE {}
  <2>1. late => now > _scheduled_start(sessions[s]) - DeadlineLead
    BY DEF past_deadline
  <2>2. t = IF sessions[s].status = "CONFIRMED" THEN {s} ELSE {}
    OBVIOUS
  <2>3. /\ CanStart(w, "cancel") /\ Start(w, Ask("cancel", u, s, late), t)
        /\ Active(sessions[s]) /\ sessions[s].checkin_at = None
        /\ "cancel" \in SessionOps
    BY <1>5 DEF cancel, _get_cancellable_session, SessionOps
  <2> HIDE DEF late, t
  <2> QED
    BY <2>1, <2>2, <2>3, AskFits
<1>6. CASE report_no_show(w, u, s)
  <2>1. /\ CanStart(w, "no_show") /\ Start(w, Ask("no_show", u, s, FALSE), {s})
        /\ sessions[s].status = "CONFIRMED" /\ sessions[s].checkin_at = None
        /\ now >= ScheduledEnd(sessions[s]) /\ "no_show" \in SessionOps
    BY <1>6 DEF report_no_show, SessionOps
  <2> QED
    BY <2>1, AskFits
<1>7. CASE submit_evaluation(w, u, s)
  <2>1. /\ CanStart(w, "evaluate") /\ Start(w, Ask("evaluate", u, s, FALSE), {})
        /\ "evaluate" \in SessionOps
    BY <1>7 DEF submit_evaluation, SessionOps
  <2> QED
    BY <2>1, AskFits
<1> QED
  BY <1>1, <1>2, <1>3, <1>4, <1>5, <1>6, <1>7

(* A new session is asked for by a user who is not suspended, in slots     *)
(* neither party has an open session in.                                   *)
LEMMA CreateFits ==
    ASSUME CareInv, CareSerialInv, Serial, NEW w \in Workers, NEW u \in Users,
           NEW v \in Users, NEW start \in 0..NumSlots, NEW end \in 0..NumSlots,
           create_request(w, u, v, start, end)
    PROVE  CareSerialInv'
<1> DEFINE row == NewRow(u, v, start, end)
           r == [op |-> IF has_completed_pairing(u, v) THEN "rematch" ELSE "create",
                 actor |-> u, session |-> 0, row |-> row,
                 at |-> now, stopped |-> {}, late |-> FALSE]
<1>1. /\ CanStart(w, "create") /\ Start(w, r, {}) /\ u \notin suspended
      /\ ~has_overlap(u, start, end) /\ ~has_overlap(v, start, end)
  BY DEF create_request, Authenticated
<1>2. /\ row.requester = u /\ row.provider = v /\ row.at_fault = None
      /\ row.start_slot = start /\ row.end_slot = end
  BY DEF NewRow
<1>3. r.op \in {"create", "rematch"} /\ r.row = row
  OBVIOUS
<1> HIDE DEF r, row
<1>4. FirstFits(r, {})
  BY <1>1, <1>2, <1>3 DEF FirstFits, MayCreate, SessionOps
<1> QED
  BY <1>1, <1>4, FitsStart

(* A suspension has found every open session of the user.                  *)
LEMMA SuspendFits ==
    ASSUME CareInv, CareSerialInv, Serial, NEW w \in Workers, NEW u \in Users,
           emergency_suspend(w, u)
    PROVE  CareSerialInv'
<1> DEFINE open == {s \in SessionIds : IsParty(u, sessions[s]) /\ Active(sessions[s])}
           r == [op |-> "suspend", actor |-> u, session |-> 0, row |-> NoRow,
                 at |-> now, stopped |-> open, late |-> FALSE]
           t == {s \in open : sessions[s].status = "CONFIRMED"}
<1>1. CanStart(w, "suspend") /\ Start(w, r, t)
  BY DEF emergency_suspend
<1>2. FirstFits(r, t)
  BY DEF FirstFits, MaySuspend, SessionOps
<1> HIDE DEF r, t
<1> QED
  BY <1>1, <1>2, FitsStart

(* Every call that starts a request starts one whose reads fit.            *)
LEMMA CallFits ==
    ASSUME CareInv, CareSerialInv, Serial, NEW w \in Workers, Call(w)
    PROVE  CareSerialInv'
BY CreateFits, SessionCallsFit, SuspendFits DEF Call

-----------------------------------------------------------------------------
(* The commits that change a session's row.                                *)

(* A request that ends leaves its worker idle.                             *)
LEMMA FinishIdle ==
    ASSUME TypeOK, NEW w \in Workers, Finish(w)
    PROVE  Others(w) /\ pc'[w] = "idle" /\ WorkerFits(w)'
<1>1. Others(w) /\ pc'[w] = "idle"
  BY DEF TypeOK, Finish, Others
<1> QED
  BY <1>1 DEF WorkerFits, CommitFits, LaterFits, PostFits

(* A request that has ended sessions goes on to their holds, if there are  *)
(* any.                                                                    *)
LEMMA ResolveFits ==
    ASSUME TypeOK, NEW w \in Workers, ResolveNext(w), NEW r, r = req[w],
           r.op \in {"cancel", "no_show", "suspend"} \/ todo[w] = {},
           \A t \in todo[w] : Ended(r, t)'
    PROVE  /\ Others(w) /\ WorkerFits(w)'
           /\ \A t \in todo[w] : InHand(w, t)'
<1>1. CASE todo[w] = {}
  <2>1. Finish(w)
    BY <1>1 DEF ResolveNext
  <2> QED
    BY <1>1, <2>1, FinishIdle
<1>2. CASE todo[w] # {}
  <2>1. Continue(w, "resolve") /\ "resolve" \in Steps
    BY <1>2 DEF ResolveNext, Steps
  <2>2. /\ Others(w) /\ pc'[w] = "resolve" /\ req'[w] = req[w] /\ todo'[w] = todo[w]
    BY <2>1, ContinueType
  <2>3. WorkerFits(w)'
    BY <1>2, <2>2 DEF WorkerFits, CommitFits, LaterFits, PostFits, Ended
  <2> QED
    BY <2>2, <2>3 DEF InHand
<1> QED
  BY <1>1, <1>2

(* What a worker has read when its first transaction commits.              *)
LEMMA AtCommit ==
    ASSUME CareInv, CareSerialInv, NEW w \in Workers, pc[w] = "commit",
           req[w].op \in SessionOps
    PROVE  /\ req[w].session \in SessionIds
           /\ sessions[req[w].session] \in Row
           /\ req[w].row = sessions[req[w].session]
           /\ MayChange(req[w], sessions[req[w].session], todo[w])
           /\ SessionFits(req[w].session)
           /\ SessionInv(req[w].session)
<1>1. req[w].session \in SessionIds /\ sessions[req[w].session] \in Row
  BY OnSession
<1>2. FirstFits(req[w], todo[w])
  BY DEF CareSerialInv, CommitFits
<1> QED
  BY <1>1, <1>2 DEF CareInv, CareSerialInv, FirstFits

(* An open session nobody has checked out of has nothing paid and is not   *)
(* completed.                                                              *)
LEMMA OpenUnpaid ==
    ASSUME TypeOK, NEW s \in SessionIds, SessionFits(s), Active(sessions[s]),
           sessions[s].checkout_at = None
    PROVE  /\ ledger[s] = <<>>
           /\ ~Completed(s)
           /\ holds[s].status \in {"NONE", "HELD"}
           /\ sessions[s].at_fault = None
<1>a. ledger[s] \in Seq(PointTransaction)
  BY DEF TypeOK, LedgerTypeOK
<1>1. ASSUME NEW i \in DOMAIN ledger[s] PROVE FALSE
  <2>1. ledger[s][i].reason \in Reasons
    <3>1. \A q \in Seq(PointTransaction) : \A k \in DOMAIN q : q[k] \in PointTransaction
      OBVIOUS
    <3>2. ledger[s][i] \in PointTransaction
      BY <1>a, <3>1
    <3> QED
      BY <3>2 DEF PointTransaction
  <2>2. Justified(s, ledger[s][i])
    BY DEF SessionFits
  <2> QED
    BY <2>1, <2>2 DEF Justified, Reasons, Active
<1>2. ledger[s] = <<>>
  <2>1. Len(ledger[s]) \in Nat /\ DOMAIN ledger[s] = 1..Len(ledger[s])
    BY <1>a
  <2>2. Len(ledger[s]) = 0
    BY <1>1, <2>1
  <2> QED
    BY <1>a, <2>2
<1>3. holds[s].status \in PointHoldStatus \cup {"NONE"}
  BY DEF TypeOK, LedgerTypeOK, PointHold
<1> QED
  BY <1>2, <1>3 DEF SessionFits, Settled, HoldFits, FaultFits, Active, PointHoldStatus

(* The rows after a commit that writes the row of session s.               *)
LEMMA RowCommit ==
    ASSUME CareInv, CareSerialInv, NEW w \in Workers, pc[w] # "idle", Others(w),
           WorkerFits(w)', NEW s \in SessionIds, NEW row,
           sessions' = [sessions EXCEPT ![s] = row],
           UNCHANGED <<holds, ledger, suspended>>,
           \A t \in SessionIds : Completed(t)' => Completed(t),
           Active(row) => /\ Active(sessions[s])
                          /\ row.requester = sessions[s].requester
                          /\ row.provider = sessions[s].provider
                          /\ row.start_slot = sessions[s].start_slot
                          /\ row.end_slot = sessions[s].end_slot,
           SessionFits(s)',
           pc[w] = "commit",
           holds[s].status = "HELD" =>
               \/ row.status = "CONFIRMED" /\ row.checkout_at = None
               \/ InHand(w, s)'
    PROVE  CareSerialInv'
<1>1. sessions'[s] = row /\ \A t \in SessionIds \ {s} : sessions'[t] = sessions[t]
  BY DEF CareInv, TypeOK
<1>2. Alone(w)
  BY InFlightAlone DEF CareSerialInv
<1>3. ASSUME NEW t \in SessionIds PROVE SessionFits(t)'
  <2>1. CASE t = s
    BY <2>1
  <2>2. CASE t # s
    BY <1>1, <2>2, SameFits DEF CareSerialInv
  <2> QED
    BY <2>1, <2>2
<1>4. NoDoubleBooking'
  <2>1. \A t \in SessionIds : Active(sessions'[t]) =>
               /\ Active(sessions[t])
               /\ sessions'[t].requester = sessions[t].requester
               /\ sessions'[t].provider = sessions[t].provider
               /\ sessions'[t].start_slot = sessions[t].start_slot
               /\ sessions'[t].end_slot = sessions[t].end_slot
    BY <1>1
  <2> QED
    BY <2>1, BookingsStay DEF CareSerialInv
<1>5. ASSUME NEW t \in SessionIds, ~Failures PROVE OpenOrInHand(t)'
  <2>1. CASE holds[t].status # "HELD"
    BY <2>1 DEF OpenOrInHand
  <2>2. CASE holds[t].status = "HELD" /\ t = s
    BY <1>1, <2>2 DEF OpenOrInHand
  <2>3. CASE holds[t].status = "HELD" /\ t # s
    <3>1. \A v \in Workers : pc[v] \in {"idle", "commit"}
      BY <1>2 DEF Alone
    <3> QED
      BY <1>1, <1>5, <2>3, <3>1, HeldOpen, StillOpen
  <2> QED
    BY <2>1, <2>2, <2>3
<1> QED
  BY <1>2, <1>3, <1>4, <1>5, OneMoves

(* A row that a session without entries may have.                          *)
LEMMA UnpaidFits ==
    ASSUME NEW s \in SessionIds, NEW row, sessions'[s] = row, holds'[s] = holds[s],
           ledger'[s] = <<>>, ~Completed(s)', FaultFits(row), HoldFits(row, holds[s]),
           \/ SuspensionFits(row) /\ suspended' = suspended
           \/ ~Active(row)
    PROVE  SessionFits(s)'
<1>1. FaultFits(sessions[s])'
  BY DEF FaultFits, _scheduled_start, ScheduledEnd
<1>2. HoldFits(sessions[s], holds[s])'
  BY DEF HoldFits, BookedSlots, Active
<1>3. SuspensionFits(sessions[s])'
  BY DEF SuspensionFits, Active
<1> QED
  BY <1>1, <1>2, <1>3 DEF SessionFits

(* An event of another type completes nothing.                             *)
LEMMA NotCompleted ==
    ASSUME NEW type, type # "SESSION_COMPLETED", NEW s, log(type, s)
    PROVE  \A t \in SessionIds : Completed(t)' => Completed(t)
BY DEF log, Completed

(* A request that goes on after an acceptance finds the session confirmed  *)
(* and nothing held or paid yet.                                           *)
LEMMA AcceptingNext ==
    ASSUME TypeOK, NEW w \in Workers, NEW step \in {"log", "hold"}, Continue(w, step),
           Accepting(req[w])'
    PROVE  Others(w) /\ WorkerFits(w)'
<1>1. step \in Steps
  BY DEF Steps
<1>2. Others(w) /\ pc'[w] = step /\ req'[w] = req[w]
  BY <1>1, ContinueType
<1> QED
  BY <1>2 DEF WorkerFits, CommitFits, LaterFits, PostFits, Accepting, Untouched

(* The answer to a request: a row with a new status and nothing else.      *)
LEMMA AnswerFits ==
    ASSUME CareInv, CareSerialInv, NEW w \in Workers, pc[w] = "commit",
           req[w].op \in {"accept", "accept_new", "reject"},
           NEW status \in {"CONFIRMED", "REJECTED"},
           status = "CONFIRMED" => req[w].op # "reject",
           sessions' = [sessions EXCEPT ![req[w].session] =
                            [sessions[req[w].session] EXCEPT !.status = status]],
           UNCHANGED <<holds, ledger, suspended>>,
           \A t \in SessionIds : Completed(t)' => Completed(t)
    PROVE  /\ Others(w) /\ WorkerFits(w)' => CareSerialInv'
           /\ status = "CONFIRMED" /\ req'[w] = req[w] => Accepting(req[w])'
<1>1. PICK s \in SessionIds : s = req[w].session
  BY AtCommit DEF SessionOps
<1>2. PICK old \in Row : old = sessions[s]
  BY <1>1, AtCommit DEF SessionOps
<1>3. PICK new \in Row : new = [old EXCEPT !.status = status]
  BY StatusWritten DEF CareSessionStatus
<1>4. /\ old.status = "REQUESTED" /\ req[w].row = old /\ SessionFits(s) /\ SessionInv(s)
      /\ status = "CONFIRMED" => old.provider \notin suspended
  BY <1>1, <1>2, AtCommit DEF SessionOps, MayChange
<1>5. /\ new.status = status /\ new.requester = old.requester /\ new.provider = old.provider
      /\ new.start_slot = old.start_slot /\ new.end_slot = old.end_slot
      /\ new.checkin_at = old.checkin_at /\ new.checkout_at = old.checkout_at
      /\ new.at_fault = old.at_fault
  BY <1>3 DEF Row
<1>6. sessions' = [sessions EXCEPT ![s] = new]
  BY <1>1, <1>2, <1>3
<1>7. sessions'[s] = new
  BY <1>6 DEF CareInv, TypeOK
<1>8. /\ FaultFits(old) /\ HoldFits(old, holds[s]) /\ SuspensionFits(old)
      /\ old.checkout_at # None => old.checkin_at # None
  BY <1>2, <1>4 DEF SessionFits, SessionInv
<1>9. Active(old) /\ old.checkin_at = None /\ old.checkout_at = None /\ holds[s].status = "NONE"
  BY <1>4, <1>8 DEF Active, HoldFits
<1>10. ledger[s] = <<>> /\ ~Completed(s) /\ old.at_fault = None
  BY <1>2, <1>4, <1>9, OpenUnpaid DEF CareInv
<1>11. SessionFits(s)'
  <2>1. FaultFits(new) /\ HoldFits(new, holds[s])
    BY <1>5, <1>9, <1>10 DEF FaultFits, HoldFits
  <2>2. SuspensionFits(new)
    BY <1>4, <1>5, <1>8, <1>9 DEF SuspensionFits, Active
  <2>3. ledger'[s] = <<>> /\ ~Completed(s)' /\ holds'[s] = holds[s]
    BY <1>10
  <2> QED
    BY <1>7, <2>1, <2>2, <2>3, UnpaidFits
<1>12. Active(new) => /\ Active(sessions[s])
                      /\ new.requester = sessions[s].requester
                      /\ new.provider = sessions[s].provider
                      /\ new.start_slot = sessions[s].start_slot
                      /\ new.end_slot = sessions[s].end_slot
  BY <1>2, <1>5, <1>9
<1>13. Others(w) /\ WorkerFits(w)' => CareSerialInv'
  BY <1>6, <1>9, <1>11, <1>12, RowCommit
<1>14. ASSUME status = "CONFIRMED", req'[w] = req[w] PROVE Accepting(req[w])'
  <2>1. req'[w].op \in {"accept", "accept_new"} /\ req'[w].session = s /\ req'[w].row = old
    BY <1>1, <1>4, <1>14
  <2>2. /\ sessions'[s].status = "CONFIRMED" /\ sessions'[s].checkin_at = None
        /\ sessions'[s].checkout_at = None /\ sessions'[s].requester = old.requester
        /\ sessions'[s].start_slot = old.start_slot /\ sessions'[s].end_slot = old.end_slot
    BY <1>5, <1>7, <1>9, <1>14
  <2>3. Untouched(s)'
    BY <1>9, <1>10 DEF Untouched
  <2> QED
    BY <2>1, <2>2, <2>3 DEF Accepting, BookedSlots
<1> QED
  BY <1>13, <1>14

(* A step that leaves every row, hold and entry alone.                     *)
LEMMA NoRowWritten ==
    ASSUME CareInv, CareSerialInv, NEW w \in Workers, pc[w] # "idle", Others(w),
           WorkerFits(w)', UNCHANGED <<sessions, holds, ledger, suspended>>,
           \A s \in SessionIds : Completed(s)' => Completed(s) \/ Settled(s),
           ~Failures => \A s \in SessionIds :
               holds[s].status = "HELD" /\ InHand(w, s) => InHand(w, s)'
    PROVE  CareSerialInv'
<1>1. Alone(w)
  BY InFlightAlone DEF CareSerialInv
<1>2. ASSUME NEW s \in SessionIds PROVE SessionFits(s)'
  BY SameFits DEF CareSerialInv
<1>3. NoDoubleBooking'
  BY BookingsStay DEF CareSerialInv
<1>4. ASSUME NEW s \in SessionIds, ~Failures PROVE OpenOrInHand(s)'
  <2>1. CASE holds[s].status # "HELD"
    BY <2>1 DEF OpenOrInHand
  <2>2. CASE sessions[s].status = "CONFIRMED" /\ sessions[s].checkout_at = None
    BY <2>2, StillOpen
  <2>3. CASE holds[s].status = "HELD" /\ \E v \in Workers : InHand(v, s)
    <3>1. InHand(w, s)
      BY <1>1, <2>3, IdleFits DEF Alone
    <3> QED
      BY <1>4, <2>3, <3>1 DEF OpenOrInHand
  <2> QED
    BY <1>4, <2>1, <2>2, <2>3 DEF CareSerialInv, OpenOrInHand
<1> QED
  BY <1>1, <1>2, <1>3, <1>4, OneMoves

(* accept's first commit between strangers.                                *)
LEMMA AcceptNewFits ==
    ASSUME CareInv, CareSerialInv, NEW w \in Workers, CommitAcceptNew(w)
    PROVE  CareSerialInv'
<1>1. /\ pc[w] = "commit" /\ req[w].op = "accept_new"
      /\ sessions' = [sessions EXCEPT ![req[w].session] =
                          [sessions[req[w].session] EXCEPT !.status = "CONFIRMED"]]
      /\ log("TRUST_LEVEL_TRANSITION", req[w].session) /\ Continue(w, "log")
      /\ UNCHANGED <<holds, ledger, suspended>>
  BY DEF CommitAcceptNew, Doing, ledgerVars
<1>2. \A t \in SessionIds : Completed(t)' => Completed(t)
  BY <1>1, NotCompleted
<1>3. /\ Others(w) /\ WorkerFits(w)' => CareSerialInv'
      /\ req'[w] = req[w] => Accepting(req[w])'
  BY <1>1, <1>2, AnswerFits
<1>4. req'[w] = req[w]
  BY <1>1 DEF Continue
<1> QED
  BY <1>1, <1>3, <1>4, AcceptingNext DEF CareInv

(* accept's own commit.                                                    *)
LEMMA AcceptFits ==
    ASSUME CareInv, CareSerialInv, NEW w \in Workers, CommitAccept(w)
    PROVE  CareSerialInv'
<1>1. /\ log("REQUEST_ACCEPTED", req[w].session) /\ Continue(w, "hold")
      /\ UNCHANGED <<holds, ledger, suspended>>
  BY DEF CommitAccept, ledgerVars
<1>2. req'[w] = req[w] /\ \A t \in SessionIds : Completed(t)' => Completed(t)
  BY <1>1, NotCompleted DEF Continue
<1>3. CASE Doing(w, "log", {"accept_new"}) /\ UNCHANGED sessions
  <2>1. Accepting(req[w])
    BY <1>3 DEF Doing, CareSerialInv, LaterFits
  <2>2. Accepting(req[w])'
    BY <1>1, <1>2, <1>3, <2>1 DEF Accepting, Untouched
  <2> QED
    BY <1>1, <1>2, <1>3, <2>2, AcceptingNext, NoRowWritten DEF Doing, CareInv, InHand
<1>4. CASE /\ Doing(w, "commit", {"accept"})
           /\ sessions' = [sessions EXCEPT ![req[w].session].status = "CONFIRMED"]
  <2>1. /\ pc[w] = "commit" /\ req[w].op = "accept"
        /\ sessions' = [sessions EXCEPT ![req[w].session] =
                            [sessions[req[w].session] EXCEPT !.status = "CONFIRMED"]]
    BY <1>4 DEF Doing
  <2>2. /\ Others(w) /\ WorkerFits(w)' => CareSerialInv'
        /\ req'[w] = req[w] => Accepting(req[w])'
    BY <1>1, <1>2, <2>1, AnswerFits
  <2> QED
    BY <1>1, <1>2, <2>2, AcceptingNext DEF CareInv
<1> QED
  BY <1>3, <1>4 DEF CommitAccept

(* reject's commit.                                                        *)
LEMMA RejectFits ==
    ASSUME CareInv, CareSerialInv, NEW w \in Workers, CommitReject(w)
    PROVE  CareSerialInv'
<1>1. /\ pc[w] = "commit" /\ req[w].op = "reject"
      /\ sessions' = [sessions EXCEPT ![req[w].session] =
                          [sessions[req[w].session] EXCEPT !.status = "REJECTED"]]
      /\ log("REQUEST_REJECTED", req[w].session) /\ Finish(w)
      /\ UNCHANGED <<holds, ledger, suspended>>
  BY DEF CommitReject, Doing, ledgerVars
<1>2. \A t \in SessionIds : Completed(t)' => Completed(t)
  BY <1>1, NotCompleted
<1>3. Others(w) /\ WorkerFits(w)' => CareSerialInv'
  BY <1>1, <1>2, AnswerFits
<1> QED
  BY <1>1, <1>3, FinishIdle DEF CareInv

(* check-in's commit: the session is confirmed and has no fault.           *)
LEMMA CheckinFits ==
    ASSUME CareInv, CareSerialInv, NEW w \in Workers, CommitCheckin(w)
    PROVE  CareSerialInv'
<1>1. /\ pc[w] = "commit" /\ req[w].op = "checkin" /\ Finish(w)
      /\ sessions' = [sessions EXCEPT ![req[w].session] =
                          [sessions[req[w].session] EXCEPT !.checkin_at = req[w].at]]
      /\ UNCHANGED <<holds, ledger, suspended, events>>
  BY DEF CommitCheckin, Doing, ledgerVars
<1>2. PICK s \in SessionIds : s = req[w].session
  BY <1>1, AtCommit DEF SessionOps
<1>3. PICK old \in Row : old = sessions[s]
  BY <1>1, <1>2, AtCommit DEF SessionOps
<1>4. req[w].at \in Time
  BY DEF CareInv, TypeOK, Request
<1>5. PICK new \in Row : new = [old EXCEPT !.checkin_at = req[w].at]
  BY <1>4 DEF Row
<1>6. /\ old.status = "CONFIRMED" /\ old.checkin_at = None /\ SessionFits(s) /\ SessionInv(s)
  BY <1>1, <1>2, <1>3, AtCommit DEF SessionOps, MayChange
<1>7. /\ new.status = old.status /\ new.requester = old.requester
      /\ new.provider = old.provider /\ new.start_slot = old.start_slot
      /\ new.end_slot = old.end_slot /\ new.checkout_at = old.checkout_at
      /\ new.at_fault = old.at_fault
  BY <1>5 DEF Row
<1>8. sessions' = [sessions EXCEPT ![s] = new]
  BY <1>1, <1>2, <1>3, <1>5
<1>9. sessions'[s] = new
  BY <1>8 DEF CareInv, TypeOK
<1>10. /\ HoldFits(old, holds[s]) /\ SuspensionFits(old)
       /\ old.checkout_at = None
  BY <1>3, <1>6 DEF SessionFits, SessionInv
<1>11. Active(old) /\ Active(new)
  BY <1>6, <1>7 DEF Active
<1>12. /\ ledger[s] = <<>> /\ ~Completed(s) /\ old.at_fault = None
       /\ holds[s].status \in {"NONE", "HELD"}
  BY <1>3, <1>6, <1>10, <1>11, OpenUnpaid DEF CareInv
<1>13. SessionFits(s)'
  <2>1. FaultFits(new) /\ SuspensionFits(new)
    BY <1>7, <1>10, <1>11, <1>12 DEF FaultFits, SuspensionFits, Active
  <2>2. HoldFits(new, holds[s])
    BY <1>6, <1>7, <1>10, <1>12 DEF HoldFits, BookedSlots
  <2>3. ledger'[s] = <<>> /\ ~Completed(s)' /\ holds'[s] = holds[s] /\ suspended' = suspended
    BY <1>1, <1>12 DEF Completed
  <2> QED
    BY <1>9, <2>1, <2>2, <2>3, UnpaidFits
<1>14. Others(w) /\ WorkerFits(w)'
  BY <1>1, FinishIdle DEF CareInv
<1>15. \A t \in SessionIds : Completed(t)' => Completed(t)
  BY <1>1 DEF Completed
<1>16. /\ new.status = "CONFIRMED" /\ new.checkout_at = None /\ Active(sessions[s])
       /\ UNCHANGED <<holds, ledger, suspended>>
  BY <1>1, <1>3, <1>6, <1>7, <1>10, <1>11
<1> QED
  BY <1>1, <1>3, <1>7, <1>8, <1>13, <1>14, <1>15, <1>16, RowCommit

(* check-out's commit: the session is about to be settled.                 *)
LEMMA CheckoutFits ==
    ASSUME CareInv, CareSerialInv, NEW w \in Workers, CommitCheckout(w)
    PROVE  CareSerialInv'
<1> DEFINE spent == req[w].at - req[w].row.checkin_at
<1>1. /\ pc[w] = "commit" /\ req[w].op = "checkout" /\ Continue(w, "settle")
      /\ sessions' = [sessions EXCEPT ![req[w].session] =
                          CheckedOut(sessions[req[w].session], req[w].at, spent)]
      /\ UNCHANGED <<holds, ledger, suspended, events>>
  BY DEF CommitCheckout, Doing, ledgerVars
<1>2. PICK s \in SessionIds : s = req[w].session
  BY <1>1, AtCommit DEF SessionOps
<1>3. PICK old \in Row : old = sessions[s]
  BY <1>1, <1>2, AtCommit DEF SessionOps
<1>4. req[w].at \in Time /\ req[w].at # None /\ spent \in Nat
  <2>1. req[w].at \in Time /\ Reliable(req[w])
    BY DEF CareInv, TypeOK, Request, RequestInv
  <2>2. req[w].row.checkin_at \in Time /\ req[w].row.checkin_at <= req[w].at
    BY <1>1, <2>1 DEF Reliable
  <2>3. req[w].at # None
    BY <2>1, NoneApart
  <2>4. \A a, b \in Time : b <= a => a - b \in Nat
    BY CareAssumption DEF Time
  <2> QED
    BY <2>1, <2>2, <2>3, <2>4
<1>5. PICK new : new = CheckedOut(old, req[w].at, spent)
  OBVIOUS
<1>6. /\ old.status = "CONFIRMED" /\ old.checkin_at # None /\ old.checkout_at = None
      /\ SessionFits(s)
  BY <1>1, <1>2, <1>3, AtCommit DEF SessionOps, MayChange
<1>7. /\ new.status = old.status /\ new.requester = old.requester
      /\ new.provider = old.provider /\ new.start_slot = old.start_slot
      /\ new.end_slot = old.end_slot /\ new.checkout_at = req[w].at
      /\ new.checkin_at = old.checkin_at /\ new.at_fault = old.at_fault
  BY <1>5 DEF Row, CheckedOut
<1>8. sessions' = [sessions EXCEPT ![s] = new]
  BY <1>1, <1>2, <1>3, <1>5
<1>9. sessions'[s] = new
  BY <1>8 DEF CareInv, TypeOK
<1>10. HoldFits(old, holds[s]) /\ SuspensionFits(old)
  BY <1>3, <1>6 DEF SessionFits
<1>11. Active(old) /\ Active(new)
  BY <1>6, <1>7 DEF Active
<1>12. /\ ledger[s] = <<>> /\ ~Completed(s) /\ old.at_fault = None
       /\ holds[s].status \in {"NONE", "HELD"}
  BY <1>3, <1>6, <1>11, OpenUnpaid DEF CareInv
<1>13. SessionFits(s)'
  <2>1. FaultFits(new) /\ SuspensionFits(new)
    BY <1>7, <1>10, <1>11, <1>12 DEF FaultFits, SuspensionFits, Active
  <2>2. HoldFits(new, holds[s])
    BY <1>6, <1>7, <1>10, <1>12 DEF HoldFits, BookedSlots
  <2>3. ledger'[s] = <<>> /\ ~Completed(s)' /\ holds'[s] = holds[s] /\ suspended' = suspended
    BY <1>1, <1>12 DEF Completed
  <2> QED
    BY <1>9, <2>1, <2>2, <2>3, UnpaidFits
<1>14. Others(w) /\ pc'[w] = "settle" /\ req'[w] = req[w]
  <2>1. "settle" \in Steps
    BY DEF Steps
  <2> QED
    BY <1>1, <2>1, ContinueType DEF CareInv
<1>15. CheckingOut(s)'
  BY <1>1, <1>4, <1>7, <1>9, <1>11, <1>12 DEF CheckingOut, Active
<1>16. WorkerFits(w)' /\ InHand(w, s)'
  BY <1>2, <1>14, <1>15 DEF WorkerFits, CommitFits, LaterFits, PostFits, InHand, CheckingOut
<1>17. \A t \in SessionIds : Completed(t)' => Completed(t)
  BY <1>1 DEF Completed
<1>18. Active(sessions[s]) /\ UNCHANGED <<holds, ledger, suspended>>
  BY <1>1, <1>3, <1>11
<1> QED
  BY <1>1, <1>3, <1>7, <1>8, <1>13, <1>14, <1>16, <1>17, <1>18, RowCommit

(* The commit that ends a session in which no care took place: its hold,   *)
(* if it has one, is in hand.                                              *)
LEMMA CloseFits ==
    ASSUME CareInv, CareSerialInv, NEW w \in Workers, pc[w] = "commit",
           req[w].op \in {"cancel", "no_show"}, NEW fault, ResolveNext(w),
           sessions' = [sessions EXCEPT ![req[w].session] =
               Closed(sessions[req[w].session],
                      IF req[w].op = "no_show" THEN "NO_SHOW" ELSE "CANCELLED",
                      req[w].at, fault)],
           \/ req[w].op = "no_show"
           \/ fault = sessions[req[w].session].at_fault
           \/ req[w].late,
           UNCHANGED <<holds, ledger, suspended, events>>
    PROVE  CareSerialInv'
<1>1. PICK s \in SessionIds : s = req[w].session
  BY AtCommit DEF SessionOps
<1>2. PICK old \in Row : old = sessions[s]
  BY <1>1, AtCommit DEF SessionOps
<1>3. PICK status : status = IF req[w].op = "no_show" THEN "NO_SHOW" ELSE "CANCELLED"
  OBVIOUS
<1>4. PICK new : new = Closed(old, status, req[w].at, fault)
  OBVIOUS
<1>5. /\ Active(old) /\ old.checkin_at = None /\ SessionFits(s) /\ SessionInv(s)
      /\ old.status = "CONFIRMED" => todo[w] = {s}
      /\ todo[w] \subseteq {s}
      /\ req[w].op = "no_show" => req[w].at >= ScheduledEnd(old)
      /\ req[w].op = "cancel" /\ req[w].late => req[w].at > _scheduled_start(old) - DeadlineLead
  BY <1>1, <1>2, AtCommit DEF SessionOps, MayChange, Active
<1>6. /\ new.status = status /\ new.requester = old.requester
      /\ new.provider = old.provider /\ new.start_slot = old.start_slot
      /\ new.end_slot = old.end_slot /\ new.checkout_at = old.checkout_at
      /\ new.checkin_at = old.checkin_at /\ new.at_fault = fault
      /\ new.cancelled_at = req[w].at
  BY <1>4 DEF Closed
<1>7. sessions' = [sessions EXCEPT ![s] = new]
  BY <1>1, <1>2, <1>3, <1>4
<1>8. sessions'[s] = new
  BY <1>7 DEF CareInv, TypeOK
<1>9. HoldFits(old, holds[s]) /\ old.checkout_at = None
  BY <1>2, <1>5 DEF SessionFits, SessionInv
<1>10. /\ ledger[s] = <<>> /\ ~Completed(s) /\ old.at_fault = None
       /\ holds[s].status \in {"NONE", "HELD"}
  BY <1>2, <1>5, <1>9, OpenUnpaid DEF CareInv
<1>11. ~Active(new)
  BY <1>3, <1>6 DEF Active
<1>12. SessionFits(s)'
  <2>1. FaultFits(new)
    <3>1. _scheduled_start(new) = _scheduled_start(old) /\ ScheduledEnd(new) = ScheduledEnd(old)
      BY <1>6 DEF _scheduled_start, ScheduledEnd
    <3>2. CASE req[w].op = "no_show"
      BY <1>3, <1>5, <1>6, <3>1, <3>2 DEF FaultFits
    <3>3. CASE req[w].op = "cancel" /\ req[w].late
      BY <1>3, <1>5, <1>6, <3>1, <3>3 DEF FaultFits
    <3>4. CASE fault = old.at_fault
      BY <1>6, <1>10, <3>4 DEF FaultFits
    <3> QED
      BY <1>1, <1>2, <3>2, <3>3, <3>4
  <2>2. HoldFits(new, holds[s])
    BY <1>3, <1>6, <1>9, <1>10 DEF HoldFits, BookedSlots
  <2>3. ledger'[s] = <<>> /\ ~Completed(s)' /\ holds'[s] = holds[s]
    BY <1>10 DEF Completed
  <2> QED
    BY <1>8, <1>11, <2>1, <2>2, <2>3, UnpaidFits
<1>13. PICK r : r = req[w] /\ \A t \in todo[w] : Ended(r, t)'
  <2>1. PICK r : r = req[w]
    OBVIOUS
  <2>2. Ended(r, s)'
    BY <1>3, <1>6, <1>8, <2>1 DEF Ended
  <2>3. \A t \in todo[w] : t = s
    BY <1>5
  <2> QED
    BY <2>1, <2>2, <2>3
<1>14. Others(w) /\ WorkerFits(w)' /\ \A t \in todo[w] : InHand(w, t)'
  BY <1>13, ResolveFits DEF CareInv
<1>15. holds[s].status = "HELD" => InHand(w, s)'
  BY <1>5, <1>9, <1>14 DEF HoldFits, Active
<1>16. \A t \in SessionIds : Completed(t)' => Completed(t)
  BY DEF Completed
<1> QED
  BY <1>7, <1>11, <1>12, <1>14, <1>15, <1>16, RowCommit

(* cancel's commit.                                                        *)
LEMMA CancelFits ==
    ASSUME CareInv, CareSerialInv, NEW w \in Workers, CommitCancel(w)
    PROVE  CareSerialInv'
<1> DEFINE s == req[w].session
           fault == IF todo[w] # {} /\ req[w].late THEN req[w].actor ELSE sessions[s].at_fault
<1>1. /\ pc[w] = "commit" /\ req[w].op = "cancel" /\ ResolveNext(w)
      /\ sessions' = [sessions EXCEPT ![s] = Closed(sessions[s], "CANCELLED", req[w].at, fault)]
      /\ UNCHANGED <<holds, ledger, suspended, events>>
  BY DEF CommitCancel, Doing, ledgerVars
<1>2. fault = sessions[s].at_fault \/ req[w].late
  OBVIOUS
<1> HIDE DEF fault
<1> QED
  BY <1>1, <1>2, CloseFits

(* report_no_show's commit.                                                *)
LEMMA NoShowFits ==
    ASSUME CareInv, CareSerialInv, NEW w \in Workers, CommitNoShow(w)
    PROVE  CareSerialInv'
<1> DEFINE s == req[w].session
           fault == Counterparty(req[w].actor, req[w].row)
<1>1. /\ pc[w] = "commit" /\ req[w].op = "no_show" /\ ResolveNext(w)
      /\ sessions' = [sessions EXCEPT ![s] = Closed(sessions[s], "NO_SHOW", req[w].at, fault)]
      /\ UNCHANGED <<holds, ledger, suspended, events>>
  BY DEF CommitNoShow, Doing, ledgerVars
<1> HIDE DEF fault
<1> QED
  BY <1>1, CloseFits

(* Entries of an open session are settlements.                             *)
LEMMA OpenPaid ==
    ASSUME TypeOK, NEW s \in SessionIds, SessionFits(s), Active(sessions[s]),
           NEW i \in DOMAIN ledger[s]
    PROVE  ledger[s][i].reason = "SETTLEMENT"
<1>1. ledger[s] \in Seq(PointTransaction)
  BY DEF TypeOK, LedgerTypeOK
<1>2. \A q \in Seq(PointTransaction) : \A k \in DOMAIN q : q[k] \in PointTransaction
  OBVIOUS
<1>3. ledger[s][i] \in PointTransaction
  BY <1>1, <1>2
<1>4. Justified(s, ledger[s][i])
  BY DEF SessionFits
<1> QED
  BY <1>3, <1>4 DEF Justified, PointTransaction, Reasons, Active

(* An open session that the suspension of a party cancels: what has been   *)
(* cared for and paid stays.                                               *)
LEMMA StoppedFits ==
    ASSUME TypeOK, NEW s \in SessionIds, SessionFits(s), Active(sessions[s]), NEW at,
           sessions'[s] = Closed(sessions[s], "CANCELLED", at, sessions[s].at_fault),
           UNCHANGED <<holds, ledger, events>>
    PROVE  SessionFits(s)'
<1>1. PICK old \in Row : old = sessions[s]
  BY DEF TypeOK
<1>2. PICK new : new = Closed(old, "CANCELLED", at, old.at_fault)
  OBVIOUS
<1>3. /\ new.status = "CANCELLED" /\ new.requester = old.requester
      /\ new.provider = old.provider /\ new.start_slot = old.start_slot
      /\ new.end_slot = old.end_slot /\ new.checkout_at = old.checkout_at
      /\ new.checkin_at = old.checkin_at /\ new.actual = old.actual
      /\ new.at_fault = old.at_fault
  BY <1>2 DEF Closed
<1>4. sessions'[s] = new /\ ~Active(new)
  BY <1>1, <1>2, <1>3 DEF Active
<1>5. Active(old) /\ FaultFits(old) /\ HoldFits(old, holds[s])
  BY <1>1 DEF SessionFits
<1>6. FaultFits(sessions[s])'
  <2>1. new.at_fault = None
    BY <1>3, <1>5 DEF FaultFits, Active
  <2> QED
    BY <1>4, <2>1 DEF FaultFits
<1>7. HoldFits(sessions[s], holds[s])'
  <2>1. HoldFits(new, holds[s])
    BY <1>3, <1>4, <1>5 DEF HoldFits, BookedSlots
  <2> QED
    BY <1>4, <2>1 DEF HoldFits, BookedSlots, Active
<1>8. ASSUME NEW i \in DOMAIN ledger[s] PROVE Justified(s, ledger[s][i])'
  <2>1. ledger[s][i].reason = "SETTLEMENT"
    BY OpenPaid
  <2>2. Justified(s, ledger[s][i])
    BY DEF SessionFits
  <2> QED
    BY <1>1, <1>3, <1>4, <2>1, <2>2 DEF Justified
<1>9. Completed(s)' => Settled(s)'
  <2>1. Completed(s) => Settled(s)
    BY DEF SessionFits
  <2> QED
    BY <1>1, <1>3, <1>4, <2>1 DEF Completed, Settled, has_settled
<1>10. SuspensionFits(sessions[s])'
  BY <1>3, <1>4 DEF SuspensionFits, Active
<1> QED
  BY <1>6, <1>7, <1>8, <1>9, <1>10 DEF SessionFits

(* emergency_suspend's commit.                                             *)
LEMMA SuspendCommitFits ==
    ASSUME CareInv, CareSerialInv, NEW w \in Workers, CommitSuspend(w)
    PROVE  CareSerialInv'
<1>1. PICK r : r = req[w]
  OBVIOUS
<1>2. PICK u : u = r.actor
  OBVIOUS
<1>3. /\ pc[w] = "commit" /\ r.op = "suspend" /\ ResolveNext(w)
      /\ suspended' = suspended \cup {u}
      /\ sessions' = [s \in SessionIds |->
             IF s \in r.stopped THEN Closed(sessions[s], "CANCELLED", r.at, sessions[s].at_fault)
                                ELSE sessions[s]]
      /\ UNCHANGED <<holds, ledger, events>>
  BY <1>1, <1>2 DEF CommitSuspend, Doing, ledgerVars
<1>4. /\ r.stopped = {s \in SessionIds : IsParty(u, sessions[s]) /\ Active(sessions[s])}
      /\ todo[w] = {s \in r.stopped : sessions[s].status = "CONFIRMED"}
  BY <1>1, <1>2, <1>3 DEF CareSerialInv, CommitFits, FirstFits, MaySuspend
<1>5. Alone(w) /\ \A v \in Workers : pc[v] \in {"idle", "commit"}
  BY <1>3, InFlightAlone DEF CareSerialInv, Alone
<1>6. ASSUME NEW s \in r.stopped
      PROVE  /\ s \in SessionIds /\ Active(sessions[s])
             /\ sessions'[s] = Closed(sessions[s], "CANCELLED", r.at, sessions[s].at_fault)
             /\ sessions'[s].status = "CANCELLED"
  BY <1>3, <1>4 DEF Closed
<1>7. ASSUME NEW s \in SessionIds, s \notin r.stopped
      PROVE  sessions'[s] = sessions[s] /\ ~(IsParty(u, sessions[s]) /\ Active(sessions[s]))
  BY <1>3, <1>4, <1>7
<1>8. ASSUME NEW s \in SessionIds PROVE SessionFits(s)'
  <2>1. SessionFits(s)
    BY DEF CareSerialInv
  <2>2. CASE s \in r.stopped
    BY <1>3, <1>6, <2>1, <2>2, StoppedFits DEF CareInv
  <2>3. CASE s \notin r.stopped
    <3>1. SuspensionFits(sessions[s])
      BY <2>1 DEF SessionFits
    <3>2. SuspensionFits(sessions[s])'
      BY <1>3, <1>7, <2>3, <3>1 DEF SuspensionFits, IsParty, Active
    <3>3. holds'[s] = holds[s] /\ ledger'[s] = ledger[s] /\ (Completed(s)' => Completed(s))
      BY <1>3 DEF Completed
    <3> QED
      BY <1>7, <2>1, <2>3, <3>2, <3>3, SameFits
  <2> QED
    BY <2>2, <2>3
<1>9. NoDoubleBooking'
  <2>1. ASSUME NEW s \in SessionIds, Active(sessions'[s]) PROVE sessions'[s] = sessions[s]
    <3>1. CASE s \in r.stopped
      BY <1>6, <2>1, <3>1 DEF Active
    <3> QED
      BY <1>7, <3>1
  <2> QED
    BY <2>1, BookingsStay DEF CareSerialInv
<1>10. ASSUME NEW t \in todo[w] PROVE Ended(r, t)'
  BY <1>3, <1>4, <1>6 DEF Ended
<1>11. Others(w) /\ WorkerFits(w)' /\ \A t \in todo[w] : InHand(w, t)'
  BY <1>1, <1>3, <1>10, ResolveFits DEF CareInv
<1>12. ASSUME NEW s \in SessionIds, ~Failures PROVE OpenOrInHand(s)'
  <2>1. CASE holds[s].status # "HELD"
    BY <1>3, <2>1 DEF OpenOrInHand
  <2>2. CASE holds[s].status = "HELD"
    <3>1. sessions[s].status = "CONFIRMED" /\ sessions[s].checkout_at = None
      BY <1>5, <1>12, <2>2, HeldOpen
    <3>2. CASE s \in r.stopped
      BY <1>4, <1>11, <3>1, <3>2 DEF OpenOrInHand
    <3>3. CASE s \notin r.stopped
      BY <1>7, <3>1, <3>3, StillOpen
    <3> QED
      BY <3>2, <3>3
  <2> QED
    BY <2>1, <2>2
<1> QED
  BY <1>5, <1>8, <1>9, <1>11, <1>12, OneMoves

-----------------------------------------------------------------------------
(* The other commits.                                                      *)

(* A request that ends without writing a row, a hold or an entry.          *)
LEMMA EndFits ==
    ASSUME CareInv, CareSerialInv, NEW w \in Workers, pc[w] # "idle", Finish(w),
           UNCHANGED <<sessions, holds, ledger, suspended>>,
           \A s \in SessionIds : Completed(s)' => Completed(s) \/ Settled(s),
           ~Failures => \A s \in SessionIds : InHand(w, s) => holds[s].status # "HELD"
    PROVE  CareSerialInv'
<1>1. Others(w) /\ WorkerFits(w)'
  BY FinishIdle DEF CareInv
<1> QED
  BY <1>1, NoRowWritten

(* An evaluation writes no session.                                        *)
LEMMA EvaluationFits ==
    ASSUME CareInv, CareSerialInv, NEW w \in Workers, CommitEvaluation(w)
    PROVE  CareSerialInv'
<1>1. /\ pc[w] = "commit" /\ Finish(w)
      /\ UNCHANGED <<sessions, holds, ledger, suspended, events>>
  BY DEF CommitEvaluation, Doing, ledgerVars
<1> QED
  BY <1>1, EndFits DEF Completed, InHand

(* A request that stops half-way.                                          *)
LEMMA FailFits ==
    ASSUME CareInv, CareSerialInv, NEW w \in Workers, Fail(w)
    PROVE  CareSerialInv'
<1>1. /\ Failures /\ pc[w] # "idle" /\ Finish(w)
      /\ UNCHANGED <<sessions, holds, ledger, suspended, events>>
  BY DEF Fail, dbVars, ledgerVars
<1> QED
  BY <1>1, EndFits DEF Completed, InHand

(* The new session takes the next id.  Nobody has an open session in its   *)
(* slots, so that nobody is booked twice.                                  *)
LEMMA CreateCommitFits ==
    ASSUME CareInv, CareSerialInv, NEW w \in Workers, CommitCreate(w)
    PROVE  CareSerialInv'
<1>1. PICK row : row = req[w].row
  OBVIOUS
<1>2. PICK s \in SessionIds :
          /\ ~Exists(s) /\ sessions' = [sessions EXCEPT ![s] = row]
          /\ log(IF req[w].op = "rematch" THEN "REMATCH_REQUESTED" ELSE "REQUEST_CREATED", s)
  BY <1>1 DEF CommitCreate, IsNext
<1>3. /\ pc[w] = "commit" /\ req[w].op \in {"create", "rematch"} /\ Finish(w)
      /\ UNCHANGED <<holds, ledger, suspended>>
  BY DEF CommitCreate, Doing, ledgerVars
<1>4. /\ HasParties(row) /\ row.status = "REQUESTED"
      /\ row.checkin_at = None /\ row.checkout_at = None
  BY <1>1, <1>3 DEF CareInv, RequestInv, Reliable
<1>5. MayCreate(row)
  BY <1>1, <1>3 DEF CareSerialInv, CommitFits, FirstFits
<1>6. /\ sessions'[s] = row
      /\ \A t \in SessionIds \ {s} : sessions'[t] = sessions[t]
  BY <1>2 DEF CareInv, TypeOK
<1>7. /\ holds[s].status = "NONE" /\ ledger[s] = <<>> /\ sessions[s] = NoRow
      /\ SessionFits(s)
  BY <1>2 DEF CareInv, SessionInv, CareSerialInv
<1>8. \A t \in SessionIds : Completed(t)' => Completed(t)
  BY <1>2, NotCompleted
<1>9. SessionFits(s)'
  <2>1. ~Completed(s)
    BY <1>7 DEF SessionFits, Settled, NoRow
  <2>2. FaultFits(row) /\ SuspensionFits(row)
    BY <1>4, <1>5 DEF FaultFits, SuspensionFits, MayCreate
  <2>3. HoldFits(row, holds[s])
    BY <1>4, <1>7 DEF HoldFits
  <2>4. ledger'[s] = <<>> /\ ~Completed(s)' /\ holds'[s] = holds[s] /\ suspended' = suspended
    BY <1>3, <1>7, <1>8, <2>1
  <2> QED
    BY <1>6, <2>2, <2>3, <2>4, UnpaidFits
<1>10. ASSUME NEW t \in SessionIds PROVE SessionFits(t)'
  <2>1. CASE t # s
    BY <1>3, <1>6, <1>8, <2>1, SameFits DEF CareSerialInv
  <2> QED
    BY <1>9, <2>1
<1>11. ASSUME NEW t \in SessionIds \ {s}, Active(sessions[t]),
              Pair(row) \cap Pair(sessions[t]) # {}
       PROVE  /\ ~Overlaps(sessions[t], row.start_slot, row.end_slot)
              /\ ~Overlaps(row, sessions[t].start_slot, sessions[t].end_slot)
  <2>1. IsParty(row.requester, sessions[t]) \/ IsParty(row.provider, sessions[t])
    BY <1>11 DEF Pair, IsParty
  <2>2. ~Overlaps(sessions[t], row.start_slot, row.end_slot)
    BY <1>5, <1>11, <2>1 DEF MayCreate, has_overlap
  <2>3. /\ row.start_slot \in Int /\ row.end_slot \in Int
        /\ sessions[t].start_slot \in Int /\ sessions[t].end_slot \in Int
    BY <1>1 DEF CareInv, TypeOK, Row, Request
  <2> QED
    BY <2>2, <2>3 DEF Overlaps
<1>12. NoDoubleBooking'
  <2> SUFFICES ASSUME NEW a \in SessionIds, NEW b \in SessionIds, a # b,
                      Active(sessions'[a]), Active(sessions'[b]),
                      Pair(sessions'[a]) \cap Pair(sessions'[b]) # {}
               PROVE  ~Overlaps(sessions'[a], sessions'[b].start_slot, sessions'[b].end_slot)
    BY DEF NoDoubleBooking, Active, Pair, Overlaps
  <2>1. CASE a = s
    BY <1>6, <1>11, <2>1
  <2>2. CASE b = s
    <3>1. Pair(row) \cap Pair(sessions[a]) # {}
      BY <1>6, <2>2
    <3> QED
      BY <1>6, <1>11, <2>2, <3>1
  <2>3. CASE a # s /\ b # s
    BY <1>6, <2>3 DEF CareSerialInv, NoDoubleBooking
  <2> QED
    BY <2>1, <2>2, <2>3
<1>13. Others(w) /\ WorkerFits(w)' /\ Alone(w) /\ \A v \in Workers : pc[v] \in {"idle", "commit"}
  BY <1>3, FinishIdle, InFlightAlone DEF CareInv, CareSerialInv, Alone
<1>14. ASSUME NEW t \in SessionIds, ~Failures PROVE OpenOrInHand(t)'
  <2>1. CASE holds[t].status # "HELD"
    BY <1>3, <2>1 DEF OpenOrInHand
  <2>2. CASE holds[t].status = "HELD"
    BY <1>6, <1>7, <1>13, <1>14, <2>2, HeldOpen, StillOpen
  <2> QED
    BY <2>1, <2>2
<1> QED
  BY <1>10, <1>12, <1>13, <1>14, OneMoves

(* A check-out that completes a settled session.                           *)
LEMMA CompleteFits ==
    ASSUME CareInv, CareSerialInv, NEW w \in Workers, CommitComplete(w)
    PROVE  CareSerialInv'
<1>1. /\ pc[w] = "complete" /\ Finish(w) /\ log("SESSION_COMPLETED", req[w].session)
      /\ UNCHANGED <<sessions, holds, ledger, suspended>>
  BY DEF CommitComplete, ledgerVars
<1>2. Settled(req[w].session)
  BY <1>1 DEF CareSerialInv, LaterFits
<1>3. \A s \in SessionIds : Completed(s)' => Completed(s) \/ Settled(s)
  BY <1>1, <1>2 DEF log, Completed
<1> QED
  BY <1>1, <1>3, EndFits DEF InHand

(* A commit the database refuses writes nothing; no posting is refused,    *)
(* because a hold is created only for a session without one.               *)
LEMMA RefusedFits ==
    ASSUME CareInv, CareSerialInv, NEW w \in Workers, Refused(w)
    PROVE  CareSerialInv'
<1>1. /\ Finish(w) /\ UNCHANGED <<sessions, holds, ledger, suspended, events>>
  BY DEF Refused, dbVars, ledgerVars
<1>2. CASE pc[w] = "commit"
  BY <1>1, <1>2, EndFits DEF InHand, Completed
<1>3. CASE pc[w] = "post" /\ HoldConflict(work[w].session, work[w].posting)
  <2>1. PICK s, p : s = work[w].session /\ p = work[w].posting
    OBVIOUS
  <2>2. p.hold = "HELD" /\ holds[s].status # "NONE" /\ Decided(w, s, p)
    BY <1>3, <2>1 DEF HoldConflict, CareSerialInv, PostFits
  <2>3. CASE Accepting(req[w]) /\ s = req[w].session
    BY <2>2, <2>3 DEF Accepting, Untouched
  <2>4. CASE p \in {settle_hold(holds[s], CaredSlots(sessions[s])),
                    _transfer(CaredSlots(sessions[s])), Resolution(w, s)}
    BY <2>2, <2>4 DEF settle_hold, _transfer, Resolution, resolve_hold_on_no_show,
                      resolve_hold_on_cancel, _forfeit_hold, _release_hold
  <2> QED
    BY <2>2, <2>3, <2>4 DEF Decided
<1> QED
  BY <1>2, <1>3 DEF Refused, Doing

-----------------------------------------------------------------------------
(* The reads of the point transactions.                                    *)

(* A read that has decided on a posting.                                   *)
LEMMA PrepareFits ==
    ASSUME TypeOK, NEW w \in Workers, NEW s, NEW p, NEW rest, Prepare(w, s, p, rest),
           UNCHANGED dbVars, Decided(w, s, p), \A t \in rest : Ended(req[w], t)
    PROVE  /\ Others(w) /\ WorkerFits(w)' /\ InHand(w, s)'
           /\ \A t \in rest : InHand(w, t)'
<1>1. UNCHANGED <<balance, held_balance, holds, ledger, sessions, req>>
  BY DEF dbVars, ledgerVars, Prepare
<1>2. /\ pc'[w] = "post" /\ todo'[w] = rest
      /\ work'[w].session = s /\ work'[w].posting = p
      /\ work'[w].balance = balance /\ work'[w].held = held_balance
  BY DEF TypeOK, Prepare
<1>3. Others(w)
  BY DEF TypeOK, Prepare, Others
<1>4. Decided(w, s, p)'
  BY <1>1 DEF Decided, Accepting, CheckingOut, Ended, Resolution, Untouched, Active
<1>5. WorkerFits(w)'
  <2>1. CommitFits(w)'
    BY <1>2 DEF CommitFits
  <2>2. LaterFits(w)'
    <3>1. \A t \in rest : Ended(req[w], t)'
      BY <1>1 DEF Ended
    <3> QED
      BY <1>1, <1>2, <3>1 DEF LaterFits
  <2>3. PostFits(w)'
    BY <1>1, <1>2, <1>4 DEF PostFits
  <2> QED
    BY <2>1, <2>2, <2>3 DEF WorkerFits
<1> QED
  BY <1>2, <1>3, <1>5 DEF InHand

(* create_hold's read.                                                     *)
LEMMA HoldReadFits ==
    ASSUME CareInv, CareSerialInv, NEW w \in Workers, ReadHold(w)
    PROVE  CareSerialInv'
<1>1. pc[w] = "hold" /\ UNCHANGED <<dbVars, now>>
  BY DEF ReadHold
<1>2. UNCHANGED <<sessions, holds, ledger, suspended, events>>
  BY <1>1 DEF dbVars, ledgerVars
<1>3. Accepting(req[w])
  BY <1>1 DEF CareSerialInv, LaterFits
<1>4. CASE Finish(w)
  BY <1>1, <1>2, <1>4, EndFits DEF InHand, Completed
<1>5. CASE Prepare(w, req[w].session,
                   create_hold(req[w].row.end_slot - req[w].row.start_slot), {})
  <2>1. PICK s, p : /\ s = req[w].session
                    /\ p = create_hold(req[w].row.end_slot - req[w].row.start_slot)
    OBVIOUS
  <2>2. Decided(w, s, p)
    BY <1>3, <2>1 DEF Decided, Accepting, BookedSlots
  <2>3. Others(w) /\ WorkerFits(w)'
    BY <1>1, <1>5, <2>1, <2>2, PrepareFits DEF CareInv
  <2> QED
    BY <1>1, <1>2, <2>3, NoRowWritten DEF InHand, Completed
<1> QED
  BY <1>4, <1>5 DEF ReadHold

(* The read of a hold to resolve takes the last one that is HELD; what it  *)
(* skips has none.                                                         *)
LEMMA ResolveReadFits ==
    ASSUME CareInv, CareSerialInv, NEW w \in Workers, ReadResolve(w)
    PROVE  CareSerialInv'
<1> DEFINE held == {t \in todo[w] : holds[t].status = "HELD"}
<1>1. pc[w] = "resolve" /\ UNCHANGED <<dbVars, now>>
  BY DEF ReadResolve
<1>2. UNCHANGED <<sessions, holds, ledger, suspended, events>>
  BY <1>1 DEF dbVars, ledgerVars
<1>3. /\ \A t \in todo[w] : Ended(req[w], t)
      /\ todo[w] \subseteq SessionIds
  BY <1>1 DEF CareSerialInv, LaterFits, CareInv, TypeOK
<1>4. \A t : InHand(w, t) => t \in todo[w]
  BY <1>1 DEF InHand
<1>5. CASE held = {} /\ Finish(w)
  BY <1>1, <1>2, <1>4, <1>5, EndFits DEF Completed
<1>6. ASSUME NEW s \in held, \A t \in held : t <= s,
             Prepare(w, s, Resolution(w, s), {t \in todo[w] : t < s})
      PROVE  CareSerialInv'
  <2>1. PICK p, rest : p = Resolution(w, s) /\ rest = {t \in todo[w] : t < s}
    OBVIOUS
  <2>2. Decided(w, s, p) /\ \A t \in rest : Ended(req[w], t)
    BY <1>3, <2>1 DEF Decided
  <2>3. /\ Others(w) /\ WorkerFits(w)' /\ InHand(w, s)'
        /\ \A t \in rest : InHand(w, t)'
    BY <1>1, <1>6, <2>1, <2>2, PrepareFits DEF CareInv
  <2>4. \A t \in held : t = s \/ t \in rest
    <3>1. \A a, b \in SessionIds : a <= b => a = b \/ a < b
      BY DEF SessionIds
    <3> QED
      BY <1>3, <1>6, <2>1, <3>1
  <2>5. \A t \in SessionIds : holds[t].status = "HELD" /\ InHand(w, t) => InHand(w, t)'
    BY <1>4, <2>3, <2>4
  <2> QED
    BY <1>1, <1>2, <2>3, <2>5, NoRowWritten DEF Completed
<1> QED
  BY <1>5, <1>6 DEF ReadResolve

(* A full slot of care is at least one slot.                               *)
LEMMA FullSlot ==
    ASSUME NEW a \in Nat
    PROVE  /\ a \div TicksPerSlot \in Nat
           /\ a >= TicksPerSlot => a \div TicksPerSlot > 0
<1>1. PICK n \in Nat : n = TicksPerSlot /\ n > 0
  BY CareAssumption
<1>2. PICK q \in Int : q = a \div n
  BY <1>1
<1>3. q * n <= a /\ a < (q + 1) * n
  BY <1>1, <1>2
<1>4. q >= 0
  <2>1. CASE q <= -1
    <3>1. (q + 1) * n <= 0
      BY <1>1, <2>1
    <3> QED
      BY <1>1, <1>3, <3>1
  <2> QED
    BY <2>1
<1>5. ASSUME a >= n PROVE q > 0
  <2>1. CASE q = 0
    BY <1>1, <1>3, <1>5, <2>1
  <2> QED
    BY <1>4, <2>1
<1> QED
  BY <1>1, <1>2, <1>4, <1>5

(* The read of a settlement: nothing has been paid yet.                    *)
LEMMA SettleReadFits ==
    ASSUME CareInv, CareSerialInv, NEW w \in Workers, ReadSettle(w)
    PROVE  CareSerialInv'
<1>1. pc[w] = "settle" /\ UNCHANGED <<dbVars, now>>
  BY DEF ReadSettle
<1>2. UNCHANGED <<sessions, holds, ledger, suspended, events>>
  BY <1>1 DEF dbVars, ledgerVars
<1>3. PICK s : s = req[w].session
  OBVIOUS
<1>4. CheckingOut(s) /\ req[w].op = "checkout"
  BY <1>1, <1>3 DEF CareSerialInv, LaterFits, CareInv, StepInv
<1>5. \A t : InHand(w, t) => t = s
  BY <1>1, <1>3 DEF InHand
<1>6. ~has_settled(s) /\ Len(ledger[s]) = 0
  BY <1>4 DEF CheckingOut, has_settled
<1>7. s \in SessionIds /\ sessions[s].actual \in Nat
  BY <1>3, <1>4, OnSession DEF SessionOps, Row
<1>8. PICK slots \in Nat : slots = CaredSlots(sessions[s])
  BY <1>7, FullSlot DEF CaredSlots
<1>9. ASSUME NEW p, Prepare(w, s, p, {}), Decided(w, s, p) PROVE CareSerialInv'
  <2>1. Others(w) /\ WorkerFits(w)' /\ InHand(w, s)'
    BY <1>1, <1>9, PrepareFits DEF CareInv
  <2> QED
    BY <1>1, <1>2, <1>5, <2>1, NoRowWritten DEF Completed
<1>10. CASE holds[s].status = "HELD" /\ Prepare(w, s, settle_hold(holds[s], slots), {})
  <2>1. PICK p : p = settle_hold(holds[s], slots)
    OBVIOUS
  <2>2. Decided(w, s, p)
    BY <1>3, <1>4, <1>8, <1>10, <2>1 DEF Decided
  <2> QED
    BY <1>9, <1>10, <2>1, <2>2
<1>11. CASE holds[s].status # "HELD" /\ slots > 0 /\ Prepare(w, s, _transfer(slots), {})
  <2>1. PICK p : p = _transfer(slots)
    OBVIOUS
  <2>2. Decided(w, s, p)
    BY <1>3, <1>4, <1>8, <1>11, <2>1 DEF Decided, CheckingOut
  <2> QED
    BY <1>9, <1>11, <2>1, <2>2
<1>12. CASE holds[s].status # "HELD" /\ slots <= 0 /\ Continue(w, "complete")
  <2>1. "complete" \in Steps
    BY DEF Steps
  <2>2. Others(w) /\ pc'[w] = "complete" /\ req'[w] = req[w]
    BY <1>12, <2>1, ContinueType DEF CareInv
  <2>3. Settled(s)
    <3>1. ~(sessions[s].actual >= TicksPerSlot)
      BY <1>7, <1>8, <1>12, FullSlot DEF CaredSlots
    <3> QED
      BY <1>4, <1>12, <3>1 DEF Settled, CheckingOut
  <2>4. Settled(s)'
    BY <1>2, <2>3 DEF Settled, has_settled
  <2>5. WorkerFits(w)'
    BY <1>3, <2>2, <2>4 DEF WorkerFits, CommitFits, LaterFits, PostFits, Settled
  <2> QED
    BY <1>1, <1>2, <1>5, <1>12, <2>2, <2>5, NoRowWritten DEF Completed
<1> QED
  BY <1>3, <1>6, <1>8, <1>10, <1>11, <1>12 DEF ReadSettle, CaredSlots

-----------------------------------------------------------------------------
(* The commit of a posting.                                                *)

(* Nothing has been paid for a session whose hold is HELD, and it is not   *)
(* completed.                                                              *)
LEMMA HeldUnpaid ==
    ASSUME TypeOK, NEW s \in SessionIds, SessionFits(s), holds[s].status = "HELD"
    PROVE  ledger[s] = <<>> /\ ~Completed(s)
<1>1. ledger[s] \in Seq(PointTransaction)
  BY DEF TypeOK, LedgerTypeOK
<1>2. ASSUME NEW i \in DOMAIN ledger[s] PROVE FALSE
  <2>1. \A q \in Seq(PointTransaction) : \A k \in DOMAIN q : q[k] \in PointTransaction
    OBVIOUS
  <2>2. ledger[s][i] \in PointTransaction /\ Justified(s, ledger[s][i])
    BY <1>1, <2>1 DEF SessionFits
  <2> QED
    BY <2>2 DEF Justified, PointTransaction, Reasons
<1>3. Len(ledger[s]) \in Nat /\ DOMAIN ledger[s] = 1..Len(ledger[s])
  BY <1>1
<1>4. 1 \notin 1..Len(ledger[s])
  BY <1>2, <1>3
<1>5. Len(ledger[s]) = 0
  BY <1>3, <1>4
<1> QED
  BY <1>1, <1>5 DEF SessionFits, Settled

(* The first entry of a session is the only one.                           *)
LEMMA FirstEntry ==
    ASSUME NEW tx
    PROVE  /\ Append(<<>>, tx) # <<>> /\ DOMAIN Append(<<>>, tx) = {1}
           /\ Append(<<>>, tx)[1] = tx
<1>1. <<>> \in Seq({tx}) /\ Len(<<>>) = 0
  OBVIOUS
<1>2. \A q \in Seq({tx}) : /\ Len(Append(q, tx)) = Len(q) + 1
                           /\ DOMAIN Append(q, tx) = 1..(Len(q) + 1)
                           /\ Append(q, tx)[Len(q) + 1] = tx
  OBVIOUS
<1> QED
  BY <1>1, <1>2

(* The rows, hold and entries of the session after its posting.            *)
PostedTo(s, row, hold, p) ==
    /\ sessions'[s] = row /\ row = sessions[s]
    /\ hold = holds'[s]
    /\ hold.status = IF p.hold = "KEEP" THEN holds[s].status ELSE p.hold
    /\ hold.amount = IF p.hold = "HELD" THEN p.amount ELSE holds[s].amount
    /\ \/ p.reason = "NONE" /\ ledger'[s] = <<>>
       \/ /\ p.reason # "NONE"
          /\ ledger'[s] = Append(<<>>, [reason |-> p.reason, amount |-> p.payee])
    /\ suspended' = suspended /\ events' = events

(* After a posting to a session without entries, it is enough to look at   *)
(* the hold, and at the new entry if there is one.                         *)
LEMMA PostedFits ==
    ASSUME NEW s \in SessionIds, NEW row, NEW hold, NEW p, SessionFits(s),
           PostedTo(s, row, hold, p), ~Completed(s), HoldFits(row, hold),
           p.reason # "NONE" => Justified(s, [reason |-> p.reason, amount |-> p.payee])'
    PROVE  SessionFits(s)'
<1>1. FaultFits(sessions[s])' /\ SuspensionFits(sessions[s])'
  BY DEF SessionFits, PostedTo, FaultFits, SuspensionFits, Active, _scheduled_start, ScheduledEnd
<1>2. HoldFits(sessions[s], holds[s])'
  BY DEF PostedTo, HoldFits, BookedSlots, Active
<1>3. ASSUME NEW i \in DOMAIN ledger'[s] PROVE Justified(s, ledger[s][i])'
  <2>1. CASE p.reason = "NONE"
    BY <1>3, <2>1 DEF PostedTo
  <2>2. CASE p.reason # "NONE"
    <3>1. PICK tx : tx = [reason |-> p.reason, amount |-> p.payee]
      OBVIOUS
    <3>2. ledger'[s] = Append(<<>>, tx) /\ i = 1
      BY <1>3, <2>2, <3>1, FirstEntry DEF PostedTo
    <3>3. ledger'[s][i] = tx
      BY <3>2, FirstEntry
    <3> QED
      BY <2>2, <3>1, <3>3
  <2> QED
    BY <2>1, <2>2
<1>4. ~Completed(s)'
  BY DEF PostedTo, Completed
<1> QED
  BY <1>1, <1>2, <1>3, <1>4 DEF SessionFits

(* A hold for an accepted session.                                         *)
LEMMA HoldPosted ==
    ASSUME NEW s \in SessionIds, NEW row \in Row, NEW hold, NEW p, SessionFits(s),
           PostedTo(s, row, hold, p), row.status = "CONFIRMED",
           row.checkin_at = None, row.checkout_at = None,
           p = create_hold(BookedSlots(row))
    PROVE  SessionFits(s)'
<1>1. p.hold = "HELD" /\ p.reason = "NONE" /\ p.amount = BookedSlots(row)
  BY DEF create_hold
<1>2. hold.status = "HELD" /\ hold.amount = BookedSlots(row) /\ row = sessions[s]
  BY <1>1 DEF PostedTo
<1>3. ~Completed(s)
  BY <1>2 DEF SessionFits, Settled
<1>4. HoldFits(row, hold)
  BY <1>2 DEF HoldFits
<1> QED
  BY <1>1, <1>3, <1>4, PostedFits

(* A settlement, of a hold or without one: the session is settled.         *)
LEMMA SettlementPosted ==
    ASSUME TypeOK, NEW s \in SessionIds, NEW row \in Row, NEW hold, NEW p, SessionFits(s),
           PostedTo(s, row, hold, p), Active(row), row.checkin_at # None,
           row.checkout_at # None, ledger[s] = <<>>, HasParties(row),
           \/ holds[s].status = "HELD" /\ p = settle_hold(holds[s], CaredSlots(row))
           \/ /\ holds[s].status = "NONE" /\ CaredSlots(row) > 0
              /\ p = _transfer(CaredSlots(row))
    PROVE  (~Completed(s) => SessionFits(s)') /\ Settled(s)'
<1>1. PICK cared \in Nat : /\ cared = CaredSlots(row)
                           /\ row.actual >= TicksPerSlot => cared > 0
  BY FullSlot DEF CaredSlots, Row
<1>2. PICK before \in PointHold : before = holds[s]
  BY DEF TypeOK, LedgerTypeOK
<1>3. row = sessions[s] /\ sessions'[s] = row /\ HoldFits(row, before)
  BY <1>2 DEF PostedTo, SessionFits
<1>4. CASE before.status = "HELD" /\ p = settle_hold(before, cared)
  <2>1. PICK slots \in Nat : /\ slots = IF cared < before.amount THEN cared ELSE before.amount
                             /\ slots <= before.amount
                             /\ slots = cared \/ (slots = before.amount /\ slots < cared)
    BY DEF PointHold
  <2>2. /\ p.hold = "SETTLED" /\ p.payee = slots
        /\ p.reason = IF slots > 0 THEN "SETTLEMENT" ELSE "NONE"
    BY <1>4, <2>1 DEF settle_hold
  <2>3. hold.status = "SETTLED" /\ hold.amount = before.amount /\ holds'[s] = hold
    BY <1>2, <2>2 DEF PostedTo
  <2>4. before.amount > 0
    BY <1>3, <1>4 DEF HoldFits, HasParties, BookedSlots, Row
  <2>5. Justified(s, [reason |-> "SETTLEMENT", amount |-> slots])'
    BY <1>1, <1>3, <2>1, <2>3 DEF Justified, CaredSlots
  <2>6. HoldFits(row, hold)
    BY <1>3, <1>4, <2>3 DEF HoldFits, Active
  <2>7. ~Completed(s) => SessionFits(s)'
    <3>1. p.reason # "NONE" => Justified(s, [reason |-> p.reason, amount |-> p.payee])'
      <4>1. CASE slots > 0
        <5>1. p.reason = "SETTLEMENT" /\ p.payee = slots
          BY <2>2, <4>1
        <5> QED
          BY <2>5, <5>1
      <4> QED
        BY <2>2, <4>1
    <3> QED
      BY <2>6, <3>1, PostedFits
  <2>8. cared > 0 => slots > 0
    BY <2>1, <2>4
  <2>9. slots > 0 => ledger'[s] # <<>>
    BY <2>2, FirstEntry DEF PostedTo
  <2> QED
    BY <1>1, <1>3, <2>3, <2>7, <2>8, <2>9 DEF Settled, has_settled
<1>5. CASE before.status = "NONE" /\ cared > 0 /\ p = _transfer(cared)
  <2>1. p.hold = "KEEP" /\ p.payee = cared /\ p.reason = "SETTLEMENT"
    BY <1>5 DEF _transfer
  <2>2. hold.status = "NONE" /\ holds'[s] = hold /\ hold.amount = before.amount
    BY <1>2, <1>5, <2>1 DEF PostedTo
  <2>3. Justified(s, [reason |-> "SETTLEMENT", amount |-> cared])'
    BY <1>1, <1>3, <2>2 DEF Justified, CaredSlots
  <2>4. HoldFits(row, hold)
    BY <1>3, <2>2 DEF HoldFits
  <2>5. ~Completed(s) => SessionFits(s)'
    BY <2>1, <2>3, <2>4, PostedFits
  <2>6. ledger'[s] # <<>>
    BY <2>1, FirstEntry DEF PostedTo
  <2> QED
    BY <1>3, <2>2, <2>5, <2>6 DEF Settled, has_settled
<1> QED
  BY <1>1, <1>2, <1>4, <1>5

(* A hold released, or forfeited because of a fault on record.             *)
LEMMA ResolutionPosted ==
    ASSUME TypeOK, NEW w, NEW s \in SessionIds, NEW row \in Row, NEW hold, NEW p,
           SessionFits(s), PostedTo(s, row, hold, p), HasParties(row),
           Ended(req[w], s), holds[s].status = "HELD", p = Resolution(w, s)
    PROVE  SessionFits(s)' /\ hold.status # "HELD"
<1>1. PICK before \in PointHold : before = holds[s]
  BY DEF TypeOK, LedgerTypeOK
<1>2. /\ row = sessions[s] /\ sessions'[s] = row /\ holds'[s] = hold
      /\ HoldFits(row, before) /\ FaultFits(row)
  BY <1>1 DEF PostedTo, SessionFits
<1>3. before.amount = BookedSlots(row) /\ row.status \in {"CANCELLED", "NO_SHOW"}
  BY <1>1, <1>2 DEF HoldFits, Ended
<1>4. ~Completed(s)
  BY HeldUnpaid
<1>5. CASE p = _release_hold(before)
  <2>1. p.hold = "RELEASED" /\ p.reason = "NONE"
    BY <1>5 DEF _release_hold
  <2>2. hold.status = "RELEASED" /\ hold.amount = before.amount
    BY <1>1, <2>1 DEF PostedTo
  <2>3. HoldFits(row, hold)
    BY <1>3, <2>2 DEF HoldFits, Active
  <2> QED
    BY <1>4, <2>1, <2>2, <2>3, PostedFits
<1>6. ASSUME NEW why,
             \/ why = "CANCEL_PENALTY" /\ row.status = "CANCELLED"
             \/ why = "NO_SHOW_PENALTY" /\ row.status = "NO_SHOW",
             p = _forfeit_hold(before, why), row.at_fault = row.requester
      PROVE  SessionFits(s)' /\ hold.status # "HELD"
  <2>1. p.hold = "FORFEITED" /\ p.reason = why /\ p.payee = before.amount /\ why # "NONE"
    BY <1>6 DEF _forfeit_hold
  <2>2. hold.status = "FORFEITED" /\ hold.amount = before.amount
    BY <1>1, <2>1 DEF PostedTo
  <2>3. HoldFits(row, hold)
    BY <1>3, <2>2 DEF HoldFits, Active
  <2>4. row.at_fault # None
    BY <1>6, CareAssumption DEF HasParties
  <2>5. /\ row.status = "CANCELLED" => row.cancelled_at > _scheduled_start(row) - DeadlineLead
        /\ row.status = "NO_SHOW" => row.cancelled_at >= ScheduledEnd(row)
    BY <1>2, <2>4 DEF FaultFits
  <2>6. Justified(s, [reason |-> why, amount |-> before.amount])'
    BY <1>2, <1>3, <1>6, <2>2, <2>5 DEF Justified, BookedSlots, _scheduled_start, ScheduledEnd
  <2> QED
    BY <1>4, <2>1, <2>2, <2>3, <2>6, PostedFits
<1>7. CASE req[w].op = "no_show"
  <2>1. row.status = "NO_SHOW"
    BY <1>2, <1>7 DEF Ended
  <2>2. \/ p = _release_hold(before)
        \/ p = _forfeit_hold(before, "NO_SHOW_PENALTY") /\ row.at_fault = row.requester
    BY <1>1, <1>2, <1>7 DEF Resolution, resolve_hold_on_no_show
  <2> QED
    BY <1>5, <1>6, <2>1, <2>2
<1>8. CASE req[w].op # "no_show"
  <2>1. row.status = "CANCELLED"
    BY <1>2, <1>8 DEF Ended
  <2>2. \/ p = _release_hold(before)
        \/ p = _forfeit_hold(before, "CANCEL_PENALTY") /\ row.at_fault = row.requester
    BY <1>1, <1>2, <1>8 DEF Resolution, resolve_hold_on_cancel
  <2> QED
    BY <1>5, <1>6, <2>1, <2>2
<1> QED
  BY <1>7, <1>8

(* A posting commits: the session it is for fits, and the request goes on  *)
(* to what it has still to do.                                             *)
LEMMA PostingFits ==
    ASSUME CareInv, CareSerialInv, NEW w \in Workers, CommitPosting(w)
    PROVE  CareSerialInv'
<1>1. PICK s \in SessionIds : s = work[w].session
  BY DEF CommitPosting, CareInv, WorkInv
<1>2. PICK p \in Posting : p = work[w].posting
  BY DEF CareInv, TypeOK, Work
<1>3. PICK row \in Row : row = sessions[s]
  BY DEF CareInv, TypeOK
<1>4. /\ pc[w] = "post" /\ Decided(w, s, p) /\ HasParties(row)
      /\ sessions' = sessions /\ events' = events /\ suspended' = suspended
  BY <1>1, <1>2, <1>3 DEF CommitPosting, CareSerialInv, PostFits, CareInv, WorkInv, SessionInv
<1>5. /\ LedgerTypeOK'
      /\ \A t \in SessionIds \ {s} : holds'[t] = holds[t] /\ ledger'[t] = ledger[t]
      /\ holds'[s].status = IF p.hold = "KEEP" THEN holds[s].status ELSE p.hold
      /\ holds'[s].amount = IF p.hold = "HELD" THEN p.amount ELSE holds[s].amount
      /\ \/ p.reason = "NONE" /\ ledger'[s] = ledger[s]
         \/ p.reason # "NONE"
            /\ ledger'[s] = Append(ledger[s], [reason |-> p.reason, amount |-> p.payee])
  <2>1. PICK b, h \in [Users -> Int] : b = work[w].balance /\ h = work[w].held
    BY DEF CareInv, TypeOK, Work
  <2>2. PICK payer, payee \in Users : payer = row.requester /\ payee = row.provider
    BY <1>4 DEF HasParties
  <2>3. Post(s, p, payer, payee, b, h)
    BY <1>1, <1>2, <1>3, <2>1, <2>2 DEF CommitPosting
  <2> QED
    BY <2>3, PostType DEF CareInv
<1>6. SessionFits(s) /\ SessionInv(s) /\ TypeOK /\ Alone(w)
  BY <1>4, InFlightAlone DEF CareInv, CareSerialInv
<1>7. ledger[s] = <<>>
  BY <1>4, <1>6, HeldUnpaid DEF Decided, Accepting, CheckingOut, Untouched
<1>8. PICK hold : hold = holds'[s]
  OBVIOUS
<1>9. PostedTo(s, row, hold, p)
  BY <1>3, <1>4, <1>5, <1>7, <1>8 DEF PostedTo
<1>10. \A t \in todo[w] : Ended(req[w], t) /\ t \in SessionIds
  BY <1>4 DEF CareSerialInv, LaterFits, CareInv, TypeOK
<1>11. PICK r : r = req[w]
  OBVIOUS
<1>12. ASSUME r.op = "checkout"
       PROVE  /\ SessionFits(s)' /\ Others(w) /\ WorkerFits(w)'
              /\ holds'[s].status # "HELD" /\ todo[w] = {}
  <2>1. CheckingOut(s) /\ s = r.session
    BY <1>4, <1>11, <1>12 DEF Decided, Accepting, Ended
  <2>2. Active(row) /\ row.checkin_at # None /\ row.checkout_at # None
    BY <1>3, <1>6, <2>1 DEF CheckingOut, SessionInv
  <2>3. \/ holds[s].status = "HELD" /\ p = settle_hold(holds[s], CaredSlots(row))
        \/ /\ holds[s].status = "NONE" /\ CaredSlots(row) > 0
           /\ p = _transfer(CaredSlots(row))
    BY <1>3, <1>4, <1>11, <1>12 DEF Decided, Accepting, Ended
  <2>4. (~Completed(s) => SessionFits(s)') /\ Settled(s)'
    BY <1>4, <1>6, <1>7, <1>9, <2>2, <2>3, SettlementPosted
  <2>5. ~Completed(s)
    <3>1. CASE holds[s].status = "HELD"
      BY <1>6, <3>1, HeldUnpaid
    <3>2. CASE holds[s].status = "NONE" /\ CaredSlots(row) > 0
      <4>1. row.actual >= TicksPerSlot
        BY <3>2, FullSlot, CareAssumption DEF CaredSlots, Row
      <4> QED
        BY <1>3, <1>6, <1>7, <4>1 DEF SessionFits, Settled, has_settled
    <3> QED
      BY <2>3, <3>1, <3>2
  <2>6. Continue(w, "complete") /\ "complete" \in Steps
    BY <1>11, <1>12 DEF CommitPosting, Steps
  <2>7. Others(w) /\ pc'[w] = "complete" /\ req'[w] = r
    BY <1>6, <1>11, <2>6, ContinueType
  <2>8. WorkerFits(w)'
    BY <2>1, <2>4, <2>7 DEF WorkerFits, CommitFits, LaterFits, PostFits, Settled
  <2>9. holds'[s].status # "HELD" /\ todo[w] = {}
    BY <1>10, <1>11, <1>12, <2>4 DEF Settled, Ended
  <2> QED
    BY <2>4, <2>5, <2>7, <2>8, <2>9
<1>13. ASSUME r.op # "checkout"
       PROVE  /\ SessionFits(s)' /\ Others(w) /\ WorkerFits(w)'
              /\ holds'[s].status = "HELD" =>
                     row.status = "CONFIRMED" /\ row.checkout_at = None
              /\ \A t \in todo[w] : InHand(w, t)'
  <2>1. Others(w) /\ WorkerFits(w)' /\ \A t \in todo[w] : InHand(w, t)'
    <3>1. ResolveNext(w)
      BY <1>11, <1>13 DEF CommitPosting
    <3>2. r.op \in {"cancel", "no_show", "suspend"} \/ todo[w] = {}
      BY <1>10, <1>11 DEF Ended
    <3>3. \A t \in todo[w] : Ended(r, t)'
      BY <1>4, <1>10, <1>11 DEF Ended
    <3> QED
      BY <1>6, <1>11, <3>1, <3>2, <3>3, ResolveFits
  <2>2. CASE Accepting(r) /\ s = r.session /\ p = create_hold(BookedSlots(row))
    <3>1. /\ row.status = "CONFIRMED" /\ row.checkin_at = None /\ row.checkout_at = None
      BY <1>3, <2>2 DEF Accepting
    <3>2. SessionFits(s)'
      BY <1>6, <1>9, <2>2, <3>1, HoldPosted
    <3> QED
      BY <2>1, <3>1, <3>2
  <2>3. CASE Ended(r, s) /\ holds[s].status = "HELD" /\ p = Resolution(w, s)
    <3>1. SessionFits(s)' /\ hold.status # "HELD"
      BY <1>4, <1>6, <1>9, <1>11, <2>3, ResolutionPosted
    <3> QED
      BY <1>8, <2>1, <3>1
  <2> QED
    BY <1>3, <1>4, <1>11, <1>13, <2>2, <2>3 DEF Decided
<1>14. ASSUME NEW t \in SessionIds, t # s
       PROVE  /\ sessions'[t] = sessions[t] /\ holds'[t] = holds[t] /\ ledger'[t] = ledger[t]
  BY <1>4, <1>5, <1>14
<1>15. ASSUME NEW t \in SessionIds PROVE SessionFits(t)'
  <2>1. CASE t # s
    BY <1>4, <1>14, <2>1, SameFits DEF CareSerialInv, Completed
  <2> QED
    BY <1>12, <1>13, <2>1
<1>16. NoDoubleBooking'
  BY <1>4, BookingsStay DEF CareSerialInv
<1>17. ASSUME NEW t \in SessionIds, ~Failures PROVE OpenOrInHand(t)'
  <2>1. CASE t = s
    BY <1>3, <1>4, <1>12, <1>13, <2>1 DEF OpenOrInHand
  <2>2. CASE t # s /\ holds[t].status = "HELD"
    <3>1. CASE sessions[t].status = "CONFIRMED" /\ sessions[t].checkout_at = None
      BY <1>14, <2>2, <3>1, StillOpen
    <3>2. CASE \E v \in Workers : InHand(v, t)
      <4>1. t \in todo[w]
        BY <1>1, <1>4, <1>6, <2>2, <3>2, IdleFits DEF Alone, InHand
      <4> QED
        BY <1>12, <1>13, <4>1 DEF OpenOrInHand
    <3> QED
      BY <1>17, <2>2, <3>1, <3>2 DEF CareSerialInv, OpenOrInHand
  <2>3. CASE t # s /\ holds[t].status # "HELD"
    BY <1>14, <2>3 DEF OpenOrInHand
  <2> QED
    BY <2>1, <2>2, <2>3
<1> QED
  BY <1>6, <1>12, <1>13, <1>15, <1>16, <1>17, OneMoves

-----------------------------------------------------------------------------
(* The theorems.                                                           *)

(* A step that changes nothing but the clock.                              *)
LEMMA TickFits ==
    ASSUME CareInv, CareSerialInv, UNCHANGED <<dbVars, workerVars>>
    PROVE  CareSerialInv'
<1>1. UNCHANGED <<balance, held_balance, holds, ledger, sessions, related, events,
                  suspended, pc, req, todo, work>>
  BY DEF dbVars, ledgerVars, workerVars
<1>2. OneAtATime'
  BY <1>1 DEF CareSerialInv, OneAtATime
<1>3. ASSUME NEW w \in Workers PROVE WorkerFits(w)'
  <2>1. WorkerFits(w)
    BY DEF CareSerialInv, WorkerFits
  <2>2. CommitFits(w)'
    BY <1>1, <2>1 DEF WorkerFits, CommitFits, FirstFits, MayCreate, MayChange, MaySuspend,
                      has_overlap, IsParty, Active, Overlaps, Pair, _scheduled_start,
                      ScheduledEnd
  <2>3. LaterFits(w)'
    BY <1>1, <2>1 DEF WorkerFits, LaterFits, Accepting, Untouched, CheckingOut, Settled,
                      has_settled, Ended, Active
  <2>4. PostFits(w)'
    BY <1>1, <2>1 DEF WorkerFits, PostFits, Decided, Accepting, Untouched, CheckingOut,
                      Ended, Resolution, Active
  <2> QED
    BY <2>2, <2>3, <2>4 DEF WorkerFits
<1>4. ASSUME NEW s \in SessionIds, ~Failures PROVE OpenOrInHand(s)'
  BY <1>1, <1>4 DEF CareSerialInv, OpenOrInHand, InHand
<1> QED
  BY <1>1, <1>2, <1>3, <1>4, DbFits DEF CareSerialInv, WorkerFits

(* Each further step of the request in flight keeps the invariant.         *)
LEMMA ProceedFits ==
    ASSUME CareInv, CareSerialInv, NEW w \in Workers, Proceed(w)
    PROVE  CareSerialInv'
BY CreateCommitFits, AcceptNewFits, AcceptFits, RejectFits, CheckinFits, CheckoutFits,
   CancelFits, NoShowFits, SuspendCommitFits, EvaluationFits, HoldReadFits,
   ResolveReadFits, SettleReadFits, PostingFits, CompleteFits, RefusedFits DEF Proceed

(* An empty database fits.                                                 *)
LEMMA InitFits == Init => CareSerialInv
<1> SUFFICES ASSUME Init PROVE CareSerialInv
  OBVIOUS
<1>1. ASSUME NEW w \in Workers PROVE pc[w] = "idle"
  BY DEF Init
<1>2. ASSUME NEW s \in SessionIds
      PROVE  /\ sessions[s] = NoRow /\ holds[s] = NoHold /\ ledger[s] = <<>> /\ ~Completed(s)
             /\ sessions[s].status = "NONE" /\ sessions[s].at_fault = None
             /\ holds[s].status = "NONE" /\ ~Active(sessions[s])
  BY DEF Init, LedgerInit, NoRow, NoHold, Completed, Active
<1>3. ASSUME NEW s \in SessionIds PROVE SessionFits(s)
  BY <1>2 DEF SessionFits, FaultFits, HoldFits, SuspensionFits
<1>4. NoDoubleBooking
  BY <1>2 DEF NoDoubleBooking
<1> QED
  BY <1>1, <1>2, <1>3, <1>4 DEF CareSerialInv, OneAtATime, CommitFits, LaterFits, PostFits,
                                OpenOrInHand

(* Every step keeps the invariant.                                         *)
LEMMA NextFits == Serial /\ CareInv /\ CareSerialInv /\ [Next]_vars => CareSerialInv'
<1> SUFFICES ASSUME Serial, CareInv, CareSerialInv, [Next]_vars PROVE CareSerialInv'
  OBVIOUS
<1>1. CASE Tick \/ UNCHANGED vars
  BY <1>1, TickFits DEF Tick, vars
<1>2. CASE \E w \in Workers : Call(w) \/ Proceed(w) \/ Fail(w)
  BY <1>2, CallFits, ProceedFits, FailFits
<1> QED
  BY <1>1, <1>2 DEF Next

(* When requests come one at a time, wherever one of them stops, what it   *)
(* has read stays so until it commits, and the row, hold, entries and      *)
(* events of every session fit.                                            *)
THEOREM CareSerialInvariantHolds == ASSUME Serial PROVE Spec => [](CareInv /\ CareSerialInv)
BY InitInv, NextInv, InitFits, NextFits, PTL DEF Spec

(* One request at a time, nobody has two open sessions in the same slots.  *)
THEOREM NobodyBookedTwice == ASSUME Serial PROVE Spec => []NoDoubleBooking
<1>1. CareSerialInv => NoDoubleBooking
  BY DEF CareSerialInv
<1> QED
  BY <1>1, CareSerialInvariantHolds, PTL

(* One request at a time, every ledger transaction is the one the record   *)
(* of the session justifies, down to the amount.                           *)
THEOREM EntriesJustified == ASSUME Serial PROVE Spec => []LedgerJustified
<1>1. CareSerialInv => LedgerJustified
  BY DEF CareSerialInv, SessionFits, LedgerJustified
<1> QED
  BY <1>1, CareSerialInvariantHolds, PTL

(* One request at a time, nobody is at fault in a session with care.       *)
THEOREM FaultMeansNoCare == ASSUME Serial PROVE Spec => []FaultOnlyWithoutCare
<1>1. CareSerialInv => FaultOnlyWithoutCare
  BY DEF CareSerialInv, SessionFits, FaultFits, FaultOnlyWithoutCare
<1> QED
  BY <1>1, CareSerialInvariantHolds, PTL

(* One request at a time, no party of a confirmed session is suspended.    *)
THEOREM NobodySuspendedConfirmed == ASSUME Serial PROVE Spec => []SuspendedNotConfirmed
<1>1. CareSerialInv => SuspendedNotConfirmed
  BY DEF CareSerialInv, SessionFits, SuspensionFits, Active, Pair, SuspendedNotConfirmed
<1> QED
  BY <1>1, CareSerialInvariantHolds, PTL

(* One request at a time, a check-out that completes has paid.             *)
THEOREM CompletedIsPaid == ASSUME Serial PROVE Spec => []CompletedMeansPaid
<1>1. CareSerialInv => CompletedMeansPaid
  BY DEF CareSerialInv, SessionFits, Settled, Completed, CompletedMeansPaid
<1> QED
  BY <1>1, CareSerialInvariantHolds, PTL

(* One request at a time, none of which stops half-way: between requests   *)
(* points are held for open sessions only.                                 *)
THEOREM HeldMeansOpen == ASSUME Serial, ~Failures PROVE Spec => []HeldOnlyWhileOpen
<1>1. CareSerialInv => HeldOnlyWhileOpen
  BY HeldOpen DEF Quiet, HeldOnlyWhileOpen
<1> QED
  BY <1>1, CareSerialInvariantHolds, PTL

-----------------------------------------------------------------------------
(* A session only moves forward.                                           *)

Moves(s) ==
    sessions'[s].status # sessions[s].status
        => <<sessions[s].status, sessions'[s].status>> \in Forward

(* Only the commits of create, of the answers, and of what ends a session  *)
(* write a status.                                                         *)
LEMMA StatusWriters ==
    ASSUME CareInv, [Next]_vars, NEW s \in SessionIds, sessions'[s].status # sessions[s].status
    PROVE  \E w \in Workers :
               \/ CommitCreate(w) \/ CommitAcceptNew(w) \/ CommitAccept(w) \/ CommitReject(w)
               \/ CommitCancel(w) \/ CommitNoShow(w) \/ CommitSuspend(w)
<1>1. \A w, r, t : Start(w, r, t) => sessions' = sessions
  BY DEF Start, dbVars
<1>2. ASSUME NEW w \in Workers, Call(w) PROVE sessions' = sessions
  <2>1. ASSUME NEW u \in Users, NEW v \in Users, NEW start \in 0..NumSlots,
               NEW end \in 0..NumSlots, create_request(w, u, v, start, end)
        PROVE  sessions' = sessions
    BY <1>1, <2>1 DEF create_request
  <2>2. ASSUME NEW u \in Users, NEW t \in SessionIds,
               \/ accept(w, u, t) \/ reject(w, u, t) \/ checkin(w, u, t)
               \/ checkout(w, u, t) \/ cancel(w, u, t) \/ report_no_show(w, u, t)
               \/ submit_evaluation(w, u, t)
        PROVE  sessions' = sessions
    BY <1>1, <2>2 DEF accept, reject, checkin, checkout, cancel, report_no_show,
                      submit_evaluation
  <2>3. ASSUME NEW u \in Users, emergency_suspend(w, u) PROVE sessions' = sessions
    BY <1>1, <2>3 DEF emergency_suspend
  <2> QED
    BY <1>2, <2>1, <2>2, <2>3 DEF Call
<1>3. ASSUME NEW w \in Workers, Fail(w) \/ Refused(w) \/ ReadHold(w) \/ ReadResolve(w)
                               \/ ReadSettle(w)
      PROVE  sessions' = sessions
  BY <1>3 DEF Fail, Refused, ReadHold, ReadResolve, ReadSettle, dbVars
<1>4. ASSUME NEW w \in Workers, CommitEvaluation(w) \/ CommitPosting(w) \/ CommitComplete(w)
      PROVE  sessions' = sessions
  BY <1>4 DEF CommitEvaluation, CommitPosting, CommitComplete
<1>5. CASE Tick \/ UNCHANGED vars
  BY <1>5 DEF Tick, vars, dbVars
<1>6. ASSUME NEW w \in Workers, CommitCheckin(w) \/ CommitCheckout(w)
      PROVE  sessions'[s].status = sessions[s].status
  <2>1. PICK old \in Row : old = sessions[s]
    BY DEF CareInv, TypeOK
  <2>2. CASE CommitCheckin(w)
    <3>1. \/ sessions'[s] = old
          \/ sessions'[s] = [old EXCEPT !.checkin_at = req[w].at]
      BY <2>1, <2>2 DEF CommitCheckin, CareInv, TypeOK
    <3> QED
      BY <2>1, <3>1 DEF Row
  <2>3. CASE CommitCheckout(w)
    <3>1. \/ sessions'[s] = old
          \/ \E at, spent : sessions'[s] = CheckedOut(old, at, spent)
      BY <2>1, <2>3 DEF CommitCheckout, CareInv, TypeOK
    <3> QED
      BY <2>1, <3>1 DEF Row, CheckedOut
  <2> QED
    BY <1>6, <2>2, <2>3
<1> QED
  BY <1>2, <1>3, <1>4, <1>5, <1>6 DEF Next, Proceed

(* Each of them finds the status its handler has read.                     *)
LEMMA StatusMoves ==
    ASSUME CareInv, CareSerialInv, [Next]_vars, NEW s \in SessionIds
    PROVE  Moves(s)
<1> SUFFICES ASSUME sessions'[s].status # sessions[s].status
             PROVE  <<sessions[s].status, sessions'[s].status>> \in Forward
  BY DEF Moves
<1>1. PICK w \in Workers :
          \/ CommitCreate(w) \/ CommitAcceptNew(w) \/ CommitAccept(w) \/ CommitReject(w)
          \/ CommitCancel(w) \/ CommitNoShow(w) \/ CommitSuspend(w)
  BY StatusWriters
<1>2. PICK old \in Row : old = sessions[s]
  BY DEF CareInv, TypeOK
<1>3. CASE CommitCreate(w)
  <2>1. old.status = "NONE" /\ sessions'[s] = req[w].row /\ req[w].row.status = "REQUESTED"
    BY <1>2, <1>3 DEF CommitCreate, Doing, IsNext, Exists, CareInv, TypeOK, RequestInv, Reliable
  <2> QED
    BY <1>2, <2>1 DEF Forward
<1>4. ASSUME NEW status \in {"CONFIRMED", "REJECTED"}, pc[w] = "commit",
             req[w].op \in {"accept", "accept_new", "reject"},
             sessions' = [sessions EXCEPT ![req[w].session].status = status]
      PROVE  <<sessions[s].status, sessions'[s].status>> \in Forward
  <2>1. s = req[w].session /\ sessions'[s] = [old EXCEPT !.status = status]
    BY <1>2, <1>4 DEF CareInv, TypeOK
  <2>2. old.status = "REQUESTED"
    BY <1>2, <1>4, <2>1, AtCommit DEF SessionOps, MayChange
  <2>3. sessions'[s].status = status
    BY <2>1 DEF Row
  <2> QED
    BY <1>2, <1>4, <2>2, <2>3 DEF Forward
<1>5. CASE CommitAcceptNew(w) \/ CommitAccept(w) \/ CommitReject(w)
  BY <1>4, <1>5 DEF CommitAcceptNew, CommitAccept, CommitReject, Doing
<1>6. CASE CommitCancel(w)
  <2>1. /\ pc[w] = "commit" /\ req[w].op = "cancel" /\ s = req[w].session
        /\ \E at, fault : sessions'[s] = Closed(old, "CANCELLED", at, fault)
    BY <1>2, <1>6 DEF CommitCancel, Doing, CareInv, TypeOK
  <2>2. Active(old)
    BY <1>2, <2>1, AtCommit DEF SessionOps, MayChange
  <2> QED
    BY <1>2, <2>1, <2>2 DEF Forward, Active, Closed
<1>7. CASE CommitNoShow(w)
  <2>1. /\ pc[w] = "commit" /\ req[w].op = "no_show" /\ s = req[w].session
        /\ \E at, fault : sessions'[s] = Closed(old, "NO_SHOW", at, fault)
    BY <1>2, <1>7 DEF CommitNoShow, Doing, CareInv, TypeOK
  <2>2. old.status = "CONFIRMED"
    BY <1>2, <2>1, AtCommit DEF SessionOps, MayChange
  <2> QED
    BY <1>2, <2>1, <2>2 DEF Forward, Closed
<1>8. CASE CommitSuspend(w)
  <2>1. /\ pc[w] = "commit" /\ req[w].op = "suspend" /\ s \in req[w].stopped
        /\ \E at, fault : sessions'[s] = Closed(old, "CANCELLED", at, fault)
    BY <1>2, <1>8 DEF CommitSuspend, Doing
  <2>2. Active(old)
    BY <1>2, <2>1 DEF CareSerialInv, CommitFits, FirstFits, MaySuspend
  <2> QED
    BY <1>2, <2>1, <2>2 DEF Forward, Active, Closed
<1> QED
  BY <1>1, <1>3, <1>5, <1>6, <1>7, <1>8

(* One request at a time, a session is answered once and ended once, and a *)
(* session that has ended never comes back.                                *)
THEOREM SessionsMoveForward == ASSUME Serial PROVE Spec => StatusForward
<1>1. CareInv /\ CareSerialInv /\ [Next]_vars => [\A s \in SessionIds : Moves(s)]_vars
  BY StatusMoves
<1>2. [\A s \in SessionIds : Moves(s)]_vars
      <=> [\A s \in SessionIds :
              sessions'[s].status # sessions[s].status
                  => <<sessions[s].status, sessions'[s].status>> \in Forward]_vars
  BY DEF Moves
<1> QED
  BY <1>1, <1>2, CareSerialInvariantHolds, PTL DEF Spec, StatusForward
=============================================================================
