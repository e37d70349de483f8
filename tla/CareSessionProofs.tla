------------------------- MODULE CareSessionProofs -------------------------
(***************************************************************************)
(* Theorems about CareSession, for any number of users, sessions, slots    *)
(* and requests in flight together.                                        *)
(*                                                                         *)
(* The argument: a commit never takes back what another request in flight  *)
(* relies on (Kept), so that only the worker that moves has to be looked   *)
(* at, together with the session its commit writes.                        *)
(***************************************************************************)
EXTENDS CareInvariant, TLAPS

-----------------------------------------------------------------------------
(* Types of the building blocks.                                           *)

(* The local state a worker starts from and returns to is well typed.      *)
LEMMA IdleType == NoRow \in Row /\ NoRequest \in Request /\ NoWork \in Work
<1>1. NoRow \in Row
  BY DEF NoRow, Row
<1>2. NoRequest \in Request
  BY <1>1, CareAssumption DEF NoRequest, Request, AllOperations, Time
<1>3. NoPosting \in Posting
  BY DEF NoPosting, Posting
<1>4. Zero \in [Users -> Int]
  BY DEF Zero
<1>5. NoWork \in Work
  BY <1>3, <1>4 DEF NoWork, Work
<1> QED
  BY <1>1, <1>2, <1>5

(* Every posting a service method decides on is well typed.                *)
LEMMA PostingType ==
    ASSUME NEW hold \in PointHold, NEW slots \in Nat, NEW late \in BOOLEAN,
           NEW fault \in BOOLEAN
    PROVE  /\ create_hold(slots) \in Posting
           /\ _transfer(slots) \in Posting
           /\ settle_hold(hold, slots) \in Posting
           /\ resolve_hold_on_cancel(hold, late, fault) \in Posting
           /\ resolve_hold_on_no_show(hold, fault) \in Posting
<1> USE DEF Posting, PointHold, PointHoldStatus, Reasons
<1>1. create_hold(slots) \in Posting
  BY DEF create_hold
<1>2. _transfer(slots) \in Posting
  BY DEF _transfer
<1>3. settle_hold(hold, slots) \in Posting
  BY DEF settle_hold
<1>4. ASSUME NEW why \in Reasons PROVE _forfeit_hold(hold, why) \in Posting
  BY DEF _forfeit_hold
<1>5. _release_hold(hold) \in Posting
  BY DEF _release_hold
<1>6. resolve_hold_on_cancel(hold, late, fault) \in Posting
  BY <1>4, <1>5 DEF resolve_hold_on_cancel
<1>7. resolve_hold_on_no_show(hold, fault) \in Posting
  BY <1>4, <1>5 DEF resolve_hold_on_no_show
<1> QED
  BY <1>1, <1>2, <1>3, <1>6, <1>7

(* What the postings do to a hold and what they record.                    *)
LEMMA PostingShape ==
    ASSUME NEW hold \in PointHold, NEW slots \in Nat, NEW late \in BOOLEAN,
           NEW fault \in BOOLEAN
    PROVE  /\ create_hold(slots).hold = "HELD" /\ create_hold(slots).reason = "NONE"
           /\ _transfer(slots).hold = "KEEP" /\ _transfer(slots).reason = "SETTLEMENT"
           /\ settle_hold(hold, slots).hold = "SETTLED"
           /\ settle_hold(hold, slots).reason \in {"NONE", "SETTLEMENT"}
           /\ resolve_hold_on_cancel(hold, late, fault).hold \in {"RELEASED", "FORFEITED"}
           /\ resolve_hold_on_cancel(hold, late, fault).reason
                  \in (IF fault THEN {"NONE", "CANCEL_PENALTY"} ELSE {"NONE"})
           /\ resolve_hold_on_no_show(hold, fault).hold \in {"RELEASED", "FORFEITED"}
           /\ resolve_hold_on_no_show(hold, fault).reason
                  \in (IF fault THEN {"NONE", "NO_SHOW_PENALTY"} ELSE {"NONE"})
BY DEF create_hold, _transfer, settle_hold, resolve_hold_on_cancel,
       resolve_hold_on_no_show, _forfeit_hold, _release_hold

(* A row ended by a cancellation or a no-show is a row, and differs only   *)
(* in the columns written.                                                 *)
LEMMA ClosedType ==
    ASSUME NEW row \in Row, NEW status \in {"CANCELLED", "NO_SHOW"}, NEW at \in Time,
           NEW fault \in Users \cup {None}
    PROVE  Closed(row, status, at, fault) \in Row
BY DEF Closed, Row, CareSessionStatus

(* A recorded time is not NULL.                                            *)
LEMMA NoneApart == \A t \in Time : t # None
BY CareAssumption DEF Time

(* What a handler knows after its first read is well typed.                *)
LEMMA AskType ==
    ASSUME TypeOK, NEW op \in AllOperations \cup {"accept_new"}, NEW u \in Users,
           NEW s \in SessionIds, NEW late \in BOOLEAN
    PROVE  Ask(op, u, s, late) \in Request
BY DEF Ask, Request, TypeOK

-----------------------------------------------------------------------------
(* What no commit takes back.                                              *)

(* The row of a session that exists keeps its parties and slots, and the   *)
(* times and the fault recorded in it.                                     *)
Later(old, new) ==
    /\ new.status # "NONE"
    /\ new.requester = old.requester
    /\ new.provider = old.provider
    /\ new.start_slot = old.start_slot
    /\ new.end_slot = old.end_slot
    /\ old.checkin_at # None => new.checkin_at # None
    /\ old.checkout_at # None => new.checkout_at # None
    /\ old.cancelled_at # None => new.cancelled_at # None
    /\ old.at_fault # None => new.at_fault # None

Kept ==
    /\ related \subseteq related'
    /\ events \subseteq events'
    /\ now <= now'
    /\ \A s \in SessionIds :
          /\ Exists(s) => Later(sessions[s], sessions'[s])
          /\ holds[s].status # "NONE" => holds'[s].status # "NONE"

WorkerInv(w) == RequestInv(w) /\ StepInv(w) /\ WorkInv(w)

Others(w) ==
    \A v \in Workers \ {w} : /\ pc'[v] = pc[v] /\ req'[v] = req[v]
                             /\ todo'[v] = todo[v] /\ work'[v] = work[v]

(* What a request has read stays reliable when nothing is taken back.      *)
LEMMA KeptReliable ==
    ASSUME TypeOK, Kept, NEW r \in Request, Reliable(r), now' \in Time
    PROVE  Reliable(r)'
<1>1. r.at \in Time /\ r.stopped \subseteq SessionIds
  BY DEF Request
<1>2. r.at <= now'
  BY <1>1, CareAssumption DEF TypeOK, Kept, Reliable, Time
<1>3. ASSUME NEW s \in SessionIds, Exists(s)
      PROVE  /\ Exists(s)' /\ Pair(sessions[s])' = Pair(sessions[s])
             /\ sessions[s].checkin_at # None => sessions'[s].checkin_at # None
  BY <1>3 DEF Kept, Later, Exists, Pair
<1>4. r.op \in SessionOps =>
          Exists(r.session)' /\ Pair(sessions[r.session])' = Pair(sessions[r.session])
  BY <1>3 DEF Reliable
<1>5. r.op = "checkout" => sessions'[r.session].checkin_at # None
  BY <1>3 DEF Reliable, SessionOps
<1>6. r.op = "suspend" => \A t \in r.stopped : Exists(t)'
  BY <1>1, <1>3 DEF Reliable
<1>7. r.op \in {"accept", "checkin"} => r.op \in SessionOps
  BY DEF SessionOps
<1> QED
  BY <1>2, <1>4, <1>5, <1>6, <1>7 DEF Reliable, Kept, HasParties, Pair

(* A worker that does not move keeps its invariant when nothing is taken   *)
(* back.                                                                   *)
LEMMA KeptWorker ==
    ASSUME TypeOK, Kept, NEW v \in Workers, WorkerInv(v), now' \in Time,
           pc'[v] = pc[v], req'[v] = req[v], todo'[v] = todo[v], work'[v] = work[v]
    PROVE  WorkerInv(v)'
<1>1. ASSUME NEW s \in SessionIds, Exists(s)
      PROVE  /\ Exists(s)'
             /\ Pair(sessions[s])' = Pair(sessions[s])
             /\ sessions[s].checkout_at # None => sessions'[s].checkout_at # None
             /\ sessions[s].cancelled_at # None => sessions'[s].cancelled_at # None
             /\ Accepted(s) => Accepted(s)'
             /\ \A why : HasCause(s, why) => HasCause(s, why)'
  BY <1>1 DEF Kept, Later, Exists, Pair, Accepted, HasCause
<1>2. req[v] \in Request /\ todo[v] \subseteq SessionIds
  BY DEF TypeOK
<1>3. RequestInv(v)'
  <2>1. Reliable(req[v])'
    BY <1>2, KeptReliable DEF WorkerInv, RequestInv
  <2>2. req[v].op = "accept_new" /\ pc[v] # "commit"
            => Pair(sessions[req[v].session])' \in related'
    BY <1>1 DEF WorkerInv, RequestInv, Reliable, SessionOps, Kept
  <2> QED
    BY <2>1, <2>2 DEF RequestInv, Reliable, Exists, HasParties, Pair
<1>4. StepInv(v)'
  BY <1>1, <1>2 DEF WorkerInv, RequestInv, Reliable, StepInv, SessionOps
<1>5. WorkInv(v)'
  BY <1>1 DEF WorkerInv, WorkInv, Kept
<1> QED
  BY <1>3, <1>4, <1>5 DEF WorkerInv

(* A session that is not written keeps its invariant.                      *)
LEMMA KeptSession ==
    ASSUME TypeOK, Kept, NEW s \in SessionIds, SessionInv(s), now' \in Time,
           sessions'[s] = sessions[s], holds'[s] = holds[s], ledger'[s] = ledger[s]
    PROVE  SessionInv(s)'
<1>1. sessions[s].checkin_at # None => sessions[s].checkin_at \in Time
  BY DEF TypeOK, Row
<1>2. sessions[s].checkin_at # None => sessions[s].checkin_at <= now'
  BY <1>1, CareAssumption DEF TypeOK, Kept, SessionInv, Time
<1>3. \A why : HasCause(s, why) => HasCause(s, why)'
  BY DEF HasCause, Kept
<1> QED
  BY <1>2, <1>3 DEF SessionInv, Kept, Exists, HasParties, Pair, Accepted

(* A session whose row is written keeps its invariant if a confirmation or *)
(* a check-in finds its parties related and a check-out finds a check-in.  *)
LEMMA WrittenSession ==
    ASSUME TypeOK, Kept, NEW s \in SessionIds, SessionInv(s), now' \in Time, Exists(s),
           Later(sessions[s], sessions'[s]), sessions'[s] \in Row,
           holds'[s] = holds[s], ledger'[s] = ledger[s],
           sessions'[s].checkin_at # None => sessions'[s].checkin_at <= now',
           sessions'[s].checkout_at # None => sessions'[s].checkin_at # None,
           sessions'[s].status = "CONFIRMED" \/ sessions'[s].checkin_at # None
               => Pair(sessions[s]) \in related'
    PROVE  SessionInv(s)'
<1>1. \A why : HasCause(s, why) => HasCause(s, why)'
  BY DEF HasCause, Kept, Later
<1>2. Pair(sessions[s])' = Pair(sessions[s]) /\ Exists(s)'
  BY DEF Pair, Later, Exists
<1>3. HasParties(sessions[s])'
  BY DEF HasParties, Later, SessionInv
<1> QED
  BY <1>1, <1>2, <1>3 DEF SessionInv, Kept, Accepted

(* A request that ends leaves its worker as it was at the beginning.       *)
LEMMA FinishInv ==
    ASSUME TypeOK, NEW w \in Workers, Finish(w), now' \in Time
    PROVE  /\ pc' \in [Workers -> Steps]
           /\ req' \in [Workers -> Request]
           /\ todo' \in [Workers -> SUBSET SessionIds]
           /\ work' \in [Workers -> Work]
           /\ Others(w)
           /\ WorkerInv(w)'
<1>1. /\ pc' = [pc EXCEPT ![w] = "idle"]
      /\ req' = [req EXCEPT ![w] = NoRequest]
      /\ todo' = [todo EXCEPT ![w] = {}]
      /\ work' = [work EXCEPT ![w] = NoWork]
  BY DEF Finish
<1>2. pc'[w] = "idle" /\ req'[w] = NoRequest /\ todo'[w] = {}
  BY <1>1 DEF TypeOK
<1>3. WorkerInv(w)'
  BY <1>2 DEF WorkerInv, RequestInv, Reliable, StepInv, WorkInv, NoRequest,
              SessionOps, Time
<1> QED
  BY <1>1, <1>3, IdleType DEF TypeOK, Others, Steps

(* Continue leaves every worker's local state well typed.                  *)
LEMMA ContinueType ==
    ASSUME TypeOK, NEW w \in Workers, NEW step \in Steps, Continue(w, step)
    PROVE  /\ pc' \in [Workers -> Steps]
           /\ req' \in [Workers -> Request]
           /\ todo' \in [Workers -> SUBSET SessionIds]
           /\ work' \in [Workers -> Work]
           /\ Others(w)
           /\ pc'[w] = step /\ req'[w] = req[w]
           /\ todo'[w] = todo[w] /\ work'[w] = work[w]
BY DEF Continue, TypeOK, Others

(* The step of a request that only reads what it relies on.                *)
LEMMA StartInv ==
    ASSUME CareInv, NEW w \in Workers, NEW r \in Request, NEW t \in SUBSET SessionIds,
           Start(w, r, t), Reliable(r), t \subseteq (IF r.op = "suspend" THEN r.stopped ELSE {r.session})
    PROVE  CareInv'
<1>1. TypeOK
  BY DEF CareInv
<1>2. UNCHANGED <<balance, held_balance, holds, ledger, sessions, related, evaluations,
                  events, notifications, suspended, now, work>>
  BY DEF Start, dbVars, ledgerVars
<1>3. /\ pc' = [pc EXCEPT ![w] = "commit"]
      /\ req' = [req EXCEPT ![w] = r]
      /\ todo' = [todo EXCEPT ![w] = t]
  BY DEF Start
<1>4. Kept /\ now' \in Time
  BY <1>1, <1>2, CareAssumption DEF Kept, Later, Exists, TypeOK, Time
<1>5. TypeOK'
  BY <1>1, <1>2, <1>3 DEF TypeOK, LedgerTypeOK, Steps
<1>6. ASSUME NEW s \in SessionIds PROVE SessionInv(s)'
  BY <1>1, <1>2, <1>4, KeptSession DEF CareInv
<1>7. Reliable(r)'
  BY <1>2 DEF Reliable, Exists
<1>8. WorkerInv(w)'
  <2>1. pc'[w] = "commit" /\ req'[w] = r /\ todo'[w] = t
    BY <1>1, <1>3 DEF TypeOK
  <2> QED
    BY <2>1, <1>7 DEF WorkerInv, RequestInv, StepInv, WorkInv, Reliable, Exists
<1>9. ASSUME NEW v \in Workers, v # w PROVE WorkerInv(v)'
  <2>1. WorkerInv(v)
    BY DEF CareInv, WorkerInv
  <2>2. pc'[v] = pc[v] /\ req'[v] = req[v] /\ todo'[v] = todo[v] /\ work'[v] = work[v]
    BY <1>1, <1>2, <1>3, <1>9 DEF TypeOK
  <2> QED
    BY <1>1, <1>4, <2>1, <2>2, KeptWorker
<1> QED
  BY <1>5, <1>6, <1>8, <1>9 DEF CareInv, WorkerInv

-----------------------------------------------------------------------------
(* The first read of each handler.                                         *)

(* What a handler that looked up session s by its party u may rely on.     *)
LEMMA AskReliable ==
    ASSUME CareInv, NEW op \in SessionOps, NEW u \in Users, NEW s \in SessionIds,
           NEW late \in BOOLEAN, Exists(s),
           op \in {"accept", "checkin"} => Pair(sessions[s]) \in related,
           op = "checkout" => sessions[s].checkin_at # None
    PROVE  /\ Ask(op, u, s, late) \in Request
           /\ Reliable(Ask(op, u, s, late))
           /\ Ask(op, u, s, late).session = s
<1>1. TypeOK /\ SessionInv(s)
  BY DEF CareInv
<1>2. Ask(op, u, s, late) \in Request
  BY <1>1, AskType DEF SessionOps, AllOperations
<1>3. sessions[s].checkin_at # None => sessions[s].checkin_at \in Time
  BY <1>1 DEF TypeOK, Row
<1>4. now <= now
  BY <1>1, CareAssumption DEF TypeOK, Time
<1>5. Reliable(Ask(op, u, s, late))
  BY <1>1, <1>3, <1>4 DEF Reliable, Ask, SessionInv, SessionOps
<1> QED
  BY <1>2, <1>5 DEF Ask

(* What a request about an existing session has read is reliable.          *)
LEMMA AskInv ==
    ASSUME CareInv, NEW w \in Workers, NEW op \in SessionOps, NEW u \in Users,
           NEW s \in SessionIds, NEW late \in BOOLEAN, NEW t \in SUBSET {s}, Exists(s),
           op \in {"accept", "checkin"} => Pair(sessions[s]) \in related,
           op = "checkout" => sessions[s].checkin_at # None,
           Start(w, Ask(op, u, s, late), t)
    PROVE  CareInv'
<1>1. /\ Ask(op, u, s, late) \in Request
      /\ Reliable(Ask(op, u, s, late))
      /\ Ask(op, u, s, late).session = s
  BY AskReliable
<1>2. t \in SUBSET SessionIds /\ t \subseteq {s} /\ Ask(op, u, s, late).op # "suspend"
  BY DEF Ask, SessionOps
<1> QED
  BY <1>1, <1>2, StartInv

(* A request of one of the other handlers needs no more than Ask gives.    *)
LEMMA AskOnly ==
    ASSUME CareInv, NEW w \in Workers, NEW op \in SessionOps, NEW u \in Users,
           NEW s \in SessionIds, Exists(s),
           op \in {"accept", "checkin"} => Pair(sessions[s]) \in related,
           op = "checkout" => sessions[s].checkin_at # None,
           Start(w, Ask(op, u, s, FALSE), {})
    PROVE  CareInv'
<1>1. {} \in SUBSET {s} /\ FALSE \in BOOLEAN
  OBVIOUS
<1> QED
  BY <1>1, AskInv

(* The first read of create_request keeps the invariant.                   *)
LEMMA CreateRequest ==
    ASSUME CareInv, NEW w \in Workers, NEW u \in Users, NEW v \in Users,
           NEW start \in 0..NumSlots, NEW end \in 0..NumSlots,
           create_request(w, u, v, start, end)
    PROVE  CareInv'
<1> DEFINE r == [op |-> IF has_completed_pairing(u, v) THEN "rematch" ELSE "create",
                 actor |-> u, session |-> 0, row |-> NewRow(u, v, start, end),
                 at |-> now, stopped |-> {}, late |-> FALSE]
<1>1. Start(w, r, {}) /\ start < end
  BY DEF create_request
<1>2. start \in Nat /\ end \in Nat
  BY CareAssumption
<1>3. NewRow(u, v, start, end) \in Row
  BY <1>2 DEF NewRow, Row, CareSessionStatus
<1>4. now \in Time /\ now <= now
  BY CareAssumption DEF CareInv, TypeOK, Time
<1>5. r \in Request
  BY <1>3, <1>4 DEF Request, AllOperations
<1>6. Reliable(r)
  BY <1>1, <1>4 DEF Reliable, HasParties, NewRow, SessionOps
<1> QED
  BY <1>1, <1>5, <1>6, StartInv

(* The first read of accept keeps the invariant.                           *)
LEMMA Accept ==
    ASSUME CareInv, NEW w \in Workers, NEW u \in Users, NEW s \in SessionIds, accept(w, u, s)
    PROVE  CareInv'
<1>1. Exists(s)
  BY DEF accept, _get_requested_session, Exists
<1>2. CASE Pair(sessions[s]) \in related
  <2>1. Start(w, Ask("accept", u, s, FALSE), {})
    BY <1>2 DEF accept
  <2> QED
    BY <1>1, <1>2, <2>1, AskOnly DEF SessionOps
<1>3. CASE Pair(sessions[s]) \notin related
  <2>1. Start(w, Ask("accept_new", u, s, FALSE), {})
    BY <1>3 DEF accept
  <2> QED
    BY <1>1, <2>1, AskOnly DEF SessionOps
<1> QED
  BY <1>2, <1>3

(* The first read of reject keeps the invariant.                           *)
LEMMA Reject ==
    ASSUME CareInv, NEW w \in Workers, NEW u \in Users, NEW s \in SessionIds, reject(w, u, s)
    PROVE  CareInv'
<1>1. Exists(s) /\ Start(w, Ask("reject", u, s, FALSE), {})
  BY DEF reject, _get_requested_session, Exists
<1> QED
  BY <1>1, AskOnly DEF SessionOps

(* The first read of checkin keeps the invariant.                          *)
LEMMA Checkin ==
    ASSUME CareInv, NEW w \in Workers, NEW u \in Users, NEW s \in SessionIds, checkin(w, u, s)
    PROVE  CareInv'
<1>1. Exists(s) /\ Start(w, Ask("checkin", u, s, FALSE), {})
  BY DEF checkin, _get_confirmed_session, Exists
<1>2. Pair(sessions[s]) \in related
  BY DEF checkin, _get_confirmed_session, CareInv, SessionInv
<1> QED
  BY <1>1, <1>2, AskOnly DEF SessionOps

(* The first read of checkout keeps the invariant.                         *)
LEMMA Checkout ==
    ASSUME CareInv, NEW w \in Workers, NEW u \in Users, NEW s \in SessionIds, checkout(w, u, s)
    PROVE  CareInv'
<1>1. /\ Exists(s) /\ sessions[s].checkin_at # None
      /\ Start(w, Ask("checkout", u, s, FALSE), {})
  BY DEF checkout, _get_confirmed_session, Exists
<1> QED
  BY <1>1, AskOnly DEF SessionOps

(* The first read of cancel keeps the invariant.                           *)
LEMMA Cancel ==
    ASSUME CareInv, NEW w \in Workers, NEW u \in Users, NEW s \in SessionIds, cancel(w, u, s)
    PROVE  CareInv'
<1> DEFINE late == past_deadline(sessions[s])
           t == IF sessions[s].status = "CONFIRMED" THEN {s} ELSE {}
<1>1. Exists(s) /\ Start(w, Ask("cancel", u, s, late), t)
  BY DEF cancel, _get_cancellable_session, Active, Exists
<1>2. late \in BOOLEAN
  BY DEF past_deadline
<1>3. t \in SUBSET {s}
  OBVIOUS
<1> HIDE DEF late, t
<1> QED
  BY <1>1, <1>2, <1>3, AskInv DEF SessionOps

(* The first read of report_no_show keeps the invariant.                   *)
LEMMA ReportNoShow ==
    ASSUME CareInv, NEW w \in Workers, NEW u \in Users, NEW s \in SessionIds,
           report_no_show(w, u, s)
    PROVE  CareInv'
<1>1. Exists(s) /\ Start(w, Ask("no_show", u, s, FALSE), {s})
  BY DEF report_no_show, Exists
<1> QED
  BY <1>1, AskInv DEF SessionOps

(* The first read of emergency_suspend keeps the invariant.                *)
LEMMA EmergencySuspend ==
    ASSUME CareInv, NEW w \in Workers, NEW u \in Users, emergency_suspend(w, u)
    PROVE  CareInv'
<1> DEFINE open == {s \in SessionIds : IsParty(u, sessions[s]) /\ Active(sessions[s])}
           t == {s \in open : sessions[s].status = "CONFIRMED"}
           r == [op |-> "suspend", actor |-> u, session |-> 0, row |-> NoRow,
                 at |-> now, stopped |-> open, late |-> FALSE]
<1>1. Start(w, r, t)
  BY DEF emergency_suspend
<1>2. now \in Time /\ now <= now
  BY CareAssumption DEF CareInv, TypeOK, Time
<1>3. open \subseteq SessionIds /\ t \subseteq open /\ \A s \in open : Exists(s)
  BY DEF Active, Exists
<1>4. r \in Request
  BY <1>2, <1>3, IdleType DEF Request, AllOperations
<1>5. Reliable(r)
  BY <1>2, <1>3 DEF Reliable, SessionOps
<1>6. t \in SUBSET SessionIds /\ t \subseteq (IF r.op = "suspend" THEN r.stopped ELSE {r.session})
  BY <1>3
<1> HIDE DEF open, t, r
<1> QED
  BY <1>1, <1>4, <1>5, <1>6, StartInv

(* The first read of submit_evaluation keeps the invariant.                *)
LEMMA SubmitEvaluation ==
    ASSUME CareInv, NEW w \in Workers, NEW u \in Users, NEW s \in SessionIds,
           submit_evaluation(w, u, s)
    PROVE  CareInv'
<1>1. /\ IsParty(u, sessions[s]) /\ sessions[s].checkout_at # None
      /\ Start(w, Ask("evaluate", u, s, FALSE), {})
  BY DEF submit_evaluation
<1>2. Exists(s)
  BY <1>1 DEF CareInv, SessionInv, Exists, NoRow
<1> QED
  BY <1>1, <1>2, AskOnly DEF SessionOps

-----------------------------------------------------------------------------
(* The commits.                                                            *)

(* What log and notify write is well typed.                                *)
LEMMA LogNotifyType ==
    ASSUME TypeOK, NEW s \in SessionIds
    PROVE  /\ \A type \in EventType :
                 log(type, s) => events' \subseteq Event /\ events \subseteq events'
           /\ \A to \in SUBSET Users, type \in NotificationType :
                 notify(to, type, s) => notifications' \subseteq Notification
BY DEF TypeOK, log, notify, Event, Notification

(* A step of worker w: it is enough to look at the types, at what is kept, *)
(* at each session and at w itself.                                        *)
LEMMA Moved ==
    ASSUME CareInv, NEW w \in Workers, TypeOK', Kept, Others(w), WorkerInv(w)',
           \A s \in SessionIds : SessionInv(s)'
    PROVE  CareInv'
<1>1. ASSUME NEW v \in Workers, v # w PROVE WorkerInv(v)'
  <2>1. TypeOK /\ WorkerInv(v)
    BY DEF CareInv, WorkerInv
  <2>2. /\ pc'[v] = pc[v] /\ req'[v] = req[v]
        /\ todo'[v] = todo[v] /\ work'[v] = work[v]
    BY <1>1 DEF Others
  <2>3. now' \in Time
    BY DEF TypeOK
  <2> QED
    BY <2>1, <2>2, <2>3, KeptWorker
<1> QED
  BY <1>1 DEF CareInv, WorkerInv

(* create_request's commit keeps the invariant.                            *)
LEMMA CreateCommit ==
    ASSUME CareInv, NEW w \in Workers, CommitCreate(w)
    PROVE  CareInv'
<1> DEFINE row == req[w].row
<1>1. TypeOK /\ Reliable(req[w]) /\ req[w].op \in {"create", "rematch"}
  BY DEF CareInv, RequestInv, CommitCreate, Doing
<1>2. PICK s \in SessionIds :
          /\ ~Exists(s)
          /\ sessions' = [sessions EXCEPT ![s] = row]
          /\ log(IF req[w].op = "rematch" THEN "REMATCH_REQUESTED" ELSE "REQUEST_CREATED", s)
          /\ notify({row.provider}, "REQUEST_CREATED", s)
  BY DEF CommitCreate, IsNext
<1>3. /\ Finish(w)
      /\ UNCHANGED <<balance, held_balance, holds, ledger, related, evaluations,
                     suspended, now>>
  BY DEF CommitCreate, ledgerVars
<1>4. row \in Row /\ row.provider \in Users /\ HasParties(row) /\ row.status = "REQUESTED"
      /\ row.checkin_at = None /\ row.checkout_at = None
  BY <1>1 DEF Reliable, TypeOK, Request, HasParties
<1>5. events' \subseteq Event /\ events \subseteq events' /\ notifications' \subseteq Notification
  <2>1. {row.provider} \in SUBSET Users /\ "REQUEST_CREATED" \in NotificationType
        /\ (IF req[w].op = "rematch" THEN "REMATCH_REQUESTED" ELSE "REQUEST_CREATED") \in EventType
    BY <1>4 DEF NotificationType, EventType
  <2> QED
    BY <1>1, <1>2, <2>1, LogNotifyType
<1>6. now' \in Time /\ now' = now /\ now <= now'
  BY <1>1, <1>3, CareAssumption DEF TypeOK, Time
<1>7. TypeOK'
  BY <1>1, <1>2, <1>3, <1>4, <1>5, <1>6, FinishInv DEF TypeOK, LedgerTypeOK
<1>8. \A t \in SessionIds : t # s => sessions'[t] = sessions[t]
  BY <1>1, <1>2 DEF TypeOK
<1>9. sessions'[s] = row
  BY <1>1, <1>2 DEF TypeOK
<1>10. Kept
  BY <1>2, <1>3, <1>5, <1>6, <1>8 DEF Kept, Later, Exists
<1>11. SessionInv(s)'
  <2>1. holds[s].status = "NONE" /\ ledger[s] = <<>>
    BY <1>2 DEF CareInv, SessionInv
  <2> QED
    BY <1>3, <1>4, <1>9, <2>1 DEF SessionInv, Exists, HasParties
<1>12. ASSUME NEW t \in SessionIds, t # s PROVE SessionInv(t)'
  BY <1>1, <1>3, <1>6, <1>8, <1>10, <1>12, KeptSession DEF CareInv
<1> QED
  BY <1>1, <1>3, <1>6, <1>7, <1>10, <1>11, <1>12, FinishInv, Moved

(* A commit that writes the row of one session.                            *)
LEMMA SessionCommit ==
    ASSUME CareInv, NEW s \in SessionIds, Exists(s), NEW row \in Row,
           sessions' = [sessions EXCEPT ![s] = row], Later(sessions[s], row),
           row.checkin_at # None => row.checkin_at <= now,
           row.checkout_at # None => row.checkin_at # None,
           row.status = "CONFIRMED" \/ row.checkin_at # None
               => Pair(sessions[s]) \in related',
           related \subseteq related', events \subseteq events',
           UNCHANGED <<holds, ledger, now>>
    PROVE  /\ Kept
           /\ now' \in Time
           /\ sessions' \in [SessionIds -> Row]
           /\ sessions'[s] = row
           /\ \A t \in SessionIds : SessionInv(t)'
<1>1. TypeOK
  BY DEF CareInv
<1>2. now' \in Time /\ now' = now /\ now <= now'
  BY <1>1, CareAssumption DEF TypeOK, Time
<1>3. \A t \in SessionIds : sessions'[t] = IF t = s THEN row ELSE sessions[t]
  BY <1>1 DEF TypeOK
<1>4. sessions' \in [SessionIds -> Row]
  BY <1>1 DEF TypeOK
<1>5. Kept
  BY <1>2, <1>3 DEF Kept, Later, Exists
<1>6. SessionInv(s)'
  BY <1>1, <1>2, <1>3, <1>5, WrittenSession DEF CareInv
<1>7. ASSUME NEW t \in SessionIds, t # s PROVE SessionInv(t)'
  BY <1>1, <1>2, <1>3, <1>5, <1>7, KeptSession DEF CareInv
<1> QED
  BY <1>2, <1>3, <1>4, <1>5, <1>6, <1>7

(* What the commit of a request about one session finds.                   *)
LEMMA OnSession ==
    ASSUME CareInv, NEW w \in Workers, req[w].op \in SessionOps
    PROVE  /\ req[w].session \in SessionIds
           /\ Exists(req[w].session)
           /\ sessions[req[w].session] \in Row
           /\ SessionInv(req[w].session)
           /\ req[w].actor \in Users
           /\ req[w].row \in Row
           /\ HasParties(req[w].row)
           /\ Pair(req[w].row) = Pair(sessions[req[w].session])
           /\ req[w].at \in Time
           /\ req[w].at <= now
BY DEF CareInv, RequestInv, Reliable, TypeOK, Request

(* Writing the status of an open session.                                  *)
LEMMA StatusWritten ==
    ASSUME NEW row \in Row, NEW status \in CareSessionStatus
    PROVE  /\ [row EXCEPT !.status = status] \in Row
           /\ row.status # "NONE" => Later(row, [row EXCEPT !.status = status])
           /\ [row EXCEPT !.status = status].status = status
           /\ [row EXCEPT !.status = status].checkin_at = row.checkin_at
           /\ [row EXCEPT !.status = status].checkout_at = row.checkout_at
BY DEF Row, Later, CareSessionStatus

(* A request that has committed keeps what it has read.                    *)
LEMMA StillReliable ==
    ASSUME CareInv, NEW w \in Workers, Kept, now' \in Time, req'[w] = req[w]
    PROVE  Reliable(req[w])'
<1>1. TypeOK /\ req[w] \in Request /\ Reliable(req[w])
  BY DEF CareInv, TypeOK, RequestInv
<1>2. PICK r \in Request : r = req[w]
  BY <1>1
<1>3. Reliable(r)
  BY <1>1, <1>2
<1>4. Reliable(r)'
  BY <1>1, <1>3, KeptReliable
<1> QED
  BY <1>2, <1>4 DEF Reliable, Exists, HasParties, Pair

(* grant_l1's commit keeps the invariant: it relates the pair.             *)
LEMMA AcceptNewCommit ==
    ASSUME CareInv, NEW w \in Workers, CommitAcceptNew(w)
    PROVE  CareInv'
<1> DEFINE s == req[w].session
           row == [sessions[s] EXCEPT !.status = "CONFIRMED"]
<1>1. TypeOK /\ req[w].op = "accept_new" /\ req[w].op \in SessionOps
  BY DEF CareInv, CommitAcceptNew, Doing, SessionOps
<1>2. /\ related' = related \cup {Pair(req[w].row)}
      /\ sessions' = [sessions EXCEPT ![s] = row]
      /\ log("TRUST_LEVEL_TRANSITION", s)
      /\ notify(Pair(req[w].row), "TRUST_LEVEL_TRANSITION", s)
      /\ Continue(w, "log")
      /\ UNCHANGED <<balance, held_balance, holds, ledger, evaluations, suspended, now>>
  BY DEF CommitAcceptNew, ledgerVars
<1>3. /\ s \in SessionIds /\ Exists(s) /\ sessions[s] \in Row /\ SessionInv(s)
      /\ Pair(req[w].row) \in SUBSET Users /\ Pair(req[w].row) = Pair(sessions[s])
  BY <1>1, OnSession DEF HasParties, Pair
<1>4. events' \subseteq Event /\ events \subseteq events' /\ notifications' \subseteq Notification
  <2>1. "TRUST_LEVEL_TRANSITION" \in EventType /\ "TRUST_LEVEL_TRANSITION" \in NotificationType
    BY DEF EventType, NotificationType
  <2> QED
    BY <1>1, <1>2, <1>3, <2>1, LogNotifyType
<1>5. /\ row \in Row /\ Later(sessions[s], row)
      /\ row.checkin_at = sessions[s].checkin_at /\ row.checkout_at = sessions[s].checkout_at
  BY <1>3, StatusWritten DEF Exists, CareSessionStatus
<1>6. Pair(sessions[s]) \in related' /\ related \subseteq related'
  BY <1>2, <1>3
<1>7. /\ Kept /\ now' \in Time /\ sessions' \in [SessionIds -> Row]
      /\ \A t \in SessionIds : SessionInv(t)'
  <2> HIDE DEF row, s
  <2> QED
    BY <1>2, <1>3, <1>4, <1>5, <1>6, SessionCommit DEF SessionInv
<1>8. /\ pc' \in [Workers -> Steps] /\ req' \in [Workers -> Request]
      /\ todo' \in [Workers -> SUBSET SessionIds] /\ work' \in [Workers -> Work]
      /\ Others(w) /\ pc'[w] = "log" /\ req'[w] = req[w]
  BY <1>1, <1>2, ContinueType DEF Steps
<1>9. TypeOK'
  BY <1>1, <1>2, <1>3, <1>4, <1>7, <1>8 DEF TypeOK, LedgerTypeOK
<1>10. WorkerInv(w)'
  <2>1. Pair(sessions[s])' \in related'
    BY <1>3, <1>6, <1>7, <1>8 DEF Kept, Later, Exists, Pair
  <2> QED
    BY <1>7, <1>8, <2>1, StillReliable DEF WorkerInv, RequestInv, StepInv, WorkInv
<1> QED
  BY <1>7, <1>8, <1>9, <1>10, Moved

(* A commit that writes no session, hold or ledger entry.                  *)
LEMMA NothingWritten ==
    ASSUME CareInv, related \subseteq related', events \subseteq events',
           UNCHANGED <<sessions, holds, ledger, now>>
    PROVE  Kept /\ now' \in Time /\ \A s \in SessionIds : SessionInv(s)'
<1>1. TypeOK
  BY DEF CareInv
<1>2. now' \in Time /\ now <= now'
  BY <1>1, CareAssumption DEF TypeOK, Time
<1>3. Kept
  BY <1>2 DEF Kept, Later, Exists
<1>4. ASSUME NEW s \in SessionIds PROVE SessionInv(s)'
  BY <1>1, <1>2, <1>3, KeptSession DEF CareInv
<1> QED
  BY <1>2, <1>3, <1>4

(* The pair of a request's session stays related.                          *)
LEMMA StillRelated ==
    ASSUME CareInv, NEW w \in Workers, Kept, req'[w] = req[w], req[w].op \in SessionOps,
           Pair(sessions[req[w].session]) \in related'
    PROVE  Pair(sessions[req[w].session])' \in related'
<1>1. req[w].session \in SessionIds /\ Exists(req[w].session)
  BY OnSession
<1> QED
  BY <1>1 DEF Kept, Later, Exists, Pair

(* accept's commit keeps the invariant: it logs the acceptance.            *)
LEMMA AcceptCommit ==
    ASSUME CareInv, NEW w \in Workers, CommitAccept(w)
    PROVE  CareInv'
<1> DEFINE s == req[w].session
           row == [sessions[s] EXCEPT !.status = "CONFIRMED"]
<1>1. /\ TypeOK /\ req[w].op \in {"accept", "accept_new"} /\ req[w].op \in SessionOps
      /\ Reliable(req[w])
      /\ req[w].op = "accept" \/ pc[w] # "commit"
  BY DEF CareInv, RequestInv, CommitAccept, Doing, SessionOps
<1>2. /\ sessions' = sessions \/ sessions' = [sessions EXCEPT ![s] = row]
      /\ log("REQUEST_ACCEPTED", s)
      /\ notify({req[w].row.requester}, "REQUEST_ACCEPTED", s)
      /\ Continue(w, "hold")
      /\ UNCHANGED <<balance, held_balance, holds, ledger, related, evaluations,
                     suspended, now>>
  BY DEF CommitAccept, ledgerVars
<1>3. /\ s \in SessionIds /\ Exists(s) /\ sessions[s] \in Row /\ SessionInv(s)
      /\ {req[w].row.requester} \in SUBSET Users
  BY <1>1, OnSession DEF HasParties
<1>4. events' \subseteq Event /\ events \subseteq events' /\ notifications' \subseteq Notification
  <2>1. "REQUEST_ACCEPTED" \in EventType /\ "REQUEST_ACCEPTED" \in NotificationType
    BY DEF EventType, NotificationType
  <2> QED
    BY <1>1, <1>2, <1>3, <2>1, LogNotifyType
<1>5. /\ row \in Row /\ Later(sessions[s], row)
      /\ row.checkin_at = sessions[s].checkin_at /\ row.checkout_at = sessions[s].checkout_at
  BY <1>3, StatusWritten DEF Exists, CareSessionStatus
<1>6. Pair(sessions[s]) \in related'
  BY <1>1, <1>2 DEF CareInv, RequestInv, Reliable
<1>7. /\ Kept /\ now' \in Time /\ sessions' \in [SessionIds -> Row]
      /\ \A t \in SessionIds : SessionInv(t)'
  <2>1. CASE sessions' = sessions
    BY <1>1, <1>2, <1>4, <2>1, NothingWritten DEF TypeOK
  <2>2. CASE sessions' = [sessions EXCEPT ![s] = row]
    <3> HIDE DEF row, s
    <3> QED
      BY <1>2, <1>3, <1>4, <1>5, <1>6, <2>2, SessionCommit DEF SessionInv
  <2> QED
    BY <1>2, <2>1, <2>2
<1>8. /\ pc' \in [Workers -> Steps] /\ req' \in [Workers -> Request]
      /\ todo' \in [Workers -> SUBSET SessionIds] /\ work' \in [Workers -> Work]
      /\ Others(w) /\ pc'[w] = "hold" /\ req'[w] = req[w]
  BY <1>1, <1>2, ContinueType DEF Steps
<1>9. TypeOK'
  BY <1>1, <1>2, <1>4, <1>7, <1>8 DEF TypeOK, LedgerTypeOK
<1>10. WorkerInv(w)'
  <2>1. Pair(sessions[s])' \in related'
    BY <1>1, <1>6, <1>7, <1>8, StillRelated
  <2>2. Accepted(s)'
    BY <1>2, <1>8 DEF log, Accepted
  <2> QED
    BY <1>1, <1>7, <1>8, <2>1, <2>2, StillReliable DEF WorkerInv, RequestInv, StepInv, WorkInv
<1> QED
  BY <1>7, <1>8, <1>9, <1>10, Moved

(* reject's commit keeps the invariant.                                    *)
LEMMA RejectCommit ==
    ASSUME CareInv, NEW w \in Workers, CommitReject(w)
    PROVE  CareInv'
<1> DEFINE s == req[w].session
           row == [sessions[s] EXCEPT !.status = "REJECTED"]
<1>1. TypeOK /\ req[w].op \in SessionOps
  BY DEF CareInv, CommitReject, Doing, SessionOps
<1>2. /\ sessions' = [sessions EXCEPT ![s] = row]
      /\ log("REQUEST_REJECTED", s)
      /\ notify({req[w].row.requester}, "REQUEST_REJECTED", s)
      /\ Finish(w)
      /\ UNCHANGED <<balance, held_balance, holds, ledger, related, evaluations,
                     suspended, now>>
  BY DEF CommitReject, ledgerVars
<1>3. /\ s \in SessionIds /\ Exists(s) /\ sessions[s] \in Row /\ SessionInv(s)
      /\ {req[w].row.requester} \in SUBSET Users
  BY <1>1, OnSession DEF HasParties
<1>4. events' \subseteq Event /\ events \subseteq events' /\ notifications' \subseteq Notification
  <2>1. "REQUEST_REJECTED" \in EventType /\ "REQUEST_REJECTED" \in NotificationType
    BY DEF EventType, NotificationType
  <2> QED
    BY <1>1, <1>2, <1>3, <2>1, LogNotifyType
<1>5. /\ row \in Row /\ Later(sessions[s], row) /\ row.status # "CONFIRMED"
      /\ row.checkin_at = sessions[s].checkin_at /\ row.checkout_at = sessions[s].checkout_at
  BY <1>3, StatusWritten DEF Exists, CareSessionStatus
<1>6. /\ Kept /\ now' \in Time /\ sessions' \in [SessionIds -> Row]
      /\ \A t \in SessionIds : SessionInv(t)'
  <2> HIDE DEF row, s
  <2> QED
    BY <1>2, <1>3, <1>4, <1>5, SessionCommit DEF SessionInv
<1>7. TypeOK'
  BY <1>1, <1>2, <1>4, <1>6, FinishInv DEF TypeOK, LedgerTypeOK
<1> QED
  BY <1>1, <1>2, <1>6, <1>7, FinishInv, Moved

(* The times of check-in and check-out, as the handlers write them.        *)
LEMMA CheckinWritten ==
    ASSUME NEW row \in Row, NEW at \in Time, at # None, row.status # "NONE"
    PROVE  /\ [row EXCEPT !.checkin_at = at] \in Row
           /\ [row EXCEPT !.checkin_at = at].checkin_at = at
           /\ [row EXCEPT !.checkin_at = at].checkout_at = row.checkout_at
           /\ [row EXCEPT !.checkin_at = at].status = row.status
           /\ Later(row, [row EXCEPT !.checkin_at = at])
BY DEF Row, Later

(* What check-out writes into a session.                                   *)
LEMMA CheckoutWritten ==
    ASSUME NEW row \in Row, NEW at \in Time, NEW spent \in Nat, at # None,
           row.status # "NONE"
    PROVE  /\ CheckedOut(row, at, spent) \in Row
           /\ CheckedOut(row, at, spent).checkout_at = at
           /\ CheckedOut(row, at, spent).checkin_at = row.checkin_at
           /\ CheckedOut(row, at, spent).status = row.status
           /\ Later(row, CheckedOut(row, at, spent))
BY DEF Row, Later, CheckedOut

(* check-in's commit keeps the invariant: its pair is related.             *)
LEMMA CheckinCommit ==
    ASSUME CareInv, NEW w \in Workers, CommitCheckin(w)
    PROVE  CareInv'
<1> DEFINE s == req[w].session
           row == [sessions[s] EXCEPT !.checkin_at = req[w].at]
<1>1. TypeOK /\ req[w].op = "checkin" /\ req[w].op \in SessionOps /\ Reliable(req[w])
  BY DEF CareInv, RequestInv, CommitCheckin, Doing, SessionOps
<1>2. /\ sessions' = [sessions EXCEPT ![s] = row]
      /\ Finish(w)
      /\ UNCHANGED <<balance, held_balance, holds, ledger, related, evaluations,
                     events, notifications, suspended, now>>
  BY DEF CommitCheckin, ledgerVars
<1>3. /\ s \in SessionIds /\ Exists(s) /\ sessions[s] \in Row /\ SessionInv(s)
      /\ req[w].at \in Time /\ req[w].at <= now
  BY <1>1, OnSession
<1>4. Pair(sessions[s]) \in related
  BY <1>1 DEF Reliable
<1>5. req[w].at # None
  BY <1>3, NoneApart
<1>6. /\ row \in Row /\ Later(sessions[s], row) /\ row.checkin_at = req[w].at
      /\ row.checkout_at = sessions[s].checkout_at
  BY <1>3, <1>5, CheckinWritten DEF Exists
<1>7. /\ Kept /\ now' \in Time /\ sessions' \in [SessionIds -> Row]
      /\ \A t \in SessionIds : SessionInv(t)'
  <2> HIDE DEF row, s
  <2> QED
    BY <1>2, <1>3, <1>4, <1>5, <1>6, SessionCommit DEF SessionInv
<1>8. TypeOK'
  BY <1>1, <1>2, <1>7, FinishInv DEF TypeOK, LedgerTypeOK
<1> QED
  BY <1>1, <1>2, <1>7, <1>8, FinishInv, Moved

(* check-out's commit keeps the invariant: a check-in is never reset.      *)
LEMMA CheckoutCommit ==
    ASSUME CareInv, NEW w \in Workers, CommitCheckout(w)
    PROVE  CareInv'
<1> DEFINE s == req[w].session
           spent == req[w].at - req[w].row.checkin_at
           row == CheckedOut(sessions[s], req[w].at, spent)
<1>1. TypeOK /\ req[w].op = "checkout" /\ req[w].op \in SessionOps /\ Reliable(req[w])
  BY DEF CareInv, RequestInv, CommitCheckout, Doing, SessionOps
<1>2. /\ sessions' = [sessions EXCEPT ![s] = row]
      /\ Continue(w, "settle")
      /\ UNCHANGED <<balance, held_balance, holds, ledger, related, evaluations,
                     events, notifications, suspended, now>>
  BY DEF CommitCheckout, ledgerVars
<1>3. /\ s \in SessionIds /\ Exists(s) /\ sessions[s] \in Row /\ SessionInv(s)
      /\ req[w].at \in Time /\ req[w].at <= now
  BY <1>1, OnSession
<1>4. /\ sessions[s].checkin_at # None
      /\ req[w].row.checkin_at \in Time /\ req[w].row.checkin_at <= req[w].at
  BY <1>1 DEF Reliable
<1>5. req[w].at # None /\ spent \in Nat
  BY <1>3, <1>4, NoneApart, CareAssumption DEF Time
<1>6. /\ row \in Row /\ Later(sessions[s], row) /\ row.checkout_at = req[w].at
      /\ row.checkin_at = sessions[s].checkin_at /\ row.status = sessions[s].status
  <2> HIDE DEF spent
  <2> QED
    BY <1>3, <1>5, CheckoutWritten DEF Exists
<1>7. /\ Kept /\ now' \in Time /\ sessions' \in [SessionIds -> Row] /\ sessions'[s] = row
      /\ \A t \in SessionIds : SessionInv(t)'
  <2> HIDE DEF row, s
  <2> QED
    BY <1>2, <1>3, <1>4, <1>6, SessionCommit DEF SessionInv
<1>8. /\ pc' \in [Workers -> Steps] /\ req' \in [Workers -> Request]
      /\ todo' \in [Workers -> SUBSET SessionIds] /\ work' \in [Workers -> Work]
      /\ Others(w) /\ pc'[w] = "settle" /\ req'[w] = req[w]
  BY <1>1, <1>2, ContinueType DEF Steps
<1>9. TypeOK'
  BY <1>1, <1>2, <1>7, <1>8 DEF TypeOK, LedgerTypeOK
<1>10. WorkerInv(w)'
  <2>1. sessions'[req'[w].session].checkout_at # None
    BY <1>5, <1>6, <1>7, <1>8
  <2> QED
    BY <1>1, <1>7, <1>8, <2>1, StillReliable DEF WorkerInv, RequestInv, StepInv, WorkInv
<1> QED
  BY <1>7, <1>8, <1>9, <1>10, Moved

(* What cancel and report_no_show write.                                   *)
LEMMA ClosedLater ==
    ASSUME NEW row \in Row, row.status # "NONE", NEW status \in {"CANCELLED", "NO_SHOW"},
           NEW at \in Time, at # None, NEW fault \in Users \cup {None},
           row.at_fault # None => fault # None
    PROVE  /\ Closed(row, status, at, fault) \in Row
           /\ Later(row, Closed(row, status, at, fault))
           /\ Closed(row, status, at, fault).status = status
           /\ Closed(row, status, at, fault).checkin_at = row.checkin_at
           /\ Closed(row, status, at, fault).checkout_at = row.checkout_at
           /\ Closed(row, status, at, fault).cancelled_at = at
<1>1. Closed(row, status, at, fault) \in Row
  BY ClosedType
<1> QED
  BY <1>1 DEF Closed, Later

(* After a cancellation has been committed the worker goes on to the holds *)
(* of the sessions it cancelled, or is done.                               *)
LEMMA ResolveNextInv ==
    ASSUME CareInv, NEW w \in Workers, ResolveNext(w), Kept, now' \in Time,
           req[w].op = "accept_new" => pc[w] # "commit",
           \A t \in todo[w] : Exists(t)' /\ sessions'[t].cancelled_at # None
    PROVE  /\ pc' \in [Workers -> Steps]
           /\ req' \in [Workers -> Request]
           /\ todo' \in [Workers -> SUBSET SessionIds]
           /\ work' \in [Workers -> Work]
           /\ Others(w)
           /\ WorkerInv(w)'
<1>1. TypeOK
  BY DEF CareInv
<1>2. CASE todo[w] = {}
  BY <1>1, <1>2, FinishInv DEF ResolveNext
<1>3. CASE todo[w] # {}
  <2>1. Continue(w, "resolve") /\ "resolve" \in Steps
    BY <1>3 DEF ResolveNext, Steps
  <2>2. /\ pc' \in [Workers -> Steps] /\ req' \in [Workers -> Request]
        /\ todo' \in [Workers -> SUBSET SessionIds] /\ work' \in [Workers -> Work]
        /\ Others(w) /\ pc'[w] = "resolve" /\ req'[w] = req[w] /\ todo'[w] = todo[w]
    BY <1>1, <2>1, ContinueType
  <2>3. req[w].op = "accept_new" => Pair(sessions[req[w].session])' \in related'
    <3>1. req[w].op = "accept_new" =>
              req[w].op \in SessionOps /\ Pair(sessions[req[w].session]) \in related'
      BY DEF CareInv, RequestInv, SessionOps, Kept
    <3> QED
      BY <2>2, <3>1, StillRelated
  <2>4. WorkerInv(w)'
    BY <2>2, <2>3, StillReliable DEF WorkerInv, RequestInv, StepInv, WorkInv
  <2> QED
    BY <2>2, <2>4
<1> QED
  BY <1>2, <1>3

(* The commit of a request that ends one session.                          *)
LEMMA CloseCommit ==
    ASSUME CareInv, NEW w \in Workers, pc[w] = "commit", req[w].op \in {"cancel", "no_show"},
           NEW status \in {"CANCELLED", "NO_SHOW"}, NEW fault \in Users \cup {None},
           sessions[req[w].session].at_fault # None => fault # None,
           sessions' = [sessions EXCEPT ![req[w].session] =
                            Closed(sessions[req[w].session], status, req[w].at, fault)],
           notifications' \subseteq Notification,
           ResolveNext(w),
           UNCHANGED <<balance, held_balance, holds, ledger, related, evaluations,
                       events, suspended, now>>
    PROVE  CareInv'
<1> DEFINE s == req[w].session
           row == Closed(sessions[s], status, req[w].at, fault)
<1>1. /\ TypeOK /\ req[w].op \in SessionOps
  BY DEF CareInv, SessionOps
<1>2. /\ s \in SessionIds /\ Exists(s) /\ sessions[s] \in Row /\ SessionInv(s)
      /\ req[w].at \in Time /\ req[w].at # None
  BY <1>1, OnSession, NoneApart
<1>3. /\ row \in Row /\ Later(sessions[s], row) /\ row.status # "CONFIRMED"
      /\ row.checkin_at = sessions[s].checkin_at /\ row.checkout_at = sessions[s].checkout_at
      /\ row.cancelled_at # None
  BY <1>2, ClosedLater DEF Exists
<1>4. /\ Kept /\ now' \in Time /\ sessions' \in [SessionIds -> Row] /\ sessions'[s] = row
      /\ \A t \in SessionIds : SessionInv(t)'
  <2>1. sessions' = [sessions EXCEPT ![s] = row]
    OBVIOUS
  <2> HIDE DEF row, s
  <2> QED
    BY <1>2, <1>3, <2>1, SessionCommit DEF SessionInv
<1>5. todo[w] \subseteq {s}
  BY <1>1 DEF CareInv, StepInv
<1>6. \A t \in todo[w] : Exists(t)' /\ sessions'[t].cancelled_at # None
  BY <1>2, <1>3, <1>4, <1>5 DEF Exists, Later
<1>7. /\ pc' \in [Workers -> Steps] /\ req' \in [Workers -> Request]
      /\ todo' \in [Workers -> SUBSET SessionIds] /\ work' \in [Workers -> Work]
      /\ Others(w) /\ WorkerInv(w)'
  <2> HIDE DEF row
  <2> QED
    BY <1>4, <1>6, ResolveNextInv
<1>8. TypeOK'
  BY <1>1, <1>4, <1>7 DEF TypeOK, LedgerTypeOK
<1> QED
  BY <1>4, <1>7, <1>8, Moved

(* The other party of a session is a user.                                 *)
LEMMA CounterpartyType ==
    ASSUME NEW u \in Users, NEW row, HasParties(row)
    PROVE  Counterparty(u, row) \in Users
BY DEF Counterparty, HasParties

(* cancel's commit keeps the invariant.                                    *)
LEMMA CancelCommit ==
    ASSUME CareInv, NEW w \in Workers, CommitCancel(w)
    PROVE  CareInv'
<1> DEFINE s == req[w].session
           fault == IF todo[w] # {} /\ req[w].late THEN req[w].actor ELSE sessions[s].at_fault
<1>1. TypeOK /\ pc[w] = "commit" /\ req[w].op = "cancel" /\ req[w].op \in SessionOps
  BY DEF CareInv, CommitCancel, Doing, SessionOps
<1>2. /\ s \in SessionIds /\ sessions[s] \in Row /\ req[w].actor \in Users
      /\ HasParties(req[w].row)
  BY <1>1, OnSession
<1>3. /\ sessions' = [sessions EXCEPT ![s] = Closed(sessions[s], "CANCELLED", req[w].at, fault)]
      /\ notify({Counterparty(req[w].actor, req[w].row)}, "SESSION_CANCELLED", s)
      /\ ResolveNext(w)
      /\ UNCHANGED <<balance, held_balance, holds, ledger, related, evaluations,
                     events, suspended, now>>
  BY DEF CommitCancel, ledgerVars
<1>4. notifications' \subseteq Notification
  <2>1. /\ {Counterparty(req[w].actor, req[w].row)} \in SUBSET Users
        /\ "SESSION_CANCELLED" \in NotificationType
    BY <1>2, CounterpartyType DEF NotificationType
  <2> QED
    BY <1>1, <1>2, <1>3, <2>1, LogNotifyType
<1>5. fault \in Users \cup {None} /\ (sessions[s].at_fault # None => fault # None)
  BY <1>2, CareAssumption DEF Row
<1> HIDE DEF fault
<1> QED
  BY <1>1, <1>3, <1>4, <1>5, CloseCommit

(* report_no_show's commit keeps the invariant.                            *)
LEMMA NoShowCommit ==
    ASSUME CareInv, NEW w \in Workers, CommitNoShow(w)
    PROVE  CareInv'
<1> DEFINE s == req[w].session
           fault == Counterparty(req[w].actor, req[w].row)
<1>1. TypeOK /\ pc[w] = "commit" /\ req[w].op = "no_show" /\ req[w].op \in SessionOps
  BY DEF CareInv, CommitNoShow, Doing, SessionOps
<1>2. s \in SessionIds /\ fault \in Users
  BY <1>1, OnSession, CounterpartyType
<1>3. /\ sessions' = [sessions EXCEPT ![s] = Closed(sessions[s], "NO_SHOW", req[w].at, fault)]
      /\ notify({fault}, "NO_SHOW_REPORTED", s)
      /\ ResolveNext(w)
      /\ UNCHANGED <<balance, held_balance, holds, ledger, related, evaluations,
                     events, suspended, now>>
  BY DEF CommitNoShow, ledgerVars
<1>4. notifications' \subseteq Notification
  <2>1. {fault} \in SUBSET Users /\ "NO_SHOW_REPORTED" \in NotificationType
    BY <1>2 DEF NotificationType
  <2> QED
    BY <1>1, <1>2, <1>3, <2>1, LogNotifyType
<1>5. fault \in Users \cup {None} /\ fault # None
  BY <1>2, CareAssumption
<1> HIDE DEF fault
<1> QED
  BY <1>1, <1>3, <1>4, <1>5, CloseCommit

(* emergency_suspend's commit keeps the invariant.                         *)
LEMMA SuspendCommit ==
    ASSUME CareInv, NEW w \in Workers, CommitSuspend(w)
    PROVE  CareInv'
<1> DEFINE r == req[w]
           u == r.actor
<1>1. TypeOK /\ Reliable(r) /\ r.op = "suspend" /\ pc[w] = "commit"
  BY DEF CareInv, RequestInv, CommitSuspend, Doing
<1>2. /\ r.at \in Time /\ r.at # None /\ r.stopped \subseteq SessionIds
      /\ u \in Users /\ \A s \in r.stopped : Exists(s)
  BY <1>1, NoneApart DEF Reliable, TypeOK, Request
<1>3. /\ suspended' = suspended \cup {u}
      /\ sessions' = [s \in SessionIds |->
             IF s \in r.stopped
             THEN Closed(sessions[s], "CANCELLED", r.at, sessions[s].at_fault)
             ELSE sessions[s]]
      /\ notifications' = notifications \cup
             {[to |-> Counterparty(u, sessions[s]), type |-> "SESSION_CANCELLED",
               session |-> s] : s \in r.stopped}
      /\ ResolveNext(w)
      /\ UNCHANGED <<balance, held_balance, holds, ledger, related, evaluations,
                     events, now>>
  BY DEF CommitSuspend, ledgerVars
<1>4. ASSUME NEW s \in r.stopped
      PROVE  LET row == Closed(sessions[s], "CANCELLED", r.at, sessions[s].at_fault)
             IN  /\ sessions'[s] = row /\ row \in Row /\ Later(sessions[s], row)
                 /\ row.status = "CANCELLED"
                 /\ row.checkin_at = sessions[s].checkin_at
                 /\ row.checkout_at = sessions[s].checkout_at
                 /\ row.cancelled_at # None
                 /\ Counterparty(u, sessions[s]) \in Users
  <2>1. s \in SessionIds /\ sessions[s] \in Row /\ sessions[s].status # "NONE"
        /\ sessions[s].at_fault \in Users \cup {None} /\ HasParties(sessions[s])
    BY <1>1, <1>2, <1>4 DEF TypeOK, Row, Exists, CareInv, SessionInv
  <2> QED
    BY <1>2, <1>3, <2>1, ClosedLater, CounterpartyType
<1>5. \A s \in SessionIds \ r.stopped : sessions'[s] = sessions[s]
  BY <1>3
<1>6. now' \in Time /\ now' = now /\ now <= now'
  BY <1>1, <1>3, CareAssumption DEF TypeOK, Time
<1>7. Kept
  BY <1>3, <1>4, <1>5, <1>6 DEF Kept, Later, Exists
<1>8. sessions' \in [SessionIds -> Row]
  BY <1>1, <1>3, <1>4 DEF TypeOK
<1>9. ASSUME NEW s \in SessionIds PROVE SessionInv(s)'
  <2>1. SessionInv(s)
    BY DEF CareInv
  <2>2. CASE s \in r.stopped
    <3>1. /\ Exists(s) /\ sessions'[s] \in Row /\ Later(sessions[s], sessions'[s])
          /\ sessions'[s].status # "CONFIRMED"
          /\ sessions'[s].checkin_at = sessions[s].checkin_at
          /\ sessions'[s].checkout_at = sessions[s].checkout_at
      BY <1>2, <1>4, <2>2
    <3> QED
      BY <1>1, <1>3, <1>6, <1>7, <2>1, <3>1, WrittenSession DEF SessionInv
  <2>3. CASE s \notin r.stopped
    BY <1>1, <1>3, <1>5, <1>6, <1>7, <2>1, <2>3, KeptSession
  <2> QED
    BY <2>2, <2>3
<1>10. notifications' \subseteq Notification
  <2>1. ASSUME NEW s \in r.stopped
        PROVE  [to |-> Counterparty(u, sessions[s]), type |-> "SESSION_CANCELLED", session |-> s]
                   \in Notification
    BY <1>2, <1>4 DEF Notification, NotificationType
  <2> QED
    BY <1>1, <1>3, <2>1 DEF TypeOK
<1>11. \A t \in todo[w] : Exists(t)' /\ sessions'[t].cancelled_at # None
  BY <1>1, <1>4 DEF CareInv, StepInv, Exists, Later
<1>12. /\ pc' \in [Workers -> Steps] /\ req' \in [Workers -> Request]
       /\ todo' \in [Workers -> SUBSET SessionIds] /\ work' \in [Workers -> Work]
       /\ Others(w) /\ WorkerInv(w)'
  BY <1>1, <1>3, <1>6, <1>7, <1>11, ResolveNextInv
<1>13. TypeOK'
  BY <1>1, <1>2, <1>3, <1>6, <1>8, <1>10, <1>12 DEF TypeOK, LedgerTypeOK
<1> QED
  BY <1>7, <1>9, <1>12, <1>13, Moved

(* submit_evaluation's commit keeps the invariant.                         *)
LEMMA EvaluationCommit ==
    ASSUME CareInv, NEW w \in Workers, CommitEvaluation(w)
    PROVE  CareInv'
<1>1. TypeOK /\ req[w].op \in SessionOps
  BY DEF CareInv, CommitEvaluation, Doing, SessionOps
<1>2. /\ evaluations' = evaluations \cup {<<req[w].session, req[w].actor>>}
      /\ Finish(w)
      /\ UNCHANGED <<balance, held_balance, holds, ledger, sessions, related, events,
                     notifications, suspended, now>>
  BY DEF CommitEvaluation, ledgerVars
<1>3. evaluations' \subseteq SessionIds \X Users
  BY <1>1, <1>2, OnSession DEF TypeOK
<1>4. Kept /\ now' \in Time /\ \A s \in SessionIds : SessionInv(s)'
  BY <1>2, NothingWritten
<1>5. TypeOK'
  BY <1>1, <1>2, <1>3, <1>4, FinishInv DEF TypeOK, LedgerTypeOK
<1> QED
  BY <1>1, <1>2, <1>4, <1>5, FinishInv, Moved

-----------------------------------------------------------------------------
(* The point transactions.                                                 *)

(* What the invariant says of the tables holds while they do not change.   *)
LEMMA DbUnchanged ==
    ASSUME CareInv, UNCHANGED <<dbVars, now>>
    PROVE  /\ UNCHANGED <<balance, held_balance, holds, ledger, sessions, related,
                          evaluations, events, notifications, suspended, now>>
           /\ Kept /\ now' \in Time /\ \A s \in SessionIds : SessionInv(s)'
<1>1. UNCHANGED <<balance, held_balance, holds, ledger, sessions, related,
                  evaluations, events, notifications, suspended, now>>
  BY DEF dbVars, ledgerVars
<1> QED
  BY <1>1, NothingWritten

(* A request that ends without writing: Refused, Fail, and the reads that  *)
(* find nothing to do.                                                     *)
LEMMA FinishOnly ==
    ASSUME CareInv, NEW w \in Workers, Finish(w), UNCHANGED <<dbVars, now>>
    PROVE  CareInv'
<1>1. TypeOK
  BY DEF CareInv
<1>2. TypeOK'
  BY <1>1, DbUnchanged, FinishInv DEF TypeOK, LedgerTypeOK
<1> QED
  BY <1>1, <1>2, DbUnchanged, FinishInv, Moved

(* A read that decides on a posting the invariant allows.                  *)
LEMMA PrepareInv ==
    ASSUME CareInv, NEW w \in Workers, NEW s \in SessionIds, NEW p \in Posting,
           NEW rest \in SUBSET SessionIds, Prepare(w, s, p, rest), UNCHANGED <<dbVars, now>>,
           pc[w] # "commit", Exists(s),
           p.hold = "HELD" => Pair(sessions[s]) \in related /\ Accepted(s),
           p.hold \in {"SETTLED", "RELEASED", "FORFEITED"} => holds[s].status # "NONE",
           p.reason # "NONE" => HasCause(s, p.reason),
           \A t \in rest : Exists(t) /\ sessions[t].cancelled_at # None
    PROVE  CareInv'
<1> DEFINE item == [session |-> s, posting |-> p, balance |-> balance, held |-> held_balance]
<1>1. TypeOK
  BY DEF CareInv
<1>2. /\ UNCHANGED <<balance, held_balance, holds, ledger, sessions, related,
                     evaluations, events, notifications, suspended, now, req>>
      /\ pc' = [pc EXCEPT ![w] = "post"]
      /\ todo' = [todo EXCEPT ![w] = rest]
      /\ work' = [work EXCEPT ![w] = item]
  BY DbUnchanged DEF Prepare
<1>3. item \in Work
  BY <1>1 DEF Work, TypeOK, LedgerTypeOK
<1>4. TypeOK'
  BY <1>1, <1>2, <1>3, DbUnchanged DEF TypeOK, LedgerTypeOK, Steps
<1>5. pc'[w] = "post" /\ todo'[w] = rest /\ work'[w] = item /\ req'[w] = req[w]
  BY <1>1, <1>2 DEF TypeOK
<1>6. Others(w)
  BY <1>1, <1>2 DEF TypeOK, Others
<1>7. WorkerInv(w)'
  <2>1. Reliable(req[w])'
    BY <1>5, DbUnchanged, StillReliable
  <2>2. req[w].op = "accept_new" => Pair(sessions[req[w].session]) \in related
    BY DEF CareInv, RequestInv
  <2>3. RequestInv(w)'
    BY <1>2, <1>5, <2>1, <2>2 DEF RequestInv, Pair
  <2>4. StepInv(w)'
    BY <1>2, <1>5 DEF StepInv, Exists
  <2>5. WorkInv(w)'
    <3>1. work'[w].session = s /\ work'[w].posting = p
      BY <1>5
    <3>2. Exists(s)' /\ (p.hold = "HELD" => Pair(sessions[s])' \in related' /\ Accepted(s)')
      BY <1>2 DEF Exists, Pair, Accepted
    <3>3. p.hold \in {"SETTLED", "RELEASED", "FORFEITED"} => holds'[s].status # "NONE"
      BY <1>2
    <3>4. p.reason # "NONE" => HasCause(s, p.reason)'
      BY <1>2 DEF HasCause
    <3> HIDE DEF item
    <3> QED
      BY <3>1, <3>2, <3>3, <3>4 DEF WorkInv, Exists, Pair, Accepted, HasCause
  <2> QED
    BY <2>3, <2>4, <2>5 DEF WorkerInv
<1> QED
  BY <1>4, <1>6, <1>7, DbUnchanged, Moved

(* create_hold's read keeps the invariant.                                 *)
LEMMA HoldRead ==
    ASSUME CareInv, NEW w \in Workers, ReadHold(w)
    PROVE  CareInv'
<1> DEFINE s == req[w].session
           row == req[w].row
           slots == row.end_slot - row.start_slot
           p == create_hold(slots)
<1>1. /\ UNCHANGED <<dbVars, now>> /\ pc[w] = "hold"
      /\ req[w].op \in SessionOps
      /\ req[w].op \in {"accept", "accept_new"} /\ Accepted(s)
  BY DEF CareInv, StepInv, ReadHold, SessionOps
<1>2. /\ s \in SessionIds /\ Exists(s) /\ row \in Row /\ HasParties(row)
      /\ Pair(sessions[s]) \in related
  BY <1>1, OnSession DEF CareInv, RequestInv, Reliable
<1>3. slots \in Nat
  BY <1>2 DEF Row, HasParties
<1>4. p \in Posting /\ p.hold = "HELD" /\ p.reason = "NONE"
  <2> HIDE DEF slots
  <2>1. NoHold \in PointHold /\ FALSE \in BOOLEAN
    BY DEF NoHold, PointHold
  <2> QED
    BY <1>3, <2>1, PostingType, PostingShape
<1>5. CASE Prepare(w, s, p, {})
  <2> HIDE DEF p, s
  <2> QED
    BY <1>1, <1>2, <1>4, <1>5, PrepareInv
<1>6. CASE Finish(w)
  BY <1>1, <1>6, FinishOnly
<1> QED
  BY <1>5, <1>6 DEF ReadHold

(* The posting that cancel, no-show and suspension decide on.              *)
LEMMA ResolutionInv ==
    ASSUME CareInv, NEW w \in Workers, NEW s \in SessionIds, Exists(s),
           sessions[s].cancelled_at # None, holds[s].status # "NONE"
    PROVE  /\ Resolution(w, s) \in Posting
           /\ Resolution(w, s).hold \in {"RELEASED", "FORFEITED"}
           /\ Resolution(w, s).reason # "NONE" => HasCause(s, Resolution(w, s).reason)
<1> DEFINE fault == sessions[s].at_fault = sessions[s].requester
           hold == holds[s]
           late == req[w].late
           reason == Resolution(w, s).reason
<1>1. TypeOK /\ SessionInv(s)
  BY DEF CareInv
<1>2. hold \in PointHold /\ late \in BOOLEAN /\ fault \in BOOLEAN /\ 0 \in Nat
  BY <1>1 DEF TypeOK, LedgerTypeOK, Request
<1>3. Resolution(w, s) = IF req[w].op = "no_show"
                         THEN resolve_hold_on_no_show(hold, fault)
                         ELSE resolve_hold_on_cancel(hold, late, fault)
  BY DEF Resolution
<1> HIDE DEF hold, fault, late
<1>4. /\ Resolution(w, s) \in Posting
      /\ Resolution(w, s).hold \in {"RELEASED", "FORFEITED"}
      /\ reason \in (IF fault THEN {"NONE", "CANCEL_PENALTY", "NO_SHOW_PENALTY"} ELSE {"NONE"})
  BY <1>2, <1>3, PostingType, PostingShape
<1>5. fault => sessions[s].at_fault # None
  BY <1>1, CareAssumption DEF fault, SessionInv, HasParties
<1>6. reason # "NONE" => HasCause(s, reason)
  <2> HIDE DEF reason
  <2> QED
    BY <1>1, <1>4, <1>5 DEF HasCause, SessionInv, Accepted
<1> QED
  BY <1>4, <1>6

(* The read of a hold to resolve keeps the invariant.                      *)
LEMMA ResolveRead ==
    ASSUME CareInv, NEW w \in Workers, ReadResolve(w)
    PROVE  CareInv'
<1>1. UNCHANGED <<dbVars, now>> /\ pc[w] = "resolve"
  BY DEF ReadResolve
<1>2. /\ \A t \in todo[w] : Exists(t) /\ sessions[t].cancelled_at # None
      /\ todo[w] \subseteq SessionIds
  BY <1>1 DEF CareInv, StepInv, TypeOK
<1>3. CASE Finish(w)
  BY <1>1, <1>3, FinishOnly
<1>4. ASSUME NEW s \in todo[w], holds[s].status = "HELD",
             Prepare(w, s, Resolution(w, s), {t \in todo[w] : t < s})
      PROVE  CareInv'
  <2> DEFINE p == Resolution(w, s)
             rest == {t \in todo[w] : t < s}
  <2>1. s \in SessionIds /\ Exists(s) /\ holds[s].status # "NONE"
    BY <1>2, <1>4
  <2>2. /\ p \in Posting /\ p.hold \in {"RELEASED", "FORFEITED"}
        /\ p.reason # "NONE" => HasCause(s, p.reason)
    BY <1>2, <2>1, ResolutionInv
  <2>3. rest \in SUBSET SessionIds
        /\ \A t \in rest : Exists(t) /\ sessions[t].cancelled_at # None
    BY <1>2
  <2>4. Prepare(w, s, p, rest)
    BY <1>4
  <2> HIDE DEF p, rest
  <2> QED
    BY <1>1, <2>1, <2>2, <2>3, <2>4, PrepareInv
<1> QED
  BY <1>3, <1>4 DEF ReadResolve

(* Going on to the completion of a check-out.                              *)
LEMMA CompleteNext ==
    ASSUME CareInv, NEW w \in Workers, Continue(w, "complete"), req[w].op = "checkout",
           Kept, now' \in Time
    PROVE  /\ pc' \in [Workers -> Steps] /\ req' \in [Workers -> Request]
           /\ todo' \in [Workers -> SUBSET SessionIds] /\ work' \in [Workers -> Work]
           /\ Others(w) /\ WorkerInv(w)'
<1>1. TypeOK
  BY DEF CareInv
<1>2. /\ pc' \in [Workers -> Steps] /\ req' \in [Workers -> Request]
      /\ todo' \in [Workers -> SUBSET SessionIds] /\ work' \in [Workers -> Work]
      /\ Others(w) /\ pc'[w] = "complete" /\ req'[w] = req[w]
  BY <1>1, ContinueType DEF Steps
<1>3. WorkerInv(w)'
  BY <1>2, StillReliable DEF WorkerInv, RequestInv, StepInv, WorkInv
<1> QED
  BY <1>2, <1>3

(* settle_care_session's read keeps the invariant.                         *)
LEMMA SettleRead ==
    ASSUME CareInv, NEW w \in Workers, ReadSettle(w)
    PROVE  CareInv'
<1> DEFINE s == req[w].session
           rawSlots == sessions[s].actual \div TicksPerSlot
           pay == _transfer(rawSlots)
           settle == settle_hold(holds[s], rawSlots)
<1>1. /\ TypeOK /\ UNCHANGED <<dbVars, now>> /\ pc[w] = "settle"
      /\ req[w].op = "checkout" /\ req[w].op \in SessionOps
      /\ sessions[s].checkout_at # None
  BY DEF CareInv, StepInv, ReadSettle, SessionOps
<1>2. s \in SessionIds /\ Exists(s) /\ sessions[s] \in Row /\ SessionInv(s)
  BY <1>1, OnSession
<1>3. HasCause(s, "SETTLEMENT")
  BY <1>1, <1>2 DEF HasCause, SessionInv
<1>4. rawSlots \in Nat /\ holds[s] \in PointHold
  <2>1. sessions[s].actual \in Nat /\ TicksPerSlot \in Nat \ {0}
    BY <1>2, CareAssumption DEF Row
  <2>2. \A a \in Nat, b \in Nat \ {0} : a \div b \in Nat
    OBVIOUS
  <2> QED
    BY <1>1, <1>2, <2>1, <2>2 DEF TypeOK, LedgerTypeOK
<1>5. /\ pay \in Posting /\ pay.hold = "KEEP" /\ pay.reason = "SETTLEMENT"
      /\ settle \in Posting /\ settle.hold = "SETTLED"
      /\ settle.reason \in {"NONE", "SETTLEMENT"}
  <2> HIDE DEF rawSlots, s
  <2>1. FALSE \in BOOLEAN
    OBVIOUS
  <2> QED
    BY <1>4, <2>1, PostingType, PostingShape
<1>6. CASE Finish(w)
  BY <1>1, <1>6, FinishOnly
<1>7. CASE Continue(w, "complete")
  <2>1. TypeOK'
    BY <1>1, <1>7, DbUnchanged, CompleteNext DEF TypeOK, LedgerTypeOK
  <2> QED
    BY <1>1, <1>7, <2>1, DbUnchanged, CompleteNext, Moved
<1>8. CASE Prepare(w, s, settle, {}) /\ holds[s].status = "HELD"
  <2> HIDE DEF settle, s
  <2> QED
    BY <1>1, <1>2, <1>3, <1>5, <1>8, PrepareInv
<1>9. CASE Prepare(w, s, pay, {})
  <2> HIDE DEF pay, s
  <2> QED
    BY <1>1, <1>2, <1>3, <1>5, <1>9, PrepareInv
<1> QED
  BY <1>6, <1>7, <1>8, <1>9 DEF ReadSettle

(* What the commit of a posting writes.                                    *)
LEMMA PostType ==
    ASSUME TypeOK, NEW s \in SessionIds, NEW p \in Posting, NEW payer \in Users,
           NEW payee \in Users, NEW readBalance \in [Users -> Int],
           NEW readHeld \in [Users -> Int],
           Post(s, p, payer, payee, readBalance, readHeld)
    PROVE  /\ LedgerTypeOK'
           /\ \A t \in SessionIds \ {s} : holds'[t] = holds[t] /\ ledger'[t] = ledger[t]
           /\ holds'[s].status = IF p.hold = "KEEP" THEN holds[s].status ELSE p.hold
           /\ holds'[s].amount = IF p.hold = "HELD" THEN p.amount ELSE holds[s].amount
           /\ p.hold = "HELD" => holds[s].status = "NONE"
           /\ \/ p.reason = "NONE" /\ ledger'[s] = ledger[s]
              \/ p.reason # "NONE"
                 /\ ledger'[s] = Append(ledger[s], [reason |-> p.reason, amount |-> p.payee])
<1>1. LedgerTypeOK
  BY DEF TypeOK
<1>2. /\ p.hold \in PointHoldStatus \cup {"KEEP"} /\ p.amount \in Nat /\ p.payer \in Int
      /\ p.held \in Int /\ p.payee \in Nat /\ p.reason \in Reasons \cup {"NONE"}
  BY DEF Posting
<1>3. /\ balance' \in [Users -> Int]
      /\ held_balance' \in [Users -> Int]
  <2>1. \A read, delta, current \in Int : Written(read, delta, current) \in Int
    BY DEF Written
  <2> DEFINE paid == Written(readBalance[payer], p.payer, balance[payer])
             first == [balance EXCEPT ![payer] = paid]
             earned == Written(readBalance[payee], p.payee, first[payee])
             kept == Written(readHeld[payer], p.held, held_balance[payer])
  <2>2. /\ balance' = [first EXCEPT ![payee] = earned]
        /\ held_balance' = [held_balance EXCEPT ![payer] = kept]
    BY DEF Post
  <2>3. paid \in Int /\ kept \in Int
    BY <1>1, <1>2, <2>1 DEF LedgerTypeOK
  <2>4. first \in [Users -> Int]
    BY <1>1, <2>3 DEF LedgerTypeOK
  <2>5. earned \in Int
    <3>1. readBalance[payee] \in Int /\ p.payee \in Int /\ first[payee] \in Int
      BY <1>2, <2>4
    <3> HIDE DEF first
    <3> QED
      BY <2>1, <3>1
  <2> HIDE DEF first, earned, kept
  <2> QED
    BY <1>1, <2>2, <2>3, <2>4, <2>5 DEF LedgerTypeOK
<1> DEFINE hold == CASE p.hold = "KEEP" -> holds[s]
                     [] p.hold = "HELD" -> [status |-> "HELD", amount |-> p.amount]
                     [] OTHER           -> [holds[s] EXCEPT !.status = p.hold]
<1>4. holds' = [holds EXCEPT ![s] = hold]
  BY DEF Post
<1>5. /\ hold \in PointHold
      /\ hold.status = IF p.hold = "KEEP" THEN holds[s].status ELSE p.hold
      /\ hold.amount = IF p.hold = "HELD" THEN p.amount ELSE holds[s].amount
  <2>1. holds[s] \in PointHold
    BY <1>1 DEF LedgerTypeOK
  <2>2. CASE p.hold = "KEEP"
    BY <2>1, <2>2
  <2>3. CASE p.hold = "HELD"
    BY <1>2, <2>3 DEF PointHold, PointHoldStatus
  <2>4. CASE p.hold \notin {"KEEP", "HELD"}
    BY <1>2, <2>1, <2>4 DEF PointHold, PointHoldStatus
  <2> QED
    BY <2>2, <2>3, <2>4
<1> HIDE DEF hold
<1>6. /\ holds' \in [SessionIds -> PointHold] /\ holds'[s] = hold
      /\ \A t \in SessionIds \ {s} : holds'[t] = holds[t]
  BY <1>1, <1>4, <1>5 DEF LedgerTypeOK
<1>7. ledger' = [ledger EXCEPT ![s] =
          IF p.reason = "NONE" THEN ledger[s]
          ELSE Append(ledger[s], [reason |-> p.reason, amount |-> p.payee])]
  BY DEF Post
<1>8. p.reason # "NONE" => [reason |-> p.reason, amount |-> p.payee] \in PointTransaction
  BY <1>2 DEF PointTransaction
<1>9. /\ ledger' \in [SessionIds -> Seq(PointTransaction)]
      /\ \A t \in SessionIds \ {s} : ledger'[t] = ledger[t]
      /\ \/ p.reason = "NONE" /\ ledger'[s] = ledger[s]
         \/ p.reason # "NONE"
            /\ ledger'[s] = Append(ledger[s], [reason |-> p.reason, amount |-> p.payee])
  BY <1>1, <1>7, <1>8 DEF LedgerTypeOK
<1>10. p.hold = "HELD" => holds[s].status = "NONE"
  BY DEF Post, HoldConflict
<1> QED
  BY <1>3, <1>5, <1>6, <1>9, <1>10 DEF LedgerTypeOK

(* The commit of a posting keeps the invariant.                            *)
LEMMA PostingCommit ==
    ASSUME CareInv, NEW w \in Workers, CommitPosting(w)
    PROVE  CareInv'
<1>1. TypeOK /\ WorkInv(w) /\ StepInv(w) /\ RequestInv(w) /\ pc[w] = "post"
  BY DEF CareInv, CommitPosting
<1>a. PICK s \in SessionIds : s = work[w].session
  BY <1>1 DEF WorkInv
<1>b. PICK p \in Posting : p = work[w].posting
  BY <1>1 DEF TypeOK, Work
<1>2. /\ s \in SessionIds /\ Exists(s) /\ SessionInv(s)
      /\ p.hold = "HELD" => Pair(sessions[s]) \in related /\ Accepted(s)
      /\ p.hold \in {"SETTLED", "RELEASED", "FORFEITED"} => holds[s].status # "NONE"
      /\ p.reason # "NONE" => HasCause(s, p.reason)
  BY <1>1, <1>a, <1>b DEF WorkInv, CareInv
<1>3. /\ work[w].balance \in [Users -> Int] /\ work[w].held \in [Users -> Int]
      /\ sessions[s].requester \in Users /\ sessions[s].provider \in Users
  BY <1>1, <1>2 DEF TypeOK, Work, SessionInv, HasParties
<1>4. /\ Post(s, p, sessions[s].requester, sessions[s].provider,
              work[w].balance, work[w].held)
      /\ UNCHANGED <<sessions, related, evaluations, events, notifications, suspended, now>>
      /\ IF req[w].op = "checkout" THEN Continue(w, "complete") ELSE ResolveNext(w)
  BY <1>a, <1>b DEF CommitPosting
<1>5. /\ LedgerTypeOK'
      /\ \A t \in SessionIds \ {s} : holds'[t] = holds[t] /\ ledger'[t] = ledger[t]
      /\ holds'[s].status = IF p.hold = "KEEP" THEN holds[s].status ELSE p.hold
      /\ \/ p.reason = "NONE" /\ ledger'[s] = ledger[s]
         \/ p.reason # "NONE"
            /\ ledger'[s] = Append(ledger[s], [reason |-> p.reason, amount |-> p.payee])
  <2>1. PICK b, h \in [Users -> Int] : b = work[w].balance /\ h = work[w].held
    BY <1>3
  <2>2. PICK payer, payee \in Users :
            payer = sessions[s].requester /\ payee = sessions[s].provider
    BY <1>3
  <2>3. Post(s, p, payer, payee, b, h)
    BY <1>4, <2>1, <2>2
  <2> QED
    BY <1>1, <2>3, PostType
<1>6. p.hold \in {"KEEP", "HELD", "SETTLED", "RELEASED", "FORFEITED"}
  BY DEF Posting, PointHoldStatus
<1>7. now' \in Time /\ now <= now'
  BY <1>1, <1>4, CareAssumption DEF TypeOK, Time
<1>8. Kept
  <2>1. ASSUME NEW t \in SessionIds, holds[t].status # "NONE" PROVE holds'[t].status # "NONE"
    BY <1>5, <1>6, <2>1
  <2> QED
    BY <1>4, <1>7, <2>1 DEF Kept, Later, Exists
<1>9. SessionInv(s)'
  <2>1. holds'[s].status # "NONE" => Pair(sessions[s]) \in related /\ Accepted(s)
    BY <1>2, <1>5, <1>6 DEF SessionInv
  <2>2. \A i \in DOMAIN ledger'[s] : HasCause(s, ledger'[s][i].reason)
    <3>1. ledger[s] \in Seq(PointTransaction)
      BY <1>1, <1>2 DEF TypeOK, LedgerTypeOK
    <3>2. \A i \in DOMAIN ledger[s] : HasCause(s, ledger[s][i].reason)
      BY <1>2 DEF SessionInv
    <3>3. CASE ledger'[s] = ledger[s]
      BY <3>2, <3>3
    <3>4. CASE p.reason # "NONE"
               /\ ledger'[s] = Append(ledger[s], [reason |-> p.reason, amount |-> p.payee])
      BY <1>2, <3>1, <3>2, <3>4
    <3> QED
      BY <1>5, <3>3, <3>4
  <2>3. \A why : HasCause(s, why) => HasCause(s, why)'
    BY <1>4 DEF HasCause
  <2> QED
    BY <1>2, <1>4, <2>1, <2>2, <2>3 DEF SessionInv, Exists, HasParties, Pair, Accepted
<1>10. ASSUME NEW t \in SessionIds, t # s PROVE SessionInv(t)'
  BY <1>1, <1>4, <1>5, <1>7, <1>8, <1>10, KeptSession DEF CareInv
<1>11. /\ pc' \in [Workers -> Steps] /\ req' \in [Workers -> Request]
       /\ todo' \in [Workers -> SUBSET SessionIds] /\ work' \in [Workers -> Work]
       /\ Others(w) /\ WorkerInv(w)'
  <2>1. CASE req[w].op = "checkout"
    BY <1>4, <1>7, <1>8, <2>1, CompleteNext
  <2>2. CASE req[w].op # "checkout"
    <3>1. \A t \in todo[w] : Exists(t)' /\ sessions'[t].cancelled_at # None
      BY <1>1, <1>4 DEF StepInv, Exists
    <3> QED
      BY <1>1, <1>4, <1>7, <1>8, <2>2, <3>1, ResolveNextInv
  <2> QED
    BY <2>1, <2>2
<1>12. TypeOK'
  BY <1>1, <1>4, <1>5, <1>7, <1>11 DEF TypeOK
<1>13. \A t \in SessionIds : SessionInv(t)'
  BY <1>9, <1>10
<1> QED
  BY <1>8, <1>11, <1>12, <1>13, Moved

(* The commit of the completion event keeps the invariant.                 *)
LEMMA CompleteCommit ==
    ASSUME CareInv, NEW w \in Workers, CommitComplete(w)
    PROVE  CareInv'
<1>1. /\ TypeOK /\ StepInv(w) /\ pc[w] = "complete"
      /\ req[w].op = "checkout" /\ req[w].op \in SessionOps
  BY DEF CareInv, StepInv, CommitComplete, SessionOps
<1>2. PICK s \in SessionIds : s = req[w].session
  BY <1>1, OnSession
<1>3. PICK u \in Users : u = req[w].row.requester
  BY <1>1, OnSession DEF HasParties
<1>4. /\ log("SESSION_COMPLETED", s) /\ notify({u}, "SESSION_COMPLETED", s) /\ Finish(w)
      /\ UNCHANGED <<balance, held_balance, holds, ledger, sessions, related,
                     evaluations, suspended, now>>
  BY <1>2, <1>3 DEF CommitComplete, ledgerVars
<1>5. /\ events' \subseteq Event /\ events \subseteq events'
      /\ notifications' \subseteq Notification
  BY <1>1, <1>4, LogNotifyType DEF EventType, NotificationType
<1>6. Kept /\ now' \in Time /\ \A t \in SessionIds : SessionInv(t)'
  BY <1>4, <1>5, NothingWritten
<1>7. TypeOK'
  BY <1>1, <1>4, <1>5, <1>6, FinishInv DEF TypeOK, LedgerTypeOK
<1> QED
  BY <1>1, <1>4, <1>6, <1>7, FinishInv, Moved

-----------------------------------------------------------------------------
(* The invariant.                                                          *)

(* Time passing, or nothing happening, takes nothing back.                 *)
LEMMA NothingMoves ==
    ASSUME CareInv, now' \in Time, now <= now', UNCHANGED <<dbVars, workerVars>>
    PROVE  CareInv'
<1>1. /\ TypeOK
      /\ UNCHANGED <<balance, held_balance, holds, ledger, sessions, related,
                     evaluations, events, notifications, suspended, pc, req, todo, work>>
  BY DEF CareInv, dbVars, ledgerVars, workerVars
<1>2. Kept
  BY <1>1 DEF Kept, Later, Exists
<1>3. \A s \in SessionIds : SessionInv(s)'
  BY <1>1, <1>2, KeptSession DEF CareInv
<1>4. \A w \in Workers : WorkerInv(w)'
  BY <1>1, <1>2, KeptWorker DEF CareInv, WorkerInv
<1>5. TypeOK'
  BY <1>1 DEF TypeOK, LedgerTypeOK
<1> QED
  BY <1>3, <1>4, <1>5 DEF CareInv, WorkerInv

(* The invariant holds initially.                                          *)
LEMMA InitInv == Init => CareInv
<1> SUFFICES ASSUME Init PROVE CareInv
  OBVIOUS
<1>1. LedgerTypeOK
  <2>1. NoHold \in PointHold
    BY DEF NoHold, PointHold
  <2> QED
    BY <2>1, LedgerAssumption DEF Init, LedgerInit, LedgerTypeOK
<1>2. now \in Time
  BY CareAssumption DEF Init, Time
<1>3. related \subseteq SUBSET Users
  BY CareAssumption DEF Init
<1>4. TypeOK
  BY <1>1, <1>2, <1>3, IdleType DEF Init, TypeOK, Steps
<1>5. ASSUME NEW s \in SessionIds PROVE SessionInv(s)
  BY DEF Init, LedgerInit, SessionInv, Exists, NoRow, NoHold
<1>6. ASSUME NEW w \in Workers PROVE RequestInv(w) /\ StepInv(w) /\ WorkInv(w)
  BY CareAssumption
     DEF Init, RequestInv, Reliable, StepInv, WorkInv, NoRequest, SessionOps
<1> QED
  BY <1>4, <1>5, <1>6 DEF CareInv

(* The call of a handler keeps the invariant.                              *)
LEMMA CallInv ==
    ASSUME CareInv, NEW w \in Workers, Call(w)
    PROVE  CareInv'
BY CreateRequest, Accept, Reject, Checkin, Checkout, Cancel, ReportNoShow,
   EmergencySuspend, SubmitEvaluation DEF Call

(* Each further step of a request keeps the invariant.                     *)
LEMMA ProceedInv ==
    ASSUME CareInv, NEW w \in Workers, Proceed(w)
    PROVE  CareInv'
<1>1. CASE CommitCreate(w)
  BY <1>1, CreateCommit
<1>2. CASE CommitAcceptNew(w)
  BY <1>2, AcceptNewCommit
<1>3. CASE CommitAccept(w)
  BY <1>3, AcceptCommit
<1>4. CASE CommitReject(w)
  BY <1>4, RejectCommit
<1>5. CASE CommitCheckin(w)
  BY <1>5, CheckinCommit
<1>6. CASE CommitCheckout(w)
  BY <1>6, CheckoutCommit
<1>7. CASE CommitCancel(w)
  BY <1>7, CancelCommit
<1>8. CASE CommitNoShow(w)
  BY <1>8, NoShowCommit
<1>9. CASE CommitSuspend(w)
  BY <1>9, SuspendCommit
<1>10. CASE CommitEvaluation(w)
  BY <1>10, EvaluationCommit
<1>11. CASE ReadHold(w)
  BY <1>11, HoldRead
<1>12. CASE ReadResolve(w)
  BY <1>12, ResolveRead
<1>13. CASE ReadSettle(w)
  BY <1>13, SettleRead
<1>14. CASE CommitPosting(w)
  BY <1>14, PostingCommit
<1>15. CASE CommitComplete(w)
  BY <1>15, CompleteCommit
<1>16. CASE Refused(w)
  BY <1>16, FinishOnly DEF Refused
<1> QED
  BY <1>1, <1>2, <1>3, <1>4, <1>5, <1>6, <1>7, <1>8, <1>9, <1>10, <1>11, <1>12,
     <1>13, <1>14, <1>15, <1>16 DEF Proceed

(* Every step keeps the invariant.                                         *)
LEMMA NextInv == CareInv /\ [Next]_vars => CareInv'
<1> SUFFICES ASSUME CareInv, [Next]_vars PROVE CareInv'
  OBVIOUS
<1>1. ASSUME NEW w \in Workers, Call(w) PROVE CareInv'
  BY <1>1, CallInv
<1>2. ASSUME NEW w \in Workers, Proceed(w) PROVE CareInv'
  BY <1>2, ProceedInv
<1>3. ASSUME NEW w \in Workers, Fail(w) PROVE CareInv'
  BY <1>3, FinishOnly DEF Fail
<1>4. CASE Tick
  <2>1. now < MaxTime /\ now' = now + 1 /\ now \in Time
    BY <1>4 DEF Tick, CareInv, TypeOK
  <2>2. now' \in Time /\ now <= now'
    BY <2>1, CareAssumption DEF Time
  <2> QED
    BY <1>4, <2>2, NothingMoves DEF Tick
<1>5. CASE UNCHANGED vars
  <2>1. now' = now /\ now \in Time /\ UNCHANGED <<dbVars, workerVars>>
    BY <1>5 DEF vars, CareInv, TypeOK
  <2>2. now' \in Time /\ now <= now'
    BY <2>1, CareAssumption DEF Time
  <2> QED
    BY <2>1, <2>2, NothingMoves
<1> QED
  BY <1>1, <1>2, <1>3, <1>4, <1>5 DEF Next

(* However many requests are in flight together and wherever one stops,    *)
(* what each of them has read and still relies on, and what each session's *)
(* row, hold and ledger say of each other, stays true.                     *)
THEOREM CareInvariantHolds == Spec => []CareInv
BY InitInv, NextInv, PTL DEF Spec

(* Every table and every request in flight holds values of its type.       *)
THEOREM TypesHold == Spec => []TypeOK
<1>1. CareInv => TypeOK
  BY DEF CareInv
<1> QED
  BY <1>1, CareInvariantHolds, PTL

(* Points are held, and care is checked in, only between users with a      *)
(* trust relationship, whatever requests overlap: accept commits the       *)
(* relationship no later than the status, and check-in and the hold come   *)
(* after it.                                                               *)
THEOREM CareNeedsRelationship == Spec => []CareOnlyBetweenRelated
<1>1. CareInv => CareOnlyBetweenRelated
  BY DEF CareInv, SessionInv, CareOnlyBetweenRelated
<1> QED
  BY <1>1, CareInvariantHolds, PTL

(* Every ledger transaction has its cause on record, whatever requests     *)
(* overlap: a settlement a check-out, a penalty a cancellation or no-show  *)
(* with a party at fault of a session that was accepted.                   *)
THEOREM LedgerIsCaused == Spec => []LedgerHasCause
<1>1. CareInv => LedgerHasCause
  BY DEF CareInv, SessionInv, LedgerHasCause
<1> QED
  BY <1>1, CareInvariantHolds, PTL

-----------------------------------------------------------------------------
(* What happens to a hold.                                                 *)

HoldKept(s) ==
    holds[s].status # "NONE"
        => /\ holds'[s].amount = holds[s].amount
           /\ holds'[s].status = "HELD" => holds[s].status = "HELD"
           /\ holds'[s].status # "NONE"

(* Only the commit of a posting writes holds.                              *)
LEMMA HoldsWritten ==
    ASSUME Next
    PROVE  holds' = holds \/ \E w \in Workers : CommitPosting(w)
<1>1. ASSUME NEW w \in Workers, Call(w) PROVE holds' = holds
  <2>1. \A r, unresolved : Start(w, r, unresolved) => holds' = holds
    BY DEF Start, dbVars, ledgerVars
  <2>2. ASSUME NEW u \in Users, NEW v \in Users, NEW start \in 0..NumSlots,
               NEW end \in 0..NumSlots, create_request(w, u, v, start, end)
        PROVE  holds' = holds
    BY <2>1, <2>2 DEF create_request
  <2>3. ASSUME NEW u \in Users, NEW s \in SessionIds,
               \/ accept(w, u, s) \/ reject(w, u, s) \/ checkin(w, u, s)
               \/ checkout(w, u, s) \/ cancel(w, u, s) \/ report_no_show(w, u, s)
               \/ submit_evaluation(w, u, s)
        PROVE  holds' = holds
    BY <2>1, <2>3 DEF accept, reject, checkin, checkout, cancel, report_no_show,
                      submit_evaluation
  <2>4. ASSUME NEW u \in Users, emergency_suspend(w, u) PROVE holds' = holds
    BY <2>1, <2>4 DEF emergency_suspend
  <2> QED
    BY <1>1, <2>2, <2>3, <2>4 DEF Call
<1>2. ASSUME NEW w \in Workers, Proceed(w), ~CommitPosting(w) PROVE holds' = holds
  <2>1. CASE CommitCreate(w) \/ CommitAcceptNew(w) \/ CommitAccept(w) \/ CommitReject(w)
    BY <2>1 DEF CommitCreate, CommitAcceptNew, CommitAccept, CommitReject, ledgerVars
  <2>2. CASE CommitCheckin(w) \/ CommitCheckout(w) \/ CommitEvaluation(w) \/ CommitComplete(w)
    BY <2>2 DEF CommitCheckin, CommitCheckout, CommitEvaluation, CommitComplete, ledgerVars
  <2>3. CASE CommitCancel(w) \/ CommitNoShow(w) \/ CommitSuspend(w)
    BY <2>3 DEF CommitCancel, CommitNoShow, CommitSuspend, ledgerVars
  <2>4. CASE ReadHold(w) \/ ReadResolve(w) \/ ReadSettle(w) \/ Refused(w)
    BY <2>4 DEF ReadHold, ReadResolve, ReadSettle, Refused, dbVars, ledgerVars
  <2> QED
    BY <1>2, <2>1, <2>2, <2>3, <2>4 DEF Proceed
<1>3. ASSUME NEW w \in Workers, Fail(w) PROVE holds' = holds
  BY <1>3 DEF Fail, dbVars, ledgerVars
<1>4. CASE Tick
  BY <1>4 DEF Tick, dbVars, ledgerVars
<1> QED
  BY <1>1, <1>2, <1>3, <1>4 DEF Next

(* A posting never reopens or replaces a hold.                             *)
LEMMA PostingKeepsHold ==
    ASSUME CareInv, NEW w \in Workers, CommitPosting(w), NEW s \in SessionIds
    PROVE  HoldKept(s)
<1>1. TypeOK /\ WorkInv(w) /\ pc[w] = "post"
  BY DEF CareInv, CommitPosting
<1>2. PICK t \in SessionIds : t = work[w].session
  BY <1>1 DEF WorkInv
<1>3. PICK p \in Posting : p = work[w].posting
  BY <1>1 DEF TypeOK, Work
<1>4. PICK b, h \in [Users -> Int] : b = work[w].balance /\ h = work[w].held
  BY <1>1 DEF TypeOK, Work
<1>5. HasParties(sessions[t])
  BY <1>1, <1>2 DEF WorkInv, CareInv, SessionInv
<1>6. PICK payer, payee \in Users :
          payer = sessions[t].requester /\ payee = sessions[t].provider
  BY <1>5 DEF HasParties
<1>7. Post(t, p, payer, payee, b, h)
  BY <1>2, <1>3, <1>4, <1>6 DEF CommitPosting
<1>8. /\ \A u \in SessionIds \ {t} : holds'[u] = holds[u]
      /\ holds'[t].status = IF p.hold = "KEEP" THEN holds[t].status ELSE p.hold
      /\ holds'[t].amount = IF p.hold = "HELD" THEN p.amount ELSE holds[t].amount
      /\ p.hold = "HELD" => holds[t].status = "NONE"
  BY <1>1, <1>7, PostType
<1>9. p.hold # "NONE"
  BY DEF Posting, PointHoldStatus
<1> QED
  BY <1>8, <1>9 DEF HoldKept

(* A hold, once resolved, is never HELD again, and no hold is replaced or  *)
(* deleted, whatever requests overlap: point_holds.care_session_id is      *)
(* unique, and resolving writes a final status.                            *)
THEOREM HoldsAreFinal == Spec => HoldNeverReopened
<1>1. CareInv /\ [Next]_vars => [\A s \in SessionIds : HoldKept(s)]_vars
  <2> SUFFICES ASSUME CareInv, Next, NEW s \in SessionIds PROVE HoldKept(s)
    OBVIOUS
  <2>1. CASE holds' = holds
    BY <2>1 DEF HoldKept
  <2>2. CASE \E w \in Workers : CommitPosting(w)
    BY <2>2, PostingKeepsHold
  <2> QED
    BY <2>1, <2>2, HoldsWritten
<1>2. [\A s \in SessionIds : HoldKept(s)]_vars
      <=> [\A s \in SessionIds :
              holds[s].status # "NONE"
                  => /\ holds'[s].amount = holds[s].amount
                     /\ holds'[s].status = "HELD" => holds[s].status = "HELD"
                     /\ holds'[s].status # "NONE"]_vars
  BY DEF HoldKept
<1> QED
  BY <1>1, <1>2, CareInvariantHolds, PTL DEF Spec, HoldNeverReopened
=============================================================================
