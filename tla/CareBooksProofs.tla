--------------------------- MODULE CareBooksProofs ---------------------------
(***************************************************************************)
(* Theorems about the books of CareSession when requests come one at a     *)
(* time, each free to stop between two of its transactions: no step        *)
(* creates or loses points.                                                *)
(*                                                                         *)
(* The argument: a posting is committed on the balances it was computed    *)
(* from (CareSerialInv), its deltas add up to nothing, and only one        *)
(* summand of each sum changes.                                            *)
(***************************************************************************)
EXTENDS CareBooks, CareSerialProofs, WellFoundedInduction

-----------------------------------------------------------------------------
(* Sums.                                                                   *)

(* A set of numbers that is not empty has a least one.                     *)
LEMMA Least ==
    ASSUME NEW T \in SUBSET Nat, T # {}
    PROVE  \E k \in T : \A j \in T : k <= j
<1>1. PICK k \in T : \A j \in T : <<j, k>> \notin OpToRel(<, Nat)
  BY WFMin, NatLessThanWellFounded
<1>2. ASSUME NEW j \in T PROVE k <= j
  <2>1. ~(j < k)
    BY <1>1 DEF OpToRel
  <2> QED
    BY <2>1
<1> QED
  BY <1>2

(* t[k] is the sum of the first k numbers of v.                            *)
Totals(t, v, n) ==
    /\ t \in [0..n -> Int] /\ t[0] = 0
    /\ \A k \in 1..n : t[k] = t[k - 1] + v[k]

(* There are such sums.                                                    *)
LEMMA TotalsExist ==
    ASSUME NEW n \in Nat, NEW v \in [1..n -> Int]
    PROVE  \E t : Totals(t, v, n)
<1> DEFINE T == {k \in 0..n : ~ \E t : Totals(t, v, k)}
<1>1. SUFFICES ASSUME T # {} PROVE FALSE
  <2>1. n \in 0..n
    OBVIOUS
  <2> QED
    BY <2>1
<1>2. T \in SUBSET Nat
  OBVIOUS
<1>3. PICK k \in T : \A j \in T : k <= j
  <2> HIDE DEF T
  <2> QED
    BY <1>1, <1>2, Least
<1>4. CASE k = 0
  <2>1. Totals([j \in 0..0 |-> 0], v, 0)
    BY DEF Totals
  <2> QED
    BY <1>3, <1>4, <2>1
<1>5. CASE k # 0
  <2>1. k \in 1..n /\ k - 1 \in 0..n /\ ~(k <= k - 1)
    BY <1>3, <1>5
  <2>2. k - 1 \notin T
    BY <1>3, <2>1
  <2>3. PICK t : Totals(t, v, k - 1)
    BY <2>1, <2>2
  <2>4. PICK u : u = [j \in 0..k |-> IF j = k THEN t[k - 1] + v[k] ELSE t[j]]
    OBVIOUS
  <2>5. /\ t \in [0..(k - 1) -> Int] /\ t[0] = 0
        /\ \A j \in 1..(k - 1) : t[j] = t[j - 1] + v[j]
    BY <2>3 DEF Totals
  <2>6. u \in [0..k -> Int]
    <3>1. t[k - 1] + v[k] \in Int
      BY <2>1, <2>5
    <3>2. \A j \in 0..k : j # k => t[j] \in Int
      BY <2>1, <2>5
    <3> QED
      BY <2>4, <3>1, <3>2
  <2>7. u[0] = 0
    BY <2>1, <2>4, <2>5
  <2>8. ASSUME NEW j \in 1..k PROVE u[j] = u[j - 1] + v[j]
    <3>1. CASE j = k
      BY <2>1, <2>4, <3>1
    <3>2. CASE j # k
      <4>1. j \in 1..(k - 1) /\ j \in 0..k /\ j - 1 \in 0..k /\ j - 1 # k
        BY <2>1, <2>8, <3>2
      <4> QED
        BY <2>4, <2>5, <3>2, <4>1
    <3> QED
      BY <3>1, <3>2
  <2>9. Totals(u, v, k)
    BY <2>6, <2>7, <2>8 DEF Totals
  <2> QED
    BY <1>3, <2>9
<1> QED
  BY <1>4, <1>5

(* SumTo is the last of them.                                              *)
LEMMA SumToTotal ==
    ASSUME NEW n \in Nat, NEW v \in [1..n -> Int]
    PROVE  \E t : Totals(t, v, n) /\ SumTo(v, n) = t[n]
<1> DEFINE Def(t) == t = [k \in 0..n |-> IF k = 0 THEN 0 ELSE t[k - 1] + v[k]]
           total == CHOOSE t : Def(t)
<1>1. \E t : Def(t)
  <2>1. PICK t : Totals(t, v, n)
    BY TotalsExist
  <2>2. Def(t)
    BY <2>1 DEF Totals
  <2> QED
    BY <2>2
<1>2. Def(total)
  BY <1>1
<1>3. SumTo(v, n) = total[n]
  BY DEF SumTo
<1> HIDE DEF total
<1>4. ASSUME NEW k \in 0..n
      PROVE  total[k] = IF k = 0 THEN 0 ELSE total[k - 1] + v[k]
  BY <1>2
<1>5. \A k \in 0..n : total[k] \in Int
  <2> DEFINE T == {k \in 0..n : total[k] \notin Int}
  <2>1. SUFFICES ASSUME T # {} PROVE FALSE
    OBVIOUS
  <2>2. T \in SUBSET Nat
    OBVIOUS
  <2>3. PICK k \in T : \A j \in T : k <= j
    <3> HIDE DEF T
    <3> QED
      BY <2>1, <2>2, Least
  <2>4. k # 0
    BY <1>4, <2>3
  <2>5. k - 1 \in 0..n /\ ~(k <= k - 1) /\ k \in 1..n
    BY <2>3, <2>4
  <2>6. total[k - 1] \in Int /\ v[k] \in Int
    BY <2>3, <2>5
  <2>7. total[k] \in Int
    BY <1>4, <2>4, <2>5, <2>6
  <2> QED
    BY <2>3, <2>7
<1>6. Totals(total, v, n)
  <2>1. total \in [0..n -> Int]
    <3>1. total = [k \in 0..n |-> total[k]]
      BY <1>2
    <3> QED
      BY <1>5, <3>1
  <2>2. total[0] = 0
    BY <1>4
  <2>3. \A k \in 1..n : total[k] = total[k - 1] + v[k]
    BY <1>4
  <2> QED
    BY <2>1, <2>2, <2>3 DEF Totals
<1> QED
  BY <1>3, <1>6

(* A sum of integers is one.                                               *)
LEMMA SumType ==
    ASSUME NEW n \in Nat, NEW v \in [1..n -> Int]
    PROVE  SumTo(v, n) \in Int
BY SumToTotal DEF Totals

(* Only one summand changes: so does the sum.                              *)
LEMMA SumChanges ==
    ASSUME NEW n \in Nat, NEW v \in [1..n -> Int], NEW u \in [1..n -> Int],
           NEW i \in 1..n, \A k \in 1..n : k # i => u[k] = v[k]
    PROVE  SumTo(u, n) = SumTo(v, n) + (u[i] - v[i])
<1>1. PICK a : Totals(a, v, n) /\ SumTo(v, n) = a[n]
  BY SumToTotal
<1>2. PICK b : Totals(b, u, n) /\ SumTo(u, n) = b[n]
  BY SumToTotal
<1>3. /\ a \in [0..n -> Int] /\ a[0] = 0 /\ \A k \in 1..n : a[k] = a[k - 1] + v[k]
      /\ b \in [0..n -> Int] /\ b[0] = 0 /\ \A k \in 1..n : b[k] = b[k - 1] + u[k]
  BY <1>1, <1>2 DEF Totals
<1>4. \A k \in 0..n : b[k] = a[k] + (IF k < i THEN 0 ELSE u[i] - v[i])
  <2> DEFINE T == {k \in 0..n : b[k] # a[k] + (IF k < i THEN 0 ELSE u[i] - v[i])}
  <2>1. SUFFICES ASSUME T # {} PROVE FALSE
    OBVIOUS
  <2>2. T \in SUBSET Nat
    OBVIOUS
  <2>3. PICK k \in T : \A j \in T : k <= j
    <3> HIDE DEF T
    <3> QED
      BY <2>1, <2>2, Least
  <2>4. k # 0
    BY <1>3, <2>3
  <2>5. k - 1 \in 0..n /\ ~(k <= k - 1) /\ k \in 1..n
    BY <2>3, <2>4
  <2>6. b[k - 1] = a[k - 1] + (IF k - 1 < i THEN 0 ELSE u[i] - v[i])
    BY <2>3, <2>5
  <2>7. b[k] = b[k - 1] + u[k] /\ a[k] = a[k - 1] + v[k]
    BY <1>3, <2>5
  <2>8. /\ a[k - 1] \in Int /\ b[k - 1] \in Int /\ u[k] \in Int /\ v[k] \in Int
        /\ u[i] \in Int /\ v[i] \in Int
    BY <1>3, <2>5
  <2>9. b[k] = a[k] + (IF k < i THEN 0 ELSE u[i] - v[i])
    <3>1. CASE k < i
      BY <2>5, <2>6, <2>7, <2>8, <3>1
    <3>2. CASE k = i
      <4>1. k - 1 < i /\ ~(k < i)
        BY <2>5, <3>2
      <4>2. b[k - 1] = a[k - 1]
        BY <2>6, <2>8, <4>1
      <4> QED
        BY <2>7, <2>8, <3>2, <4>1, <4>2
    <3>3. CASE k > i
      <4>1. ~(k - 1 < i) /\ ~(k < i) /\ u[k] = v[k]
        BY <2>5, <3>3
      <4>2. b[k - 1] = a[k - 1] + (u[i] - v[i])
        BY <2>6, <4>1
      <4> QED
        BY <2>7, <2>8, <4>1, <4>2
    <3> QED
      BY <2>5, <3>1, <3>2, <3>3
  <2> QED
    BY <2>3, <2>9
<1>5. n \in 0..n /\ ~(n < i)
  OBVIOUS
<1> QED
  BY <1>1, <1>2, <1>4, <1>5

(* A sum of nothing, and of one number.                                    *)
LEMMA SmallSums ==
    /\ \A v \in [1..0 -> Int] : SumTo(v, 0) = 0
    /\ \A v \in [1..1 -> Int] : SumTo(v, 1) = v[1]
<1>1. ASSUME NEW v \in [1..0 -> Int] PROVE SumTo(v, 0) = 0
  BY SumToTotal DEF Totals
<1>2. ASSUME NEW v \in [1..1 -> Int] PROVE SumTo(v, 1) = v[1]
  <2>1. PICK t : Totals(t, v, 1) /\ SumTo(v, 1) = t[1]
    BY SumToTotal
  <2>2. t[1] = t[1 - 1] + v[1] /\ t[0] = 0 /\ 1 - 1 = 0 /\ v[1] \in Int
    BY <2>1 DEF Totals
  <2> QED
    BY <2>1, <2>2
<1> QED
  BY <1>1, <1>2

(* A sum of zeros is zero.                                                 *)
LEMMA SumOfZeros ==
    ASSUME NEW n \in Nat, NEW v \in [1..n -> Int], \A k \in 1..n : v[k] = 0
    PROVE  SumTo(v, n) = 0
<1>1. PICK a : Totals(a, v, n) /\ SumTo(v, n) = a[n]
  BY SumToTotal
<1>2. /\ a[0] = 0 /\ \A k \in 1..n : a[k] = a[k - 1] + v[k]
  BY <1>1 DEF Totals
<1>3. \A k \in 0..n : a[k] = 0
  <2> DEFINE T == {k \in 0..n : a[k] # 0}
  <2>1. SUFFICES ASSUME T # {} PROVE FALSE
    OBVIOUS
  <2>2. T \in SUBSET Nat
    OBVIOUS
  <2>3. PICK k \in T : \A j \in T : k <= j
    <3> HIDE DEF T
    <3> QED
      BY <2>1, <2>2, Least
  <2>4. k - 1 \in 0..n /\ ~(k <= k - 1) /\ k \in 1..n
    BY <1>2, <2>3
  <2>5. a[k - 1] = 0 /\ v[k] = 0
    BY <2>3, <2>4
  <2> QED
    BY <1>2, <2>3, <2>4, <2>5
<1>4. n \in 0..n
  OBVIOUS
<1> QED
  BY <1>1, <1>3, <1>4

-----------------------------------------------------------------------------
(* What each step does to the parties of sessions and to the accounts.     *)

(* Only a posting writes accounts, holds and entries.                      *)
LEMMA LedgerWritten ==
    ASSUME [Next]_vars
    PROVE  UNCHANGED ledgerVars \/ \E w \in Workers : CommitPosting(w)
<1>1. ASSUME NEW w \in Workers, Call(w) PROVE UNCHANGED ledgerVars
  <2>1. \A r, unresolved : Start(w, r, unresolved) => UNCHANGED ledgerVars
    BY DEF Start, dbVars
  <2>2. ASSUME NEW u \in Users, NEW v \in Users, NEW start \in 0..NumSlots,
               NEW end \in 0..NumSlots, create_request(w, u, v, start, end)
        PROVE  UNCHANGED ledgerVars
    BY <2>1, <2>2 DEF create_request
  <2>3. ASSUME NEW u \in Users, NEW s \in SessionIds,
               \/ accept(w, u, s) \/ reject(w, u, s) \/ checkin(w, u, s)
               \/ checkout(w, u, s) \/ cancel(w, u, s) \/ report_no_show(w, u, s)
               \/ submit_evaluation(w, u, s)
        PROVE  UNCHANGED ledgerVars
    BY <2>1, <2>3 DEF accept, reject, checkin, checkout, cancel, report_no_show,
                      submit_evaluation
  <2>4. ASSUME NEW u \in Users, emergency_suspend(w, u) PROVE UNCHANGED ledgerVars
    BY <2>1, <2>4 DEF emergency_suspend
  <2> QED
    BY <1>1, <2>2, <2>3, <2>4 DEF Call
<1>2. ASSUME NEW w \in Workers, Proceed(w), ~CommitPosting(w) PROVE UNCHANGED ledgerVars
  <2>1. CASE CommitCreate(w) \/ CommitAcceptNew(w) \/ CommitAccept(w) \/ CommitReject(w)
    BY <2>1 DEF CommitCreate, CommitAcceptNew, CommitAccept, CommitReject
  <2>2. CASE CommitCheckin(w) \/ CommitCheckout(w) \/ CommitEvaluation(w) \/ CommitComplete(w)
    BY <2>2 DEF CommitCheckin, CommitCheckout, CommitEvaluation, CommitComplete
  <2>3. CASE CommitCancel(w) \/ CommitNoShow(w) \/ CommitSuspend(w)
    BY <2>3 DEF CommitCancel, CommitNoShow, CommitSuspend
  <2>4. CASE ReadHold(w) \/ ReadResolve(w) \/ ReadSettle(w) \/ Refused(w)
    BY <2>4 DEF ReadHold, ReadResolve, ReadSettle, Refused, dbVars
  <2> QED
    BY <1>2, <2>1, <2>2, <2>3, <2>4 DEF Proceed
<1>3. ASSUME NEW w \in Workers, Fail(w) PROVE UNCHANGED ledgerVars
  BY <1>3 DEF Fail, dbVars
<1>4. CASE Tick \/ UNCHANGED vars
  BY <1>4 DEF Tick, vars, dbVars
<1> QED
  BY <1>1, <1>2, <1>3, <1>4 DEF Next

SameParties(s) ==
    /\ sessions'[s].requester = sessions[s].requester
    /\ sessions'[s].provider = sessions[s].provider

(* Writing a status, a time or the end of a session keeps its parties.     *)
LEMMA PartiesKept ==
    ASSUME CareInv, NEW w \in Workers, NEW s \in SessionIds,
           \/ CommitAcceptNew(w) \/ CommitAccept(w) \/ CommitReject(w) \/ CommitCheckin(w)
           \/ CommitCheckout(w) \/ CommitCancel(w) \/ CommitNoShow(w) \/ CommitSuspend(w)
    PROVE  SameParties(s)
<1>1. PICK old \in Row : old = sessions[s]
  BY DEF CareInv, TypeOK
<1>2. ASSUME NEW x, NEW new,
             sessions' = sessions \/ sessions' = [sessions EXCEPT ![x] = new],
             x = s => new.requester = old.requester /\ new.provider = old.provider
      PROVE  SameParties(s)
  BY <1>1, <1>2 DEF SameParties, CareInv, TypeOK
<1>3. CASE CommitAcceptNew(w) \/ CommitAccept(w) \/ CommitReject(w)
  <2>1. PICK x, status : \/ sessions' = sessions
                         \/ sessions' = [sessions EXCEPT ![x].status = status]
    BY <1>3 DEF CommitAcceptNew, CommitAccept, CommitReject
  <2>2. PICK new : new = [sessions[x] EXCEPT !.status = status]
    OBVIOUS
  <2>3. sessions' = sessions \/ sessions' = [sessions EXCEPT ![x] = new]
    BY <2>1, <2>2
  <2>4. x = s => new.requester = old.requester /\ new.provider = old.provider
    BY <1>1, <2>2 DEF Row
  <2> QED
    BY <1>2, <2>3, <2>4
<1>4. CASE CommitCheckin(w)
  <2>1. PICK x, at : sessions' = [sessions EXCEPT ![x].checkin_at = at]
    BY <1>4 DEF CommitCheckin
  <2>2. PICK new : new = [sessions[x] EXCEPT !.checkin_at = at]
    OBVIOUS
  <2>3. sessions' = [sessions EXCEPT ![x] = new]
    BY <2>1, <2>2
  <2>4. x = s => new.requester = old.requester /\ new.provider = old.provider
    BY <1>1, <2>2 DEF Row
  <2> QED
    BY <1>2, <2>3, <2>4
<1>5. CASE CommitCheckout(w)
  <2>1. PICK x, at, spent :
            sessions' = [sessions EXCEPT ![x] = CheckedOut(sessions[x], at, spent)]
    BY <1>5 DEF CommitCheckout
  <2>2. PICK new : new = CheckedOut(sessions[x], at, spent)
    OBVIOUS
  <2>3. sessions' = [sessions EXCEPT ![x] = new]
    BY <2>1, <2>2
  <2>4. x = s => new = [old EXCEPT !.checkout_at = at, !.actual = spent]
    BY <1>1, <2>2 DEF CheckedOut
  <2>5. x = s => new.requester = old.requester /\ new.provider = old.provider
    BY <2>4 DEF Row
  <2> QED
    BY <1>2, <2>3, <2>5
<1>6. CASE CommitCancel(w) \/ CommitNoShow(w)
  <2>1. PICK x, status, at, fault :
            sessions' = [sessions EXCEPT ![x] = Closed(sessions[x], status, at, fault)]
    <3>1. CASE CommitCancel(w)
      BY <3>1 DEF CommitCancel
    <3>2. CASE CommitNoShow(w)
      BY <3>2 DEF CommitNoShow
    <3> QED
      BY <1>6, <3>1, <3>2
  <2>2. PICK new : new = Closed(sessions[x], status, at, fault)
    OBVIOUS
  <2>3. sessions' = [sessions EXCEPT ![x] = new]
    BY <2>1, <2>2
  <2>4. x = s => new.requester = old.requester /\ new.provider = old.provider
    BY <1>1, <2>2 DEF Closed
  <2> QED
    BY <1>2, <2>3, <2>4
<1>7. CASE CommitSuspend(w)
  <2>1. \/ sessions'[s] = sessions[s]
        \/ \E at, fault : sessions'[s] = Closed(sessions[s], "CANCELLED", at, fault)
    BY <1>7 DEF CommitSuspend
  <2>2. \A at, fault :
            /\ Closed(sessions[s], "CANCELLED", at, fault).requester = sessions[s].requester
            /\ Closed(sessions[s], "CANCELLED", at, fault).provider = sessions[s].provider
    BY DEF Closed
  <2> QED
    BY <2>1, <2>2 DEF SameParties
<1> QED
  BY <1>3, <1>4, <1>5, <1>6, <1>7

(* Only the commit of a new session writes the parties of one.             *)
LEMMA PartiesWritten ==
    ASSUME CareInv, [Next]_vars
    PROVE  \/ \A s \in SessionIds : SameParties(s)
           \/ \E w \in Workers : CommitCreate(w)
<1>1. \A w, r, t : Start(w, r, t) => sessions' = sessions
  BY DEF Start, dbVars
<1>2. ASSUME NEW w \in Workers, Call(w) PROVE sessions' = sessions
  <2>1. ASSUME NEW u \in Users, NEW v \in Users, NEW start \in 0..NumSlots,
               NEW end \in 0..NumSlots, create_request(w, u, v, start, end)
        PROVE  sessions' = sessions
    BY <1>1, <2>1 DEF create_request
  <2>2. ASSUME NEW u \in Users, NEW t \in SessionIds,
               \/ accept(w, u, t) \/ reject(w, u, t) \/ checkin(w, u, t)
               \/ checkout(w, u, t) \/ cancel(w, u, t) \/ report_no_show(w, u, t)
               \/ submit_evaluation(w, u, t)
        PROVE  sessions' = sessions
    BY <1>1, <2>2 DEF accept, reject, checkin, checkout, cancel, report_no_show,
                      submit_evaluation
  <2>3. ASSUME NEW u \in Users, emergency_suspend(w, u) PROVE sessions' = sessions
    BY <1>1, <2>3 DEF emergency_suspend
  <2> QED
    BY <1>2, <2>1, <2>2, <2>3 DEF Call
<1>3. ASSUME NEW w \in Workers, Fail(w) \/ Refused(w) \/ ReadHold(w) \/ ReadResolve(w)
                               \/ ReadSettle(w)
      PROVE  sessions' = sessions
  BY <1>3 DEF Fail, Refused, ReadHold, ReadResolve, ReadSettle, dbVars
<1>4. ASSUME NEW w \in Workers, CommitEvaluation(w) \/ CommitPosting(w) \/ CommitComplete(w)
      PROVE  sessions' = sessions
  BY <1>4 DEF CommitEvaluation, CommitPosting, CommitComplete
<1>5. CASE Tick \/ UNCHANGED vars
  BY <1>5 DEF Tick, vars, dbVars, SameParties
<1>6. sessions' = sessions => \A s \in SessionIds : SameParties(s)
  BY DEF SameParties
<1>7. ASSUME NEW w \in Workers, Proceed(w)
      PROVE  (\A s \in SessionIds : SameParties(s)) \/ CommitCreate(w)
  BY <1>3, <1>4, <1>6, <1>7, PartiesKept DEF Proceed
<1> QED
  BY <1>2, <1>3, <1>5, <1>6, <1>7 DEF Next

(* A request in flight keeps what it has read until it ends.               *)
LEMMA RequestsStay ==
    ASSUME TypeOK, NEW w \in Workers, Proceed(w) \/ Fail(w), NEW v \in Workers
    PROVE  req'[v] = req[v] \/ req'[v] = NoRequest
<1>1. Finish(w) => req'[v] = req[v] \/ req'[v] = NoRequest
  BY DEF Finish, TypeOK
<1>2. \A step : Continue(w, step) => req'[v] = req[v]
  BY DEF Continue
<1>3. \A s, p, rest : Prepare(w, s, p, rest) => req'[v] = req[v]
  BY DEF Prepare
<1>4. ResolveNext(w) => req'[v] = req[v] \/ req'[v] = NoRequest
  BY <1>1, <1>2 DEF ResolveNext
<1>5. CASE CommitCreate(w) \/ CommitReject(w) \/ CommitCheckin(w) \/ CommitEvaluation(w)
           \/ CommitComplete(w) \/ Refused(w) \/ Fail(w)
  BY <1>1, <1>5 DEF CommitCreate, CommitReject, CommitCheckin, CommitEvaluation,
                    CommitComplete, Refused, Fail
<1>6. CASE CommitAcceptNew(w) \/ CommitAccept(w) \/ CommitCheckout(w)
  BY <1>2, <1>6 DEF CommitAcceptNew, CommitAccept, CommitCheckout
<1>7. CASE CommitCancel(w) \/ CommitNoShow(w) \/ CommitSuspend(w)
  BY <1>4, <1>7 DEF CommitCancel, CommitNoShow, CommitSuspend
<1>8. CASE ReadHold(w)
  BY <1>1, <1>3, <1>8 DEF ReadHold
<1>9. CASE ReadResolve(w)
  BY <1>1, <1>3, <1>9 DEF ReadResolve
<1>10. CASE ReadSettle(w)
  BY <1>1, <1>2, <1>3, <1>10 DEF ReadSettle
<1>11. CASE CommitPosting(w)
  BY <1>2, <1>4, <1>11 DEF CommitPosting
<1> QED
  BY <1>5, <1>6, <1>7, <1>8, <1>9, <1>10, <1>11 DEF Proceed

(* A new request is between two users, who cannot be one: one needs care   *)
(* in the slots in which the other is free.                                *)
LEMMA RequestsApart ==
    ASSUME CareInv, NEW w \in Workers, Call(w), TwoParties, NEW v \in Workers,
           req'[v].op \in {"create", "rematch"}
    PROVE  req'[v].row.requester # req'[v].row.provider
<1>1. ASSUME NEW a \in Users, NEW b \in Users, NEW start \in 0..NumSlots,
             NEW end \in 0..NumSlots, create_request(w, a, b, start, end)
      PROVE  req'[v].row.requester # req'[v].row.provider
  <2>1. PICK schedule : Complementary(schedule, a, b, start, end) /\ start < end
    BY <1>1 DEF create_request
  <2>2. start \in start..(end - 1)
    BY <2>1
  <2>3. a # b
    BY <2>1, <2>2 DEF Complementary
  <2>4. req'[v] = req[v] \/ req'[v].row = NewRow(a, b, start, end)
    BY <1>1 DEF create_request, Start, CareInv, TypeOK
  <2>5. NewRow(a, b, start, end).requester = a /\ NewRow(a, b, start, end).provider = b
    BY DEF NewRow
  <2> QED
    BY <2>3, <2>4, <2>5 DEF TwoParties
<1>2. ASSUME NEW op, op \notin {"create", "rematch"}, NEW a, NEW s, NEW late, NEW t,
             Start(w, Ask(op, a, s, late), t)
      PROVE  req'[v].row.requester # req'[v].row.provider
  <2>1. req'[v] = req[v] \/ req'[v].op = op
    BY <1>2 DEF Start, Ask, CareInv, TypeOK
  <2> QED
    BY <1>2, <2>1 DEF TwoParties
<1>3. ASSUME NEW a \in Users, NEW s \in SessionIds,
             \/ accept(w, a, s) \/ reject(w, a, s) \/ checkin(w, a, s)
             \/ checkout(w, a, s) \/ cancel(w, a, s) \/ report_no_show(w, a, s)
             \/ submit_evaluation(w, a, s)
      PROVE  req'[v].row.requester # req'[v].row.provider
  <2>1. \E op \in SessionOps : \E late, t : Start(w, Ask(op, a, s, late), t)
    BY <1>3 DEF accept, reject, checkin, checkout, cancel, report_no_show,
                submit_evaluation, SessionOps
  <2> QED
    BY <1>2, <2>1 DEF SessionOps
<1>4. ASSUME NEW a \in Users, emergency_suspend(w, a)
      PROVE  req'[v].row.requester # req'[v].row.provider
  <2>1. req'[v] = req[v] \/ req'[v].op = "suspend"
    BY <1>4 DEF emergency_suspend, Start, CareInv, TypeOK
  <2> QED
    BY <2>1 DEF TwoParties
<1> QED
  BY <1>1, <1>3, <1>4 DEF Call

(* Nobody is ever on both sides.                                           *)
LEMMA TwoPartiesNext ==
    ASSUME CareInv, [Next]_vars, TwoParties, CareInv'
    PROVE  TwoParties'
<1>1. ASSUME NEW v \in Workers, req'[v].op \in {"create", "rematch"}
      PROVE  req'[v].row.requester # req'[v].row.provider
  <2>1. CASE \E w \in Workers : Call(w)
    BY <1>1, <2>1, RequestsApart
  <2>2. CASE \E w \in Workers : Proceed(w) \/ Fail(w)
    <3>1. req'[v] = req[v] \/ req'[v] = NoRequest
      BY <2>2, RequestsStay DEF CareInv
    <3> QED
      BY <1>1, <3>1 DEF TwoParties, NoRequest
  <2>3. CASE Tick \/ UNCHANGED vars
    BY <1>1, <2>3 DEF Tick, vars, workerVars, TwoParties
  <2> QED
    BY <2>1, <2>2, <2>3 DEF Next
<1>2. ASSUME NEW s \in SessionIds, Exists(s)'
      PROVE  sessions'[s].requester # sessions'[s].provider
  <2>1. CASE \A t \in SessionIds : SameParties(t)
    <3>1. CASE Exists(s)
      BY <2>1, <3>1 DEF SameParties, TwoParties
    <3>2. CASE ~Exists(s)
      <4>1. sessions[s].requester = None /\ HasParties(sessions'[s])
        BY <1>2, <3>2 DEF CareInv, SessionInv, NoRow, HasParties, Exists
      <4> QED
        BY <2>1, <4>1, CareAssumption DEF SameParties, HasParties
    <3> QED
      BY <3>1, <3>2
  <2>2. ASSUME NEW w \in Workers, CommitCreate(w)
        PROVE  sessions'[s].requester # sessions'[s].provider
    <3>1. sessions'[s] = sessions[s] \/ sessions'[s] = req[w].row
      BY <2>2 DEF CommitCreate, CareInv, TypeOK
    <3> QED
      BY <1>2, <2>2, <3>1 DEF TwoParties, CommitCreate, Doing, Exists
  <2> QED
    BY <2>1, <2>2, PartiesWritten
<1> QED
  BY <1>1, <1>2 DEF TwoParties

-----------------------------------------------------------------------------
(* The sums over the sessions.                                             *)

(* The summands are integers.                                              *)
LEMMA SummandTypes ==
    ASSUME TypeOK, NEW u \in Users
    PROVE  /\ \A s \in SessionIds : HeldFor(u, s) \in Int /\ EntriesOf(u, s) \in Int
           /\ [s \in SessionIds |-> HeldFor(u, s)] \in [1..MaxSessions -> Int]
           /\ [s \in SessionIds |-> EntriesOf(u, s)] \in [1..MaxSessions -> Int]
<1>1. ASSUME NEW s \in SessionIds PROVE HeldFor(u, s) \in Int
  BY DEF TypeOK, LedgerTypeOK, PointHold, HeldFor
<1>2. ASSUME NEW s \in SessionIds PROVE EntriesOf(u, s) \in Int
  <2>1. PICK q \in Seq(PointTransaction) : q = ledger[s]
    BY DEF TypeOK, LedgerTypeOK
  <2>2. Len(q) \in Nat /\ DOMAIN q = 1..Len(q) /\ \A i \in DOMAIN q : q[i] \in PointTransaction
    <3>1. \A r \in Seq(PointTransaction) :
              Len(r) \in Nat /\ DOMAIN r = 1..Len(r) /\ \A i \in DOMAIN r : r[i] \in PointTransaction
      OBVIOUS
    <3> QED
      BY <3>1
  <2>3. \A i \in DOMAIN q : Entry(u, s, q[i]) \in Int
    BY <2>2 DEF Entry, PointTransaction
  <2>4. PICK v : v = [i \in DOMAIN q |-> Entry(u, s, q[i])]
    OBVIOUS
  <2>5. v \in [1..Len(q) -> Int]
    BY <2>2, <2>3, <2>4
  <2>6. SumTo(v, Len(q)) \in Int
    BY <2>2, <2>5, SumType
  <2> QED
    BY <2>1, <2>4, <2>6 DEF EntriesOf
<1> QED
  BY <1>1, <1>2 DEF SessionIds

(* The entries of a session without any, of one with one, and of one that  *)
(* gets none.                                                              *)
LEMMA NoEntries ==
    ASSUME NEW u, NEW s, ledger[s] = <<>>
    PROVE  EntriesOf(u, s) = 0
<1>1. PICK v : v = [i \in DOMAIN ledger[s] |-> Entry(u, s, ledger[s][i])]
  OBVIOUS
<1>2. DOMAIN ledger[s] = 1..0 /\ Len(ledger[s]) = 0
  OBVIOUS
<1>3. v \in [1..0 -> Int]
  BY <1>1, <1>2
<1> QED
  BY <1>1, <1>2, <1>3, SmallSums DEF EntriesOf

LEMMA OneEntry ==
    ASSUME NEW u, NEW s, NEW tx, ledger'[s] = Append(<<>>, tx), tx.amount \in Int
    PROVE  EntriesOf(u, s)' = Entry(u, s, tx)'
<1>1. PICK q : q = ledger'[s]
  OBVIOUS
<1>2. DOMAIN q = 1..1 /\ Len(q) = 1 /\ q[1] = tx
  BY <1>1, FirstEntry
<1>3. PICK x : x = Entry(u, s, tx)'
  OBVIOUS
<1>4. PICK v : v = [i \in DOMAIN q |-> Entry(u, s, q[i])']
  OBVIOUS
<1>5. x \in Int
  BY <1>3 DEF Entry
<1>6. v \in [1..1 -> Int] /\ v[1] = x
  BY <1>2, <1>3, <1>4, <1>5
<1>7. SumTo(v, 1) = x
  BY <1>6, SmallSums
<1>8. EntriesOf(u, s)' = SumTo(v, Len(q))
  BY <1>1, <1>4 DEF EntriesOf
<1> QED
  BY <1>2, <1>3, <1>7, <1>8

LEMMA EntriesSame ==
    ASSUME NEW u, NEW s, ledger'[s] = ledger[s],
           SameParties(s) \/ ledger[s] = <<>>
    PROVE  EntriesOf(u, s)' = EntriesOf(u, s)
<1>1. ASSUME NEW i \in DOMAIN ledger[s]
      PROVE  Entry(u, s, ledger[s][i])' = Entry(u, s, ledger[s][i])
  BY <1>1 DEF Entry, SameParties
<1>2. [i \in DOMAIN ledger[s] |-> Entry(u, s, ledger[s][i])]'
          = [i \in DOMAIN ledger[s] |-> Entry(u, s, ledger[s][i])]
  BY <1>1
<1> QED
  BY <1>2 DEF EntriesOf

(* The books stay as they are when accounts, holds and entries do, and     *)
(* only a session without a hold and without entries changes parties.      *)
LEMMA BooksSame ==
    ASSUME HeldIsBacked, BooksBalance, UNCHANGED ledgerVars,
           \A s \in SessionIds :
               SameParties(s) \/ (holds[s].status = "NONE" /\ ledger[s] = <<>>)
    PROVE  HeldIsBacked' /\ BooksBalance'
<1>1. UNCHANGED <<balance, held_balance, holds, ledger>>
  BY DEF ledgerVars
<1>2. ASSUME NEW u \in Users, NEW s \in SessionIds PROVE HeldFor(u, s)' = HeldFor(u, s)
  BY <1>1 DEF HeldFor, SameParties
<1>3. ASSUME NEW u \in Users, NEW s \in SessionIds PROVE EntriesOf(u, s)' = EntriesOf(u, s)
  BY <1>1, EntriesSame
<1>4. ASSUME NEW u \in Users
      PROVE  /\ [s \in SessionIds |-> HeldFor(u, s)]' = [s \in SessionIds |-> HeldFor(u, s)]
             /\ [s \in SessionIds |-> EntriesOf(u, s)]' = [s \in SessionIds |-> EntriesOf(u, s)]
  BY <1>2, <1>3, <1>4
<1>5. HeldIsBacked'
  BY <1>1, <1>4 DEF HeldIsBacked
<1>6. BooksBalance'
  BY <1>1, <1>4 DEF BooksBalance
<1> QED
  BY <1>5, <1>6

(* A posting changes two accounts by its deltas, when the balances it was  *)
(* computed from are still those of the accounts.                          *)
LEMMA PostDeltas ==
    ASSUME TypeOK, NEW s, NEW p \in Posting, NEW payer \in Users, NEW payee \in Users,
           payer # payee, Post(s, p, payer, payee, balance, held_balance), NEW u \in Users
    PROVE  /\ balance'[u] = balance[u] + (IF u = payer THEN p.payer
                                         ELSE IF u = payee THEN p.payee ELSE 0)
           /\ held_balance'[u] = held_balance[u] + (IF u = payer THEN p.held ELSE 0)
<1>1. balance \in [Users -> Int] /\ held_balance \in [Users -> Int]
  BY DEF TypeOK, LedgerTypeOK
<1>2. p.payer \in Int /\ p.payee \in Int /\ p.held \in Int
  BY DEF Posting
<1>3. \A x \in Int, d \in Int : Written(x, d, x) = x + d
  BY DEF Written
<1>4. PICK debited : debited = [balance EXCEPT ![payer] =
                                    Written(balance[payer], p.payer, balance[payer])]
  OBVIOUS
<1>5. balance' = [debited EXCEPT ![payee] = Written(balance[payee], p.payee, debited[payee])]
  BY <1>4 DEF Post
<1>6. held_balance' = [held_balance EXCEPT ![payer] =
                           Written(held_balance[payer], p.held, held_balance[payer])]
  BY DEF Post
<1>7. Written(balance[payer], p.payer, balance[payer]) = balance[payer] + p.payer
  BY <1>1, <1>2, <1>3
<1>8. /\ debited \in [Users -> Int] /\ debited[payer] = balance[payer] + p.payer
      /\ \A x \in Users \ {payer} : debited[x] = balance[x]
  BY <1>1, <1>2, <1>4, <1>7
<1>9. /\ balance'[payee] = Written(balance[payee], p.payee, debited[payee])
      /\ \A x \in Users \ {payee} : balance'[x] = debited[x]
  BY <1>5, <1>8
<1>10. balance'[payee] = balance[payee] + p.payee
  BY <1>1, <1>2, <1>3, <1>8, <1>9
<1>11. \A x \in Users \ {payer, payee} : balance'[x] = balance[x]
  BY <1>8, <1>9
<1>12. held_balance'[u] = held_balance[u] + (IF u = payer THEN p.held ELSE 0)
  <2>1. Written(held_balance[payer], p.held, held_balance[payer]) = held_balance[payer] + p.held
    BY <1>1, <1>2, <1>3
  <2>2. held_balance' = [held_balance EXCEPT ![payer] = held_balance[payer] + p.held]
    BY <1>6, <2>1
  <2>3. held_balance[u] \in Int
    BY <1>1
  <2> QED
    BY <1>1, <2>2, <2>3
<1> QED
  BY <1>1, <1>8, <1>9, <1>10, <1>11, <1>12

(* The deltas of a posting the serial invariant allows: those of the       *)
(* balances and of held_balance add up to nothing, the entry is what the   *)
(* payee gets, and held_balance follows the hold.                          *)
LEMMA DecidedBalanced ==
    ASSUME CareInv, NEW w, NEW s \in SessionIds, NEW p \in Posting, Decided(w, s, p),
           HasParties(sessions[s])
    PROVE  /\ p.payer + p.held + p.payee = 0
           /\ p.reason = "NONE" => p.payee = 0
           /\ p.hold = "KEEP" => p.held = 0
           /\ p.hold = "HELD" => holds[s].status = "NONE" /\ p.held = p.amount
           /\ p.hold \notin {"KEEP", "HELD"} =>
                  holds[s].status = "HELD" /\ p.held = -holds[s].amount
<1>1. PICK hold \in PointHold : hold = holds[s]
  BY DEF CareInv, TypeOK, LedgerTypeOK
<1>2. PICK row \in Row : row = sessions[s]
  BY DEF CareInv, TypeOK
<1>3. PICK cared \in Nat : cared = CaredSlots(row)
  BY FullSlot DEF CaredSlots, Row
<1>4. PICK booked \in Nat : booked = BookedSlots(row)
  BY <1>2 DEF BookedSlots, Row, HasParties
<1>5. hold.amount \in Nat
  BY DEF PointHold
<1>6. CASE hold.status = "NONE" /\ p = create_hold(booked)
  BY <1>1, <1>6 DEF create_hold
<1>7. CASE hold.status = "HELD" /\ p = settle_hold(hold, cared)
  BY <1>1, <1>5, <1>7 DEF settle_hold
<1>8. CASE p = _transfer(cared)
  BY <1>8 DEF _transfer
<1>9. CASE hold.status = "HELD" /\ p = _release_hold(hold)
  BY <1>1, <1>5, <1>9 DEF _release_hold
<1>10. ASSUME NEW why \in Reasons, hold.status = "HELD", p = _forfeit_hold(hold, why)
       PROVE  /\ p.payer + p.held + p.payee = 0
              /\ p.reason = "NONE" => p.payee = 0
              /\ p.hold = "KEEP" => p.held = 0
              /\ p.hold = "HELD" => holds[s].status = "NONE" /\ p.held = p.amount
              /\ p.hold \notin {"KEEP", "HELD"} =>
                     holds[s].status = "HELD" /\ p.held = -holds[s].amount
  BY <1>1, <1>5, <1>10 DEF _forfeit_hold, Reasons
<1>11. \/ p = _release_hold(hold) \/ \E why \in Reasons : p = _forfeit_hold(hold, why)
       \/ p # Resolution(w, s)
  BY <1>1 DEF Resolution, resolve_hold_on_cancel, resolve_hold_on_no_show, Reasons
<1> QED
  BY <1>1, <1>2, <1>3, <1>4, <1>6, <1>7, <1>8, <1>9, <1>10, <1>11
     DEF Decided, Accepting, Untouched

(* A posting changes one summand of each sum, by what it changes in the    *)
(* accounts.                                                               *)
LEMMA PostingBalances ==
    ASSUME CareInv, CareInv', CareSerialInv, TwoParties, HeldIsBacked, BooksBalance,
           NEW w \in Workers, CommitPosting(w)
    PROVE  HeldIsBacked' /\ BooksBalance'
<1>1. PICK s \in SessionIds : s = work[w].session
  BY DEF CommitPosting, CareInv, WorkInv
<1>2. PICK p \in Posting : p = work[w].posting
  BY DEF CareInv, TypeOK, Work
<1>3. /\ pc[w] = "post" /\ Decided(w, s, p) /\ HasParties(sessions[s]) /\ sessions' = sessions
      /\ work[w].balance = balance /\ work[w].held = held_balance
      /\ sessions[s].requester # sessions[s].provider
      /\ TypeOK /\ TypeOK' /\ SessionFits(s)
  BY <1>1, <1>2 DEF CommitPosting, CareSerialInv, PostFits, CareInv, WorkInv, SessionInv,
                    TwoParties
<1>4. PICK payer, payee \in Users : payer = sessions[s].requester /\ payee = sessions[s].provider
  BY <1>3 DEF HasParties
<1>5. Post(s, p, payer, payee, balance, held_balance) /\ payer # payee
  BY <1>1, <1>2, <1>3, <1>4 DEF CommitPosting
<1>6. /\ \A t \in SessionIds \ {s} : holds'[t] = holds[t] /\ ledger'[t] = ledger[t]
      /\ holds'[s].status = IF p.hold = "KEEP" THEN holds[s].status ELSE p.hold
      /\ holds'[s].amount = IF p.hold = "HELD" THEN p.amount ELSE holds[s].amount
      /\ \/ p.reason = "NONE" /\ ledger'[s] = ledger[s]
         \/ p.reason # "NONE"
            /\ ledger'[s] = Append(ledger[s], [reason |-> p.reason, amount |-> p.payee])
  <2>1. balance \in [Users -> Int] /\ held_balance \in [Users -> Int]
    BY <1>3 DEF TypeOK, LedgerTypeOK
  <2> QED
    BY <1>3, <1>5, <2>1, PostType
<1>7. /\ p.payer + p.held + p.payee = 0
      /\ p.reason = "NONE" => p.payee = 0
      /\ p.hold = "KEEP" => p.held = 0
      /\ p.hold = "HELD" => holds[s].status = "NONE" /\ p.held = p.amount
      /\ p.hold \notin {"KEEP", "HELD"} =>
             holds[s].status = "HELD" /\ p.held = -holds[s].amount
  BY <1>3, DecidedBalanced
<1>8. ledger[s] = <<>>
  BY <1>3, HeldUnpaid DEF Decided, Accepting, CheckingOut, Untouched
<1>9. /\ p.payer \in Int /\ p.payee \in Int /\ p.held \in Int /\ p.amount \in Int
      /\ holds[s].amount \in Int /\ MaxSessions \in Nat
  BY <1>3, LedgerAssumption DEF Posting, TypeOK, LedgerTypeOK, PointHold
<1>10. ASSUME NEW u \in Users
       PROVE  /\ held_balance'[u] = SumTo([t \in SessionIds |-> HeldFor(u, t)], MaxSessions)'
              /\ balance'[u] + held_balance'[u]
                     = SEED_POINTS + SumTo([t \in SessionIds |-> EntriesOf(u, t)], MaxSessions)'
  <2>1. /\ balance'[u] = balance[u] + (IF u = payer THEN p.payer
                                       ELSE IF u = payee THEN p.payee ELSE 0)
        /\ held_balance'[u] = held_balance[u] + (IF u = payer THEN p.held ELSE 0)
    BY <1>3, <1>5, PostDeltas
  <2>2. PICK h, g, e, d :
            /\ h = [t \in SessionIds |-> HeldFor(u, t)]
            /\ g = [t \in SessionIds |-> HeldFor(u, t)']
            /\ e = [t \in SessionIds |-> EntriesOf(u, t)]
            /\ d = [t \in SessionIds |-> EntriesOf(u, t)']
    OBVIOUS
  <2>3. h \in [1..MaxSessions -> Int] /\ e \in [1..MaxSessions -> Int]
    BY <1>3, <2>2, SummandTypes
  <2>4. ASSUME NEW t \in SessionIds, t # s PROVE g[t] = h[t] /\ d[t] = e[t]
    <3>1. ledger'[t] = ledger[t] /\ sessions' = sessions /\ holds'[t] = holds[t]
      BY <1>3, <1>6, <2>4
    <3>2. HeldFor(u, t)' = HeldFor(u, t)
      BY <3>1 DEF HeldFor
    <3>3. EntriesOf(u, t)' = EntriesOf(u, t)
      BY <3>1, EntriesSame DEF SameParties
    <3> QED
      BY <2>2, <3>2, <3>3
  <2>5. g[s] = h[s] + IF u = payer THEN p.held ELSE 0
    <3>1. HeldFor(u, s)' = HeldFor(u, s) + IF u = payer THEN p.held ELSE 0
      <4>1. u = payer <=> sessions[s].requester = u
        BY <1>4
      <4>2. CASE p.hold = "KEEP"
        <5>1. HeldFor(u, s)' = HeldFor(u, s) /\ HeldFor(u, s) \in Int /\ p.held = 0
          BY <1>3, <1>6, <1>7, <1>9, <4>2 DEF HeldFor
        <5> QED
          BY <5>1
      <4>3. CASE p.hold = "HELD"
        BY <1>3, <1>6, <1>7, <1>9, <4>1, <4>3 DEF HeldFor
      <4>4. CASE p.hold \notin {"KEEP", "HELD"}
        BY <1>3, <1>6, <1>7, <1>9, <4>1, <4>4 DEF HeldFor
      <4> QED
        BY <4>2, <4>3, <4>4
    <3> QED
      BY <2>2, <3>1
  <2>6. /\ e[s] = 0
        /\ d[s] = IF u = payer THEN -p.payee ELSE IF u = payee THEN p.payee ELSE 0
    <3>1. EntriesOf(u, s) = 0
      BY <1>8, NoEntries
    <3>2. CASE p.reason = "NONE"
      <4>1. ledger'[s] = ledger[s] /\ p.payee = 0
        BY <1>6, <1>7, <3>2
      <4>2. EntriesOf(u, s)' = EntriesOf(u, s)
        BY <1>3, <4>1, EntriesSame DEF SameParties
      <4>3. e[s] = 0 /\ d[s] = 0
        BY <2>2, <3>1, <4>2
      <4>4. -p.payee = 0 - p.payee
        BY <1>9
      <4>5. 0 - p.payee = 0
        BY <4>1
      <4> QED
        BY <4>1, <4>3, <4>4, <4>5
    <3>3. CASE p.reason # "NONE"
      <4>1. PICK tx : tx = [reason |-> p.reason, amount |-> p.payee]
        OBVIOUS
      <4>2. ledger'[s] = Append(<<>>, tx) /\ tx.amount = p.payee
        BY <1>6, <1>8, <3>3, <4>1
      <4>3. EntriesOf(u, s)' = Entry(u, s, tx)'
        BY <1>9, <4>2, OneEntry
      <4>4. Entry(u, s, tx)' = IF u = payer THEN -p.payee ELSE IF u = payee THEN p.payee ELSE 0
        BY <1>3, <1>4, <4>2 DEF Entry
      <4> QED
        BY <2>2, <3>1, <4>3, <4>4
    <3> QED
      BY <3>2, <3>3
  <2>7. s \in 1..MaxSessions /\ \A k \in 1..MaxSessions : k # s => g[k] = h[k] /\ d[k] = e[k]
    BY <2>4 DEF SessionIds
  <2>8. g \in [1..MaxSessions -> Int] /\ d \in [1..MaxSessions -> Int]
    <3>1. h[s] \in Int /\ g[s] \in Int /\ d[s] \in Int
      BY <1>9, <2>3, <2>5, <2>6, <2>7
    <3>2. \A k \in 1..MaxSessions : g[k] \in Int /\ d[k] \in Int
      BY <2>3, <2>7, <3>1
    <3>3. g = [k \in 1..MaxSessions |-> g[k]] /\ d = [k \in 1..MaxSessions |-> d[k]]
      BY <2>2 DEF SessionIds
    <3> QED
      BY <3>2, <3>3
  <2>9. /\ SumTo(g, MaxSessions) = SumTo(h, MaxSessions) + (g[s] - h[s])
        /\ SumTo(d, MaxSessions) = SumTo(e, MaxSessions) + (d[s] - e[s])
    BY <1>9, <2>3, <2>7, <2>8, SumChanges
  <2>10. /\ SumTo([t \in SessionIds |-> HeldFor(u, t)], MaxSessions)' = SumTo(g, MaxSessions)
         /\ SumTo([t \in SessionIds |-> EntriesOf(u, t)], MaxSessions)' = SumTo(d, MaxSessions)
    BY <2>2
  <2>11. /\ held_balance[u] = SumTo(h, MaxSessions)
         /\ balance[u] + held_balance[u] = SEED_POINTS + SumTo(e, MaxSessions)
    BY <2>2 DEF HeldIsBacked, BooksBalance
  <2>12. PICK x, y \in Int : x = SumTo(h, MaxSessions) /\ y = SumTo(e, MaxSessions)
    BY <1>9, <2>3, SumType
  <2>13. balance[u] \in Int /\ SEED_POINTS \in Int /\ h[s] \in Int
    BY <1>3, <2>3, <2>7, LedgerAssumption DEF TypeOK, LedgerTypeOK
  <2>14. SumTo(g, MaxSessions) = x + IF u = payer THEN p.held ELSE 0
    BY <1>9, <2>5, <2>9, <2>12, <2>13
  <2>15. SumTo(d, MaxSessions) = y + IF u = payer THEN -p.payee
                                     ELSE IF u = payee THEN p.payee ELSE 0
    BY <1>9, <2>6, <2>9, <2>12
  <2>16. balance[u] + x = SEED_POINTS + y /\ held_balance[u] = x
    BY <2>11, <2>12
  <2>17. held_balance'[u] = SumTo(g, MaxSessions)
    BY <2>1, <2>14, <2>16
  <2>18. balance'[u] + held_balance'[u] = SEED_POINTS + SumTo(d, MaxSessions)
    <3>1. CASE u = payer
      BY <1>7, <1>9, <2>1, <2>12, <2>13, <2>15, <2>16, <3>1
    <3>2. CASE u # payer /\ u = payee
      BY <1>9, <2>1, <2>12, <2>13, <2>15, <2>16, <3>2
    <3>3. CASE u # payer /\ u # payee
      BY <2>1, <2>12, <2>13, <2>15, <2>16, <3>3
    <3> QED
      BY <3>1, <3>2, <3>3
  <2> QED
    BY <2>10, <2>17, <2>18
<1>11. HeldIsBacked'
  BY <1>10 DEF HeldIsBacked
<1>12. BooksBalance'
  BY <1>10 DEF BooksBalance
<1> QED
  BY <1>11, <1>12

-----------------------------------------------------------------------------
(* The books, from the first state on.                                     *)

LEMMA BooksInit ==
    ASSUME Init
    PROVE  BooksInv
<1>1. TwoParties
  BY DEF Init, TwoParties, Exists, NoRow, NoRequest
<1>2. MaxSessions \in Nat /\ SEED_POINTS \in Nat
  BY LedgerAssumption
<1>3. ASSUME NEW u \in Users
      PROVE  /\ held_balance[u] = 0 /\ balance[u] = SEED_POINTS
             /\ SumTo([s \in SessionIds |-> HeldFor(u, s)], MaxSessions) = 0
             /\ SumTo([s \in SessionIds |-> EntriesOf(u, s)], MaxSessions) = 0
  <2>1. held_balance[u] = 0 /\ balance[u] = SEED_POINTS
    BY DEF Init, LedgerInit
  <2>2. \A s \in SessionIds : HeldFor(u, s) = 0
    BY DEF Init, LedgerInit, NoHold, HeldFor
  <2>3. \A s \in SessionIds : ledger[s] = <<>>
    BY DEF Init, LedgerInit
  <2>4. \A s \in SessionIds : EntriesOf(u, s) = 0
    BY <2>3, NoEntries
  <2>5. PICK h, e : /\ h = [s \in SessionIds |-> HeldFor(u, s)]
                    /\ e = [s \in SessionIds |-> EntriesOf(u, s)]
    OBVIOUS
  <2>6. /\ h \in [1..MaxSessions -> Int] /\ e \in [1..MaxSessions -> Int]
        /\ \A k \in 1..MaxSessions : h[k] = 0 /\ e[k] = 0
    BY <2>2, <2>4, <2>5 DEF SessionIds
  <2>7. SumTo(h, MaxSessions) = 0 /\ SumTo(e, MaxSessions) = 0
    BY <1>2, <2>6, SumOfZeros
  <2> QED
    BY <2>1, <2>5, <2>7
<1>4. HeldIsBacked
  BY <1>3 DEF HeldIsBacked
<1>5. BooksBalance
  BY <1>2, <1>3 DEF BooksBalance
<1> QED
  BY <1>1, <1>4, <1>5 DEF BooksInv

LEMMA BooksNext ==
    ASSUME CareInv, CareInv', CareSerialInv, BooksInv, [Next]_vars
    PROVE  BooksInv'
<1>1. TwoParties'
  BY TwoPartiesNext DEF BooksInv
<1>2. CASE \E w \in Workers : CommitPosting(w)
  <2>1. HeldIsBacked' /\ BooksBalance'
    BY <1>2, PostingBalances DEF BooksInv
  <2> QED
    BY <1>1, <2>1 DEF BooksInv
<1>3. CASE UNCHANGED ledgerVars
  <2>1. ASSUME NEW w \in Workers, CommitCreate(w), NEW s \in SessionIds
        PROVE  SameParties(s) \/ (holds[s].status = "NONE" /\ ledger[s] = <<>>)
    <3>1. PICK t \in SessionIds : IsNext(t) /\ sessions' = [sessions EXCEPT ![t] = req[w].row]
      BY <2>1 DEF CommitCreate
    <3>2. CASE s = t
      BY <3>1, <3>2 DEF IsNext, CareInv, SessionInv
    <3>3. CASE s # t
      BY <3>1, <3>3 DEF SameParties, CareInv, TypeOK
    <3> QED
      BY <3>2, <3>3
  <2>2. \A s \in SessionIds :
            SameParties(s) \/ (holds[s].status = "NONE" /\ ledger[s] = <<>>)
    BY <2>1, PartiesWritten
  <2>3. HeldIsBacked' /\ BooksBalance'
    BY <1>3, <2>2, BooksSame DEF BooksInv
  <2> QED
    BY <1>1, <2>3 DEF BooksInv
<1> QED
  BY <1>2, <1>3, LedgerWritten

-----------------------------------------------------------------------------
(* The books balance in every reachable state, for any number of users and *)
(* sessions, when requests come one at a time.                             *)
THEOREM BooksInvariantHolds ==
    ASSUME Serial
    PROVE  Spec => []BooksInv
<1>1. Init => BooksInv
  BY BooksInit
<1>2. BooksInv /\ (CareInv /\ CareSerialInv) /\ (CareInv /\ CareSerialInv)' /\ [Next]_vars
          => BooksInv'
  BY BooksNext
<1>3. Spec => [](CareInv /\ CareSerialInv)
  BY CareSerialInvariantHolds
<1> QED
  BY <1>1, <1>2, <1>3, PTL DEF Spec

(* One request at a time finds, in every transaction, what its earlier     *)
(* ones have read and left, and the rows of each session agree.            *)
THEOREM SerialInvariantHolds ==
    ASSUME Serial
    PROVE  Spec => []SerialInv
<1>1. CareSerialInv /\ BooksInv => SerialInv
  BY DEF BooksInv, SerialInv
<1> QED
  BY <1>1, BooksInvariantHolds, CareSerialInvariantHolds, PTL

(* held_balance is the sum of the holds that are still HELD, wherever the  *)
(* handlers stop.                                                          *)
THEOREM HoldsBackHeldBalance ==
    ASSUME Serial
    PROVE  Spec => []HeldIsBacked
<1>1. BooksInv => HeldIsBacked
  BY DEF BooksInv
<1> QED
  BY <1>1, BooksInvariantHolds, PTL

(* No handler, wherever it stops, creates or loses points: what a user     *)
(* owns is the seed and the user's entries in the ledger.                  *)
THEOREM PointsAreConserved ==
    ASSUME Serial
    PROVE  Spec => []BooksBalance
<1>1. BooksInv => BooksBalance
  BY DEF BooksInv
<1> QED
  BY <1>1, BooksInvariantHolds, PTL
=============================================================================
