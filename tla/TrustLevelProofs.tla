-------------------------- MODULE TrustLevelProofs --------------------------
(***************************************************************************)
(* Theorems about TrustLevel, for any number of users, joint sessions and  *)
(* requests in flight together.                                            *)
(*                                                                         *)
(* The argument: joint sessions only move on (Kept), so that the number of *)
(* those a pair has completed never falls.  What a request has read is     *)
(* therefore a lower bound of what it will find when it commits.           *)
(*                                                                         *)
(* The second part is about requests that come one at a time, each free to *)
(* stop between two of its transactions: while one is in flight nothing    *)
(* else is written, so that the level, the count and the settings it has   *)
(* read are still those of the database when it commits.                   *)
(***************************************************************************)
EXTENDS TrustSerialInvariant, FiniteSetTheorems, TLAPS

-----------------------------------------------------------------------------
(* Types of the building blocks.                                           *)

(* The local state a worker starts from and returns to is well typed.      *)
LEMMA IdleType == NoRequest \in Request
BY DEF NoRequest, Request, Unseen, Levels, TrustLevels

(* The two users of a pair.                                                *)
LEMMA PairMembers ==
    ASSUME NEW p \in Pairs
    PROVE  /\ p \subseteq Users
           /\ \E u \in Users : u \in p
BY DEF Pairs

(* What get_or_create has read is a count for every user.                  *)
LEMMA SeenType ==
    ASSUME TypeOK, NEW p \in SUBSET Users, NEW seen \in [Users -> Nat]
    PROVE  SeenNow(p, seen) \in [Users -> Nat]
BY DEF SeenNow, TypeOK

(* A request knows typed values when its first read sees typed columns.    *)
LEMMA AboutType ==
    ASSUME TypeOK, NEW op \in AllOperations, NEW u \in Users \cup {-1},
           NEW p \in SUBSET Users, NEW j \in JointIds \cup {0}, NEW c \in BOOLEAN,
           NEW seen \in [Users -> Nat], NEW asked \in Nat
    PROVE  About(op, u, p, j, c, seen, asked) \in Request
<1>1. p \in Pairs => level[p] \in Levels /\ joint_session_count[p] \in Nat
  BY DEF TypeOK
<1> QED
  BY <1>1 DEF About, Request, Levels

(* What a transition writes is well typed.                                 *)
LEMMA TransitionType ==
    ASSUME TypeOK, NEW p \in Pairs, NEW from \in Levels, NEW to \in TrustLevels,
           NEW byAdmin \in BOOLEAN, Transition(p, from, to, byAdmin)
    PROVE  /\ level' = [level EXCEPT ![p] = to]
           /\ level' \in [Pairs -> Levels]
           /\ history' \in [Pairs -> Seq(TrustLevelHistory)]
           /\ events' \subseteq [pair : Pairs, previous : Levels, new : TrustLevels]
           /\ notifications' \subseteq [to : Users, new : TrustLevels]
<1>1. level' = [level EXCEPT ![p] = to] /\ level' \in [Pairs -> Levels]
  BY DEF Transition, TypeOK, Levels
<1>2. history' \in [Pairs -> Seq(TrustLevelHistory)]
  <2> DEFINE h == [previous_level |-> from, new_level |-> to, by_admin |-> byAdmin]
  <2>1. h \in TrustLevelHistory
    BY DEF TrustLevelHistory, Levels
  <2>2. history[p] \in Seq(TrustLevelHistory)
    BY DEF TypeOK
  <2>3. Append(history[p], h) \in Seq(TrustLevelHistory)
    BY <2>1, <2>2
  <2> HIDE DEF h
  <2>4. history' = [history EXCEPT ![p] = Append(history[p], h)]
    BY DEF Transition, h
  <2> QED
    BY <2>3, <2>4 DEF TypeOK
<1>3. p \subseteq Users
  BY PairMembers
<1>4. events' = events \cup {[pair |-> p, previous |-> from, new |-> to]}
  BY DEF Transition, _notify_transition
<1>5. notifications' = notifications \cup {[to |-> u, new |-> to] : u \in p}
  BY DEF Transition, _notify_transition
<1>6. events' \subseteq [pair : Pairs, previous : Levels, new : TrustLevels]
  BY <1>4 DEF TypeOK
<1>7. notifications' \subseteq [to : Users, new : TrustLevels]
  BY <1>3, <1>5 DEF TypeOK
<1> QED
  BY <1>1, <1>2, <1>6, <1>7

-----------------------------------------------------------------------------
(* What no commit takes back.                                              *)

Later(old, new) ==
    /\ new.status # "NONE"
    /\ new.pair = old.pair
    /\ new.initiator = old.initiator
    /\ old.confirmed_by_initiator => new.confirmed_by_initiator
    /\ old.confirmed_by_partner => new.confirmed_by_partner
    /\ old.status = "COMPLETED" => new.status = "COMPLETED"

Kept == \A j \in JointIds : Exists(j) => Later(joint[j], joint'[j])

Others(w) == \A v \in Workers \ {w} : pc'[v] = pc[v] /\ req'[v] = req[v]

WorkerInv(w) == Reliable(req[w]) /\ StepInv(w)

(* The completed sessions of a pair can be counted.                        *)
LEMMA CompletedFinite ==
    ASSUME NEW p
    PROVE  IsFiniteSet(CompletedOf(p)) /\ Cardinality(CompletedOf(p)) \in Nat
<1>1. IsFiniteSet(JointIds)
  BY TrustAssumption, FS_Interval DEF JointIds
<1>2. CompletedOf(p) \in SUBSET JointIds
  BY DEF CompletedOf
<1>3. IsFiniteSet(CompletedOf(p))
  BY <1>1, <1>2, FS_Subset
<1> QED
  BY <1>3, FS_CardinalityType

(* The same after a step.                                                  *)
LEMMA CompletedFiniteNext ==
    ASSUME NEW p
    PROVE  IsFiniteSet(CompletedOf(p)') /\ Cardinality(CompletedOf(p)') \in Nat
<1>1. IsFiniteSet(JointIds)
  BY TrustAssumption, FS_Interval DEF JointIds
<1>2. CompletedOf(p)' \in SUBSET JointIds
  BY DEF CompletedOf
<1>3. IsFiniteSet(CompletedOf(p)')
  BY <1>1, <1>2, FS_Subset
<1> QED
  BY <1>3, FS_CardinalityType

(* The completed sessions of a pair only become more.                      *)
LEMMA KeptGrows ==
    ASSUME Kept, NEW p, NEW j
    PROVE  /\ CompletedOf(p) \subseteq CompletedOf(p)'
           /\ Cardinality(CompletedOf(p)) <= Cardinality(CompletedOf(p)')
           /\ Cardinality(CompletedOf(p) \cup {j})
                  <= Cardinality(CompletedOf(p)' \cup {j})
           /\ Cardinality(CompletedOf(p) \cup {j}) \in Nat
           /\ Cardinality(CompletedOf(p)' \cup {j}) \in Nat
<1>1. CompletedOf(p) \subseteq CompletedOf(p)'
  BY DEF Kept, Later, CompletedOf, Exists
<1>2. IsFiniteSet(CompletedOf(p)')
  BY CompletedFiniteNext
<1>3. Cardinality(CompletedOf(p)) <= Cardinality(CompletedOf(p)')
  BY <1>1, <1>2, FS_Subset
<1>4. IsFiniteSet(CompletedOf(p)' \cup {j})
  BY <1>2, FS_AddElement
<1>5. IsFiniteSet(CompletedOf(p) \cup {j})
  BY CompletedFinite, FS_AddElement
<1>6. (CompletedOf(p) \cup {j}) \subseteq (CompletedOf(p)' \cup {j})
  BY <1>1
<1>7. Cardinality(CompletedOf(p) \cup {j}) <= Cardinality(CompletedOf(p)' \cup {j})
  BY <1>4, <1>6, FS_Subset
<1> QED
  BY <1>1, <1>3, <1>4, <1>5, <1>7, FS_CardinalityType

(* A pair that has earned solo care keeps it.                              *)
LEMMA KeptEarned ==
    ASSUME Kept, NEW p, Earned(p)
    PROVE  Earned(p)'
<1>1. Cardinality(CompletedOf(p)) <= Cardinality(CompletedOf(p)')
  BY KeptGrows
<1>2. Cardinality(CompletedOf(p)) \in Nat /\ Cardinality(CompletedOf(p)') \in Nat
  BY CompletedFinite, CompletedFiniteNext
<1> QED
  BY <1>1, <1>2, TrustAssumption DEF Earned

(* What a request has read stays reliable.                                 *)
LEMMA KeptReliable ==
    ASSUME TypeOK, Kept, joint' \in [JointIds -> JointCareSession],
           NEW r \in Request, Reliable(r)
    PROVE  Reliable(r)'
<1>1. EnoughAsked(r)
  BY DEF Reliable
<1>2. r.op = "solo" => Earned(r.pair)'
  BY KeptEarned DEF Reliable
<1>3. r.op = "confirm" => /\ r.joint \in JointIds
                          /\ Exists(r.joint)'
                          /\ joint'[r.joint].pair = r.pair
  BY DEF Reliable, Kept, Later, Exists
<1>4. r.completes => ConfirmedByBoth(Confirmed(joint'[r.joint], r.actor))
  <2> SUFFICES ASSUME r.completes
               PROVE  ConfirmedByBoth(Confirmed(joint'[r.joint], r.actor))
    OBVIOUS
  <2>1. r.joint \in JointIds /\ Exists(r.joint)
    BY DEF Reliable
  <2>2. Later(joint[r.joint], joint'[r.joint])
    BY <2>1 DEF Kept
  <2>3. ConfirmedByBoth(Confirmed(joint[r.joint], r.actor))
    BY DEF Reliable
  <2>4. joint[r.joint] \in JointCareSession /\ joint'[r.joint] \in JointCareSession
    BY <2>1 DEF TypeOK
  <2>5. /\ r.actor = joint[r.joint].initiator => joint'[r.joint].confirmed_by_partner
        /\ r.actor # joint[r.joint].initiator => joint'[r.joint].confirmed_by_initiator
    BY <2>2, <2>3, <2>4 DEF ConfirmedByBoth, Confirmed, JointCareSession, Later
  <2> QED
    BY <2>2, <2>4, <2>5 DEF ConfirmedByBoth, Confirmed, Later, JointCareSession
<1>5. r.completes => r.count + 1 <= Cardinality(CompletedOf(r.pair)' \cup {r.joint})
  <2> SUFFICES ASSUME r.completes
               PROVE  r.count + 1 <= Cardinality(CompletedOf(r.pair)' \cup {r.joint})
    OBVIOUS
  <2>1. r.count + 1 <= Cardinality(CompletedOf(r.pair) \cup {r.joint})
    BY DEF Reliable
  <2>2. /\ Cardinality(CompletedOf(r.pair) \cup {r.joint})
               <= Cardinality(CompletedOf(r.pair)' \cup {r.joint})
        /\ Cardinality(CompletedOf(r.pair) \cup {r.joint}) \in Nat
        /\ Cardinality(CompletedOf(r.pair)' \cup {r.joint}) \in Nat
    BY KeptGrows
  <2>3. r.count \in Nat
    BY DEF Request
  <2> QED
    BY <2>1, <2>2, <2>3
<1> QED
  BY <1>1, <1>2, <1>3, <1>4, <1>5 DEF Reliable, EnoughAsked

(* A worker that does not move keeps its invariant.                        *)
LEMMA KeptWorker ==
    ASSUME TypeOK, Kept, joint' \in [JointIds -> JointCareSession],
           NEW v \in Workers, WorkerInv(v), pc'[v] = pc[v], req'[v] = req[v]
    PROVE  WorkerInv(v)'
<1>1. req[v] \in Request
  BY DEF TypeOK
<1>2. Reliable(req[v])'
  <2>1. PICK r \in Request : r = req[v]
    BY <1>1
  <2>2. Reliable(r)'
    BY <2>1, KeptReliable DEF WorkerInv
  <2> QED
    BY <2>1, <2>2 DEF Reliable, EnoughAsked, Earned, CompletedOf, Exists
<1>3. StepInv(v)'
  <2>1. req[v].joint \in CompletedOf(req[v].pair)
            => req[v].joint \in CompletedOf(req[v].pair)'
    BY KeptGrows
  <2>2. Earned(req[v].pair) => Earned(req[v].pair)'
    BY KeptEarned
  <2> QED
    BY <2>1, <2>2 DEF WorkerInv, StepInv, Earned, CompletedOf
<1> QED
  BY <1>2, <1>3 DEF WorkerInv

(* It is enough to look at the worker that moves and at the rows written.  *)
LEMMA StepInvariant ==
    ASSUME TrustInv, TypeOK', NEW w \in Workers, Kept, Others(w), WorkerInv(w)',
           \A j \in JointIds : JointInv(j)',
           \A p \in Pairs : PairInv(p)',
           \A u \in Users : settings'[u] = 0 \/ settings'[u] >= MIN_REQUIRED_JOINT_COUNT
    PROVE  TrustInv'
<1>1. joint' \in [JointIds -> JointCareSession]
  BY DEF TypeOK
<1>2. ASSUME NEW v \in Workers PROVE WorkerInv(v)'
  <2>1. CASE v = w
    BY <2>1
  <2>2. CASE v # w
    <3>1. WorkerInv(v)
      BY DEF TrustInv, WorkerInv
    <3>2. pc'[v] = pc[v] /\ req'[v] = req[v]
      BY <2>2 DEF Others
    <3> QED
      BY <1>1, <3>1, <3>2, KeptWorker DEF TrustInv
  <2> QED
    BY <2>1, <2>2
<1> QED
  BY <1>2 DEF TrustInv, WorkerInv

(* A request that ends leaves its worker as it was at the beginning.       *)
LEMMA FinishInv ==
    ASSUME TypeOK, NEW w \in Workers, Finish(w)
    PROVE  /\ pc' \in [Workers -> Steps]
           /\ req' \in [Workers -> Request]
           /\ Others(w)
           /\ WorkerInv(w)'
<1>1. pc'[w] = "idle" /\ req'[w] = NoRequest
  BY DEF Finish, TypeOK
<1>2. WorkerInv(w)'
  BY <1>1 DEF WorkerInv, Reliable, EnoughAsked, StepInv, NoRequest, Unseen
<1> QED
  BY <1>2, IdleType DEF Finish, TypeOK, Others, Steps

(* While no joint session changes, a pair keeps what it has completed, and *)
(* its invariant as long as a level or a solo request gained is earned.    *)
LEMMA JointUnchanged ==
    ASSUME TrustInv, joint' = joint, joint_session_count' = joint_session_count
    PROVE  /\ Kept
           /\ \A j \in JointIds : JointInv(j)'
           /\ \A p : CompletedOf(p)' = CompletedOf(p)
           /\ \A p \in Pairs :
                  (level'[p] = "L3" \/ p \in solo' => Earned(p)) => PairInv(p)'
<1>1. Kept
  BY DEF Kept, Later, Exists
<1>2. \A j \in JointIds : JointInv(j)'
  BY DEF TrustInv, JointInv, Exists, ConfirmedByBoth
<1>3. \A p : CompletedOf(p)' = CompletedOf(p)
  BY DEF CompletedOf
<1> QED
  BY <1>1, <1>2, <1>3 DEF PairInv, Earned, TrustInv

(* The rest of a step that leaves the joint sessions alone.                *)
LEMMA QuietStep ==
    ASSUME TrustInv, NEW w \in Workers, joint' = joint,
           joint_session_count' = joint_session_count,
           TypeOK', Others(w), WorkerInv(w)',
           \A p \in Pairs : level'[p] = "L3" \/ p \in solo' => Earned(p),
           \A u \in Users : settings'[u] = 0 \/ settings'[u] >= MIN_REQUIRED_JOINT_COUNT
    PROVE  TrustInv'
BY JointUnchanged, StepInvariant

-----------------------------------------------------------------------------
(* The first read of each handler.                                         *)

(* A first read that gives a reliable request keeps the invariant.         *)
LEMMA StartInv ==
    ASSUME TrustInv, NEW w \in Workers, NEW r \in Request, NEW op \in AllOperations,
           Start(w, op, r), r.op = op, Reliable(r)
    PROVE  TrustInv'
<1>1. /\ TypeOK
      /\ UNCHANGED <<level, joint_session_count, history, joint, settings, events,
                     notifications, solo>>
  BY DEF TrustInv, Start, dbVars
<1>2. /\ \/ pc' = [pc EXCEPT ![w] = "commit"]
         \/ pc' = [pc EXCEPT ![w] = "insert"] /\ op = "set"
      /\ req' = [req EXCEPT ![w] = r]
  BY DEF Start
<1>3. TypeOK' /\ Others(w) /\ req'[w] = r
  BY <1>1, <1>2 DEF TypeOK, Others, Steps
<1>4. WorkerInv(w)'
  <2>1. pc'[w] = "commit" \/ (pc'[w] = "insert" /\ op = "set")
    BY <1>1, <1>2 DEF TypeOK
  <2>2. Reliable(req[w])'
    BY <1>1, <1>3 DEF Reliable, EnoughAsked, Earned, CompletedOf, Exists
  <2> QED
    BY <1>3, <2>1, <2>2 DEF WorkerInv, StepInv
<1>5. \A p \in Pairs : level'[p] = "L3" \/ p \in solo' => Earned(p)
  BY <1>1 DEF TrustInv, PairInv
<1>6. \A u \in Users : settings'[u] = 0 \/ settings'[u] >= MIN_REQUIRED_JOINT_COUNT
  BY <1>1 DEF TrustInv
<1> QED
  BY <1>1, <1>3, <1>4, <1>5, <1>6, QuietStep

(* What get_or_create has read is at least the minimum.                    *)
LEMMA SeenEnough ==
    ASSUME TrustInv, NEW p \in SUBSET Users, NEW seen \in [Users -> Nat],
           \A u \in Users : seen[u] = 0 \/ seen[u] >= MIN_REQUIRED_JOINT_COUNT
    PROVE  \A u \in Users : \/ SeenNow(p, seen)[u] = 0
                            \/ SeenNow(p, seen)[u] >= MIN_REQUIRED_JOINT_COUNT
BY DEF SeenNow, TrustInv

(* A request that needs no settings and completes nothing.                 *)
LEMMA PlainStart ==
    ASSUME TrustInv, NEW w \in Workers, NEW op \in {"grant", "schedule", "demote", "solo"},
           NEW u \in Users \cup {-1}, NEW p \in Pairs,
           Start(w, op, About(op, u, p, 0, FALSE, Unseen, 0)),
           op = "schedule" => u \in p,
           op = "solo" => Earned(p)
    PROVE  TrustInv'
<1> DEFINE r == About(op, u, p, 0, FALSE, Unseen, 0)
<1>1. TypeOK /\ p \in SUBSET Users /\ Unseen \in [Users -> Nat] /\ op \in AllOperations
  BY PairMembers DEF TrustInv, Unseen, AllOperations
<1>2. r \in Request
  BY <1>1, AboutType
<1>3. Reliable(r) /\ r.op = op
  BY DEF About, Reliable, EnoughAsked, Unseen
<1> QED
  BY <1>1, <1>2, <1>3, StartInv

(* The first read of confirm_joint_session: the session it may complete is *)
(* not among those counted so far.                                         *)
LEMMA ConfirmStart ==
    ASSUME TrustInv, NEW w \in Workers, NEW u \in Users, NEW j \in JointIds,
           confirm_joint_session(w, u, j)
    PROVE  TrustInv'
<1> DEFINE p == joint[j].pair
           c == Completes(Confirmed(joint[j], u))
           seen == IF c THEN SeenNow(p, Unseen) ELSE Unseen
           r == About("confirm", u, p, j, c, seen, 0)
<1>1. TypeOK /\ JointInv(j) /\ u \in p /\ joint[j] \in JointCareSession
  BY DEF TrustInv, confirm_joint_session, TypeOK
<1>2. Exists(j) /\ p \in Pairs
  BY <1>1 DEF JointInv
<1>3. p \in SUBSET Users /\ Unseen \in [Users -> Nat] /\ c \in BOOLEAN
  BY <1>2, PairMembers DEF Unseen, Completes, ConfirmedByBoth, Confirmed
<1>4. seen \in [Users -> Nat]
  BY <1>1, <1>3, SeenType
<1>5. \A v \in Users : seen[v] = 0 \/ seen[v] >= MIN_REQUIRED_JOINT_COUNT
  <2>1. \A v \in Users : Unseen[v] = 0
    BY DEF Unseen
  <2> QED
    BY <1>3, <2>1, SeenEnough
<1>6. c => joint_session_count[p] + 1 <= Cardinality(CompletedOf(p) \cup {j})
  <2> SUFFICES ASSUME c
               PROVE  joint_session_count[p] + 1 <= Cardinality(CompletedOf(p) \cup {j})
    OBVIOUS
  <2>1. joint[j].status # "COMPLETED"
    BY <1>1 DEF Completes, Confirmed, JointCareSession
  <2>2. j \notin CompletedOf(p)
    BY <2>1 DEF CompletedOf
  <2>3. Cardinality(CompletedOf(p) \cup {j}) = Cardinality(CompletedOf(p)) + 1
    BY <2>2, CompletedFinite, FS_AddElement
  <2>4. joint_session_count[p] <= Cardinality(CompletedOf(p))
    BY <1>2 DEF TrustInv, PairInv
  <2>5. joint_session_count[p] \in Nat /\ Cardinality(CompletedOf(p)) \in Nat
    BY <1>1, <1>2, CompletedFinite DEF TypeOK
  <2> QED
    BY <2>3, <2>4, <2>5
<1>7. c => ConfirmedByBoth(Confirmed(joint[j], u))
  BY DEF Completes
<1> HIDE DEF c, seen
<1>8. r \in Request
  BY <1>1, <1>3, <1>4, AboutType DEF AllOperations
<1>9. Reliable(r) /\ r.op = "confirm"
  BY <1>2, <1>5, <1>6, <1>7 DEF About, Reliable, EnoughAsked
<1>10. Start(w, "confirm", r)
  BY DEF confirm_joint_session, c, seen
<1> HIDE DEF r
<1> QED
  BY <1>8, <1>9, <1>10, StartInv DEF AllOperations

(* The first read of set_required_count.                                   *)
LEMMA SetStart ==
    ASSUME TrustInv, NEW w \in Workers, NEW u \in Users, NEW n \in Counts,
           set_required_count(w, u, n)
    PROVE  TrustInv'
<1> DEFINE seen == SeenNow({u}, Unseen)
           r == About("set", u, {u}, 0, FALSE, seen, n)
<1>1. TypeOK /\ {u} \in SUBSET Users /\ Unseen \in [Users -> Nat] /\ n \in Nat
  BY TrustAssumption DEF TrustInv, Unseen
<1>2. seen \in [Users -> Nat]
  BY <1>1, SeenType
<1>3. \A v \in Users : seen[v] = 0 \/ seen[v] >= MIN_REQUIRED_JOINT_COUNT
  <2>1. \A v \in Users : Unseen[v] = 0
    BY DEF Unseen
  <2> QED
    BY <1>1, <2>1, SeenEnough
<1>4. n >= MIN_REQUIRED_JOINT_COUNT /\ Start(w, "set", r)
  BY DEF set_required_count
<1> HIDE DEF seen
<1>5. r \in Request
  BY <1>1, <1>2, AboutType DEF AllOperations
<1>6. Reliable(r) /\ r.op = "set"
  BY <1>3, <1>4 DEF About, Reliable, EnoughAsked
<1> HIDE DEF r
<1> QED
  BY <1>4, <1>5, <1>6, StartInv DEF AllOperations

(* The call of a handler keeps the invariant.                              *)
LEMMA CallInv ==
    ASSUME TrustInv, NEW w \in Workers, Call(w)
    PROVE  TrustInv'
<1>1. ASSUME NEW u \in Users, NEW v \in Users, u # v
      PROVE  {u, v} \in Pairs /\ u \in {u, v}
  BY <1>1 DEF Pairs
<1>2. ASSUME NEW u \in Users, NEW v \in Users, grant_l1(w, u, v) PROVE TrustInv'
  BY <1>1, <1>2, PlainStart DEF grant_l1
<1>3. ASSUME NEW u \in Users, NEW v \in Users, schedule_joint_session(w, u, v)
      PROVE  TrustInv'
  BY <1>1, <1>3, PlainStart DEF schedule_joint_session
<1>4. ASSUME NEW u \in Users, NEW v \in Users, request_solo(w, u, v) PROVE TrustInv'
  <2>1. {u, v} \in Pairs /\ level[{u, v}] = "L3"
    BY <1>1, <1>4 DEF request_solo, require_l3
  <2>2. Earned({u, v})
    BY <2>1 DEF TrustInv, PairInv
  <2> QED
    BY <1>4, <2>1, <2>2, PlainStart DEF request_solo
<1>5. ASSUME NEW p \in Pairs, demote(w, p) PROVE TrustInv'
  BY <1>5, PlainStart DEF demote
<1> QED
  BY <1>2, <1>3, <1>4, <1>5, ConfirmStart, SetStart DEF Call

-----------------------------------------------------------------------------
(* The transactions.                                                       *)

(* The confirmation that completes a session is counted once: the count    *)
(* written is covered by the sessions completed with it.                   *)
LEMMA ConfirmWritten ==
    ASSUME TrustInv, NEW w \in Workers, req[w].op = "confirm", Confirm(req[w])
    PROVE  /\ joint' \in [JointIds -> JointCareSession]
           /\ joint_session_count' \in [Pairs -> Nat]
           /\ solo' = solo
           /\ Kept
           /\ \A j \in JointIds : JointInv(j)'
           /\ \A p \in Pairs : joint_session_count'[p] <= Cardinality(CompletedOf(p)')
           /\ \A r \in Request : r = req[w] /\ r.completes =>
                 /\ r.joint \in CompletedOf(r.pair)'
                 /\ r.count + 1 <= Cardinality(CompletedOf(r.pair)')
<1>1. PICK r \in Request : r = req[w]
  BY DEF TrustInv, TypeOK
<1>2. TypeOK /\ Reliable(r) /\ r.op = "confirm" /\ Confirm(r)
  BY <1>1 DEF TrustInv
<1>3. r.joint \in JointIds /\ Exists(r.joint) /\ joint[r.joint].pair = r.pair /\ r.pair \in Pairs
  BY <1>2 DEF Reliable
<1> DEFINE row == joint[r.joint]
           new == WithConfirmation(row, r)
<1>4. row \in JointCareSession /\ r.completes \in BOOLEAN /\ r.count \in Nat
  BY <1>2, <1>3 DEF TypeOK, Request
<1>5. /\ new \in JointCareSession
      /\ Later(row, new)
      /\ new.pair = r.pair
      /\ new.status = IF r.completes THEN "COMPLETED" ELSE row.status
      /\ new.confirmed_by_initiator = Confirmed(row, r.actor).confirmed_by_initiator
      /\ new.confirmed_by_partner = Confirmed(row, r.actor).confirmed_by_partner
  BY <1>3, <1>4 DEF JointCareSession, WithConfirmation, Confirmed, Later, Exists
<1>6. joint' = [joint EXCEPT ![r.joint] = new]
  BY <1>2 DEF Confirm
<1> HIDE DEF new
<1>7. /\ joint' \in [JointIds -> JointCareSession]
      /\ joint'[r.joint] = new
      /\ \A j \in JointIds \ {r.joint} : joint'[j] = joint[j]
  BY <1>2, <1>3, <1>5, <1>6 DEF TypeOK
<1>8. Kept
  BY <1>5, <1>7 DEF Kept, Later, Exists
<1>9. ASSUME NEW j \in JointIds PROVE JointInv(j)'
  <2>1. JointInv(j)
    BY DEF TrustInv
  <2>2. CASE j # r.joint
    BY <1>7, <2>1, <2>2 DEF JointInv, Exists, ConfirmedByBoth
  <2>3. CASE j = r.joint
    <3>1. row.initiator \in r.pair
      BY <1>3, <2>1, <2>3 DEF JointInv
    <3>2. new.status = "COMPLETED" => ConfirmedByBoth(new)
      <4>1. r.completes => ConfirmedByBoth(Confirmed(row, r.actor))
        BY <1>2 DEF Reliable
      <4>2. row.status = "COMPLETED" => ConfirmedByBoth(row)
        BY <2>1, <2>3 DEF JointInv
      <4> QED
        BY <1>5, <4>1, <4>2 DEF ConfirmedByBoth, Later
    <3>3. new.status # "NONE" /\ new.initiator = row.initiator
      BY <1>5 DEF Later
    <3> QED
      BY <1>3, <1>5, <1>7, <2>3, <3>1, <3>2, <3>3 DEF JointInv, Exists, ConfirmedByBoth
  <2> QED
    BY <2>2, <2>3
<1>10. r.completes => CompletedOf(r.pair)' = CompletedOf(r.pair) \cup {r.joint}
  BY <1>3, <1>5, <1>7 DEF CompletedOf
<1>11. r.completes => /\ r.joint \in CompletedOf(r.pair)'
                      /\ r.count + 1 <= Cardinality(CompletedOf(r.pair)')
  BY <1>2, <1>10 DEF Reliable
<1>12. /\ joint_session_count' \in [Pairs -> Nat]
       /\ \A p \in Pairs : joint_session_count'[p] = joint_session_count[p]
                           \/ (p = r.pair /\ r.completes /\ joint_session_count'[p] = r.count + 1)
  <2>1. joint_session_count \in [Pairs -> Nat] /\ r.count + 1 \in Nat
    BY <1>2, <1>4 DEF TypeOK
  <2>2. CASE r.completes
    <3>1. joint_session_count' = [joint_session_count EXCEPT ![r.pair] = r.count + 1]
      BY <1>2, <2>2 DEF Confirm
    <3> QED
      BY <1>3, <2>1, <2>2, <3>1
  <2>3. CASE ~r.completes
    <3>1. joint_session_count' = joint_session_count
      BY <1>2, <2>3 DEF Confirm
    <3> QED
      BY <2>1, <3>1
  <2> QED
    BY <2>2, <2>3
<1>13. ASSUME NEW p \in Pairs PROVE joint_session_count'[p] <= Cardinality(CompletedOf(p)')
  <2>1. joint_session_count[p] <= Cardinality(CompletedOf(p)')
    <3>1. /\ joint_session_count[p] <= Cardinality(CompletedOf(p))
          /\ joint_session_count[p] \in Nat
      BY <1>2 DEF TrustInv, PairInv, TypeOK
    <3>2. Cardinality(CompletedOf(p)) <= Cardinality(CompletedOf(p)')
      BY <1>8, KeptGrows
    <3>3. Cardinality(CompletedOf(p)) \in Nat /\ Cardinality(CompletedOf(p)') \in Nat
      BY CompletedFinite, CompletedFiniteNext
    <3> QED
      BY <3>1, <3>2, <3>3
  <2> QED
    BY <1>11, <1>12, <2>1
<1>14. solo' = solo
  BY <1>2 DEF Confirm
<1> QED
  BY <1>1, <1>7, <1>8, <1>9, <1>11, <1>12, <1>13, <1>14

(* A completed session that meets both requirements earns solo care: each  *)
(* requirement is at least the minimum.                                    *)
LEMMA PromotionEarned ==
    ASSUME NEW r \in Request, EnoughAsked(r), r.pair \in Pairs, NEW n \in Nat,
           r.count + 1 <= n, AllSeen(r.pair, r.seen), _required_count(r)
    PROVE  n >= MIN_REQUIRED_JOINT_COUNT
<1>1. PICK u \in Users : u \in r.pair
  BY PairMembers
<1>2. r.seen[u] >= MIN_REQUIRED_JOINT_COUNT /\ r.count + 1 >= r.seen[u]
  BY <1>1 DEF EnoughAsked, AllSeen, _required_count
<1>3. r.seen[u] \in Nat /\ r.count \in Nat
  BY <1>1 DEF Request
<1> QED
  BY <1>2, <1>3, TrustAssumption

(* The invariant of the pairs after a confirmation, when a promotion is    *)
(* earned.                                                                 *)
LEMMA ConfirmPairs ==
    ASSUME TrustInv, Kept, solo' = solo,
           \A p \in Pairs : joint_session_count'[p] <= Cardinality(CompletedOf(p)'),
           \A p \in Pairs : level'[p] = "L3" => level[p] = "L3" \/ Earned(p)'
    PROVE  \A p \in Pairs : PairInv(p)'
<1> SUFFICES ASSUME NEW p \in Pairs PROVE PairInv(p)'
  OBVIOUS
<1>1. level[p] = "L3" \/ p \in solo => Earned(p)
  BY DEF TrustInv, PairInv
<1>2. Earned(p) => Earned(p)'
  BY KeptEarned
<1> QED
  BY <1>1, <1>2 DEF PairInv

(* A request that ends without a commit, refused or failed.                *)
LEMMA FinishOnly ==
    ASSUME TrustInv, NEW w \in Workers, Finish(w), UNCHANGED dbVars
    PROVE  TrustInv'
<1>1. TypeOK
  BY DEF TrustInv
<1>2. UNCHANGED <<level, joint_session_count, history, joint, settings, events,
                  notifications, solo>>
  BY DEF dbVars
<1>3. TypeOK' /\ Others(w) /\ WorkerInv(w)'
  BY <1>1, <1>2, FinishInv DEF TypeOK
<1> QED
  BY <1>2, <1>3, QuietStep DEF TrustInv, PairInv

(* grant_l1's commit keeps the invariant.                                  *)
LEMMA GrantCommit ==
    ASSUME TrustInv, NEW w \in Workers, CommitGrant(w)
    PROVE  TrustInv'
<1> DEFINE p == req[w].pair
<1>1. TypeOK /\ Reliable(req[w]) /\ req[w].op = "grant"
  BY DEF TrustInv, CommitGrant, Doing
<1>2. p \in Pairs /\ p \subseteq Users
  BY <1>1, PairMembers DEF Reliable
<1>3. /\ level' = [level EXCEPT ![p] = "L1"]
      /\ events' = events \cup {[pair |-> p, previous |-> "NONE", new |-> "L1"]}
      /\ notifications' = notifications \cup {[to |-> u, new |-> "L1"] : u \in p}
      /\ UNCHANGED <<joint_session_count, history, joint, settings, solo>>
      /\ Finish(w)
  BY DEF CommitGrant, _notify_transition
<1> HIDE DEF p
<1>4. level' \in [Pairs -> Levels] /\ \A q \in Pairs : level'[q] = "L3" => level[q] = "L3"
  BY <1>1, <1>2, <1>3 DEF TypeOK, Levels, TrustLevels
<1>5. events' \subseteq [pair : Pairs, previous : Levels, new : TrustLevels]
  BY <1>1, <1>2, <1>3 DEF TypeOK, Levels, TrustLevels
<1>6. notifications' \subseteq [to : Users, new : TrustLevels]
  BY <1>1, <1>2, <1>3 DEF TypeOK, TrustLevels
<1>7. TypeOK' /\ Others(w) /\ WorkerInv(w)'
  BY <1>1, <1>3, <1>4, <1>5, <1>6, FinishInv DEF TypeOK
<1> QED
  BY <1>3, <1>4, <1>7, QuietStep DEF TrustInv, PairInv

(* schedule_joint_session's commit keeps the invariant: nothing is         *)
(* completed by it, and the pair gets no further than L2.                  *)
LEMMA ScheduleCommit ==
    ASSUME TrustInv, NEW w \in Workers, CommitSchedule(w)
    PROVE  TrustInv'
<1>1. PICK r \in Request : r = req[w]
  BY DEF TrustInv, TypeOK
<1>2. TypeOK /\ Reliable(r) /\ r.op = "schedule" /\ r.pair \in Pairs /\ r.actor \in r.pair
  BY <1>1 DEF TrustInv, CommitSchedule, Doing, Reliable
<1> DEFINE new == [pair |-> r.pair, initiator |-> r.actor,
                   confirmed_by_initiator |-> FALSE, confirmed_by_partner |-> FALSE,
                   status |-> "SCHEDULED"]
<1>3. PICK j \in JointIds : ~Exists(j) /\ joint' = [joint EXCEPT ![j] = new]
  BY <1>1 DEF CommitSchedule, IsNext
<1>4. /\ Finish(w)
      /\ UNCHANGED <<joint_session_count, settings, solo>>
      /\ Transition(r.pair, "L1", "L2", FALSE) \/ NoTransition
  BY <1>1 DEF CommitSchedule
<1>5. new \in JointCareSession /\ new.status = "SCHEDULED"
      /\ new.pair \in Pairs /\ new.initiator \in new.pair
  <2>1. r.actor \in Users
    BY <1>2, PairMembers
  <2> QED
    BY <1>2, <2>1 DEF JointCareSession
<1> HIDE DEF new
<1>6. /\ joint' \in [JointIds -> JointCareSession]
      /\ joint'[j] = new
      /\ \A i \in JointIds \ {j} : joint'[i] = joint[i]
  BY <1>2, <1>3, <1>5 DEF TypeOK
<1>7. Kept
  BY <1>3, <1>6 DEF Kept, Later, Exists
<1>8. ASSUME NEW i \in JointIds PROVE JointInv(i)'
  <2>1. CASE i = j
    BY <1>5, <1>6, <2>1 DEF JointInv, Exists
  <2>2. CASE i # j
    BY <1>6, <2>2 DEF TrustInv, JointInv, Exists, ConfirmedByBoth
  <2> QED
    BY <2>1, <2>2
<1>9. ASSUME NEW p \in Pairs
      PROVE  joint_session_count'[p] <= Cardinality(CompletedOf(p)')
  <2>1. CompletedOf(p)' = CompletedOf(p)
    BY <1>3, <1>5, <1>6 DEF CompletedOf, Exists
  <2> QED
    BY <1>4, <2>1 DEF TrustInv, PairInv
<1>10. /\ level' \in [Pairs -> Levels]
       /\ history' \in [Pairs -> Seq(TrustLevelHistory)]
       /\ events' \subseteq [pair : Pairs, previous : Levels, new : TrustLevels]
       /\ notifications' \subseteq [to : Users, new : TrustLevels]
       /\ \A p \in Pairs : level'[p] = "L3" => level[p] = "L3"
  <2>1. CASE NoTransition
    BY <1>2, <2>1 DEF NoTransition, TypeOK
  <2>2. CASE Transition(r.pair, "L1", "L2", FALSE)
    <3>1. "L1" \in Levels /\ "L2" \in TrustLevels /\ FALSE \in BOOLEAN
      BY DEF Levels, TrustLevels
    <3>2. /\ level' = [level EXCEPT ![r.pair] = "L2"]
          /\ level' \in [Pairs -> Levels]
          /\ history' \in [Pairs -> Seq(TrustLevelHistory)]
          /\ events' \subseteq [pair : Pairs, previous : Levels, new : TrustLevels]
          /\ notifications' \subseteq [to : Users, new : TrustLevels]
      BY <1>2, <2>2, <3>1, TransitionType
    <3> QED
      BY <1>2, <3>2 DEF TypeOK
  <2> QED
    BY <1>4, <2>1, <2>2
<1>11. TypeOK' /\ Others(w) /\ WorkerInv(w)'
  BY <1>2, <1>4, <1>6, <1>10, FinishInv DEF TypeOK
<1>12. \A p \in Pairs : PairInv(p)'
  BY <1>4, <1>7, <1>9, <1>10, ConfirmPairs
<1>13. \A u \in Users : settings'[u] = 0 \/ settings'[u] >= MIN_REQUIRED_JOINT_COUNT
  BY <1>4 DEF TrustInv
<1> QED
  BY <1>7, <1>8, <1>11, <1>12, <1>13, StepInvariant

(* The level that confirm_joint_session may change, with all that goes     *)
(* with it.                                                                *)
LEMMA PromotionOrNone ==
    ASSUME TypeOK, NEW p \in Pairs,
           Transition(p, "L2", "L3", FALSE) \/ NoTransition
    PROVE  /\ level' \in [Pairs -> Levels]
           /\ history' \in [Pairs -> Seq(TrustLevelHistory)]
           /\ events' \subseteq [pair : Pairs, previous : Levels, new : TrustLevels]
           /\ notifications' \subseteq [to : Users, new : TrustLevels]
           /\ \A q \in Pairs : level'[q] = "L3" => level[q] = "L3" \/ q = p
<1>1. CASE NoTransition
  BY <1>1 DEF NoTransition, TypeOK
<1>2. CASE Transition(p, "L2", "L3", FALSE)
  <2>1. "L2" \in Levels /\ "L3" \in TrustLevels /\ FALSE \in BOOLEAN
    BY DEF Levels, TrustLevels
  <2>2. /\ level' = [level EXCEPT ![p] = "L3"]
        /\ level' \in [Pairs -> Levels]
        /\ history' \in [Pairs -> Seq(TrustLevelHistory)]
        /\ events' \subseteq [pair : Pairs, previous : Levels, new : TrustLevels]
        /\ notifications' \subseteq [to : Users, new : TrustLevels]
    BY <1>2, <2>1, TransitionType
  <2> QED
    BY <2>2 DEF TypeOK
<1> QED
  BY <1>1, <1>2

(* A confirmation in one transaction keeps the invariant: a promotion is   *)
(* earned by the sessions completed with this one.                         *)
LEMMA ConfirmCommit ==
    ASSUME TrustInv, NEW w \in Workers, CommitConfirm(w)
    PROVE  TrustInv'
<1>1. PICK r \in Request : r = req[w]
  BY DEF TrustInv, TypeOK
<1>2. TypeOK /\ Reliable(r) /\ r.op = "confirm" /\ r.pair \in Pairs
  BY <1>1 DEF TrustInv, CommitConfirm, Doing, Reliable
<1>3. /\ r.completes => AllSeen(r.pair, r.seen)
      /\ \/ Promotes(r) /\ Transition(r.pair, "L2", "L3", FALSE)
         \/ NoTransition
      /\ Confirm(req[w])
      /\ Finish(w)
      /\ settings' = settings
  BY <1>1 DEF CommitConfirm
<1>4. /\ joint' \in [JointIds -> JointCareSession]
      /\ joint_session_count' \in [Pairs -> Nat]
      /\ solo' = solo
      /\ Kept
      /\ \A j \in JointIds : JointInv(j)'
      /\ \A p \in Pairs : joint_session_count'[p] <= Cardinality(CompletedOf(p)')
      /\ r.completes => r.count + 1 <= Cardinality(CompletedOf(r.pair)')
  BY <1>1, <1>2, <1>3, ConfirmWritten
<1>5. /\ level' \in [Pairs -> Levels]
      /\ history' \in [Pairs -> Seq(TrustLevelHistory)]
      /\ events' \subseteq [pair : Pairs, previous : Levels, new : TrustLevels]
      /\ notifications' \subseteq [to : Users, new : TrustLevels]
      /\ \A p \in Pairs : level'[p] = "L3" => level[p] = "L3" \/ p = r.pair
  BY <1>2, <1>3, PromotionOrNone
<1>6. \A p \in Pairs : level'[p] = "L3" => level[p] = "L3" \/ Earned(p)'
  <2>1. CASE NoTransition
    BY <2>1 DEF NoTransition
  <2>2. CASE Promotes(r)
    <3>1. r.completes /\ _required_count(r) /\ AllSeen(r.pair, r.seen) /\ EnoughAsked(r)
      BY <1>2, <1>3, <2>2 DEF Promotes, Reliable
    <3>2. PICK n \in Nat : n = Cardinality(CompletedOf(r.pair)')
      BY CompletedFiniteNext
    <3>3. n >= MIN_REQUIRED_JOINT_COUNT
      BY <1>2, <1>4, <3>1, <3>2, PromotionEarned
    <3>4. Earned(r.pair)'
      BY <3>2, <3>3 DEF Earned
    <3> QED
      BY <1>5, <3>4
  <2> QED
    BY <1>3, <2>1, <2>2
<1>7. TypeOK' /\ Others(w) /\ WorkerInv(w)'
  BY <1>2, <1>3, <1>4, <1>5, FinishInv DEF TypeOK
<1>8. \A p \in Pairs : PairInv(p)'
  BY <1>4, <1>6, ConfirmPairs
<1>9. \A u \in Users : settings'[u] = 0 \/ settings'[u] >= MIN_REQUIRED_JOINT_COUNT
  BY <1>3 DEF TrustInv
<1> QED
  BY <1>4, <1>7, <1>8, <1>9, StepInvariant

(* An inserted requirement is the default, which is not below the minimum. *)
LEMMA InsertInv ==
    ASSUME TrustInv, NEW u \in Users, Insert(u)
    PROVE  /\ settings' \in [Users -> Nat]
           /\ \A v \in Users : settings'[v] = 0 \/ settings'[v] >= MIN_REQUIRED_JOINT_COUNT
<1>1. settings' = [settings EXCEPT ![u] = DEFAULT_REQUIRED_JOINT_COUNT]
  BY DEF Insert
<1> QED
  BY <1>1, TrustAssumption DEF TrustInv, TypeOK

(* A request that goes on keeps what it knows.                             *)
LEMMA ContinueType ==
    ASSUME TypeOK, NEW w \in Workers, NEW step \in Steps, Continue(w, step)
    PROVE  /\ pc' \in [Workers -> Steps]
           /\ pc'[w] = step
           /\ req' = req
           /\ req' \in [Workers -> Request]
           /\ Others(w)
BY DEF Continue, TypeOK, Others

(* A confirmation that inserts settings on its way keeps the invariant:    *)
(* the session is completed, the promotion still to come.                  *)
LEMMA ConfirmAndSettingsCommit ==
    ASSUME TrustInv, NEW w \in Workers, CommitConfirmAndSettings(w)
    PROVE  TrustInv'
<1>1. PICK r \in Request : r = req[w]
  BY DEF TrustInv, TypeOK
<1>2. TypeOK /\ Reliable(r) /\ r.op = "confirm" /\ r.completes /\ r.pair \in Pairs
  BY <1>1 DEF TrustInv, CommitConfirmAndSettings, Doing, Reliable
<1>3. PICK u \in Users : Insert(u)
  BY DEF CommitConfirmAndSettings
<1>4. Confirm(req[w]) /\ NoTransition /\ Continue(w, "settings")
  BY DEF CommitConfirmAndSettings
<1>5. /\ joint' \in [JointIds -> JointCareSession]
      /\ joint_session_count' \in [Pairs -> Nat]
      /\ solo' = solo
      /\ Kept
      /\ \A j \in JointIds : JointInv(j)'
      /\ \A p \in Pairs : joint_session_count'[p] <= Cardinality(CompletedOf(p)')
      /\ r.joint \in CompletedOf(r.pair)'
  BY <1>1, <1>2, <1>4, ConfirmWritten
<1>6. /\ pc' \in [Workers -> Steps]
      /\ pc'[w] = "settings"
      /\ req' = req
      /\ req' \in [Workers -> Request]
      /\ Others(w)
  BY <1>2, <1>4, ContinueType DEF Steps
<1>7. UNCHANGED <<level, history, events, notifications>>
  BY <1>4 DEF NoTransition
<1>8. /\ settings' \in [Users -> Nat]
      /\ \A v \in Users : settings'[v] = 0 \/ settings'[v] >= MIN_REQUIRED_JOINT_COUNT
  BY <1>3, InsertInv
<1>9. TypeOK'
  BY <1>2, <1>5, <1>6, <1>7, <1>8 DEF TypeOK
<1>10. WorkerInv(w)'
  <2>1. Reliable(r)'
    BY <1>2, <1>5, KeptReliable
  <2>2. Reliable(req[w])'
    BY <1>1, <1>6, <2>1 DEF Reliable, EnoughAsked, Earned, CompletedOf, Exists
  <2>3. StepInv(w)'
    BY <1>1, <1>2, <1>5, <1>6 DEF StepInv, CompletedOf
  <2> QED
    BY <2>2, <2>3 DEF WorkerInv
<1>11. \A p \in Pairs : PairInv(p)'
  BY <1>5, <1>7, ConfirmPairs
<1> QED
  BY <1>5, <1>6, <1>8, <1>9, <1>10, <1>11, StepInvariant

(* get_or_create's own commit keeps the invariant.                         *)
LEMMA SettingsCommit ==
    ASSUME TrustInv, NEW w \in Workers, CommitSettings(w)
    PROVE  TrustInv'
<1>1. TypeOK /\ Reliable(req[w]) /\ StepInv(w)
  BY DEF TrustInv
<1>2. PICK u \in Users : Insert(u)
  BY DEF CommitSettings
<1>3. /\ pc[w] = "insert"
      /\ Continue(w, "settings")
      /\ UNCHANGED <<level, joint_session_count, history, joint, events, notifications, solo>>
  BY DEF CommitSettings
<1>4. /\ pc' \in [Workers -> Steps]
      /\ pc'[w] = "settings"
      /\ req' = req
      /\ req' \in [Workers -> Request]
      /\ Others(w)
  BY <1>1, <1>3, ContinueType DEF Steps
<1>5. /\ settings' \in [Users -> Nat]
      /\ \A v \in Users : settings'[v] = 0 \/ settings'[v] >= MIN_REQUIRED_JOINT_COUNT
  BY <1>2, InsertInv
<1>6. TypeOK'
  BY <1>1, <1>3, <1>4, <1>5 DEF TypeOK
<1>7. WorkerInv(w)'
  <2>1. Reliable(req[w])'
    BY <1>1, <1>3, <1>4 DEF Reliable, EnoughAsked, Earned, CompletedOf, Exists
  <2>2. StepInv(w)'
    BY <1>1, <1>3, <1>4 DEF StepInv, CompletedOf
  <2> QED
    BY <2>1, <2>2 DEF WorkerInv
<1>8. \A p \in Pairs : level'[p] = "L3" \/ p \in solo' => Earned(p)
  BY <1>3 DEF TrustInv, PairInv
<1> QED
  BY <1>3, <1>4, <1>5, <1>6, <1>7, <1>8, QuietStep

(* Reading back what was inserted keeps the invariant: a promotion decided *)
(* here is earned by the sessions already completed.                       *)
LEMMA ReadSettingsInv ==
    ASSUME TrustInv, NEW w \in Workers, ReadSettings(w)
    PROVE  TrustInv'
<1>1. PICK q \in Request : q = req[w]
  BY DEF TrustInv, TypeOK
<1> DEFINE s == SeenNow(q.pair, q.seen)
           next == [q EXCEPT !.seen = s]
<1>2. TypeOK /\ Reliable(q) /\ StepInv(w) /\ q.pair \in SUBSET Users
      /\ q.seen \in [Users -> Nat] /\ pc[w] = "settings" /\ EnoughAsked(q)
  BY <1>1 DEF TrustInv, Request, ReadSettings, Reliable
<1>3. s \in [Users -> Nat]
  BY <1>2, SeenType
<1>4. \A u \in Users : s[u] = 0 \/ s[u] >= MIN_REQUIRED_JOINT_COUNT
  BY <1>2, SeenEnough DEF EnoughAsked
<1>5. PICK r \in Request : r = next
  BY <1>3 DEF Request
<1>6. /\ r.op = q.op /\ r.actor = q.actor /\ r.pair = q.pair /\ r.joint = q.joint
      /\ r.count = q.count /\ r.completes = q.completes /\ r.asked = q.asked
      /\ r.seen = s
  BY <1>5 DEF Request
<1>7. /\ UNCHANGED <<level, joint_session_count, history, joint, settings, events,
                     notifications, solo>>
      /\ \/ pc' = [pc EXCEPT ![w] = "insert"] /\ req' = [req EXCEPT ![w] = r]
         \/ r.op = "set" /\ pc' = [pc EXCEPT ![w] = "commit"] /\ req' = [req EXCEPT ![w] = r]
         \/ /\ AllSeen(r.pair, r.seen) /\ Promotes(r)
            /\ pc' = [pc EXCEPT ![w] = "promote"] /\ req' = [req EXCEPT ![w] = r]
         \/ Finish(w)
  BY <1>1, <1>5 DEF ReadSettings, dbVars
<1> HIDE DEF next, s
<1>8. Reliable(r)
  BY <1>2, <1>4, <1>6 DEF Reliable, EnoughAsked
<1>9. \A p \in Pairs : level'[p] = "L3" \/ p \in solo' => Earned(p)
  BY <1>7 DEF TrustInv, PairInv
<1>10. \A u \in Users : settings'[u] = 0 \/ settings'[u] >= MIN_REQUIRED_JOINT_COUNT
  BY <1>7 DEF TrustInv
<1>11. CASE Finish(w)
  BY <1>7, <1>11, FinishOnly DEF dbVars
<1>12. ASSUME NEW step \in {"insert", "commit", "promote"},
              pc' = [pc EXCEPT ![w] = step], req' = [req EXCEPT ![w] = r],
              step = "promote" => AllSeen(r.pair, r.seen) /\ Promotes(r)
       PROVE  TrustInv'
  <2>1. TypeOK' /\ Others(w) /\ pc'[w] = step /\ req'[w] = r
    BY <1>2, <1>7, <1>12 DEF TypeOK, Others, Steps
  <2>2. Reliable(req[w])'
    BY <1>7, <1>8, <2>1 DEF Reliable, EnoughAsked, Earned, CompletedOf, Exists
  <2>3. q.op = "set" \/ (q.completes /\ q.joint \in CompletedOf(q.pair))
    BY <1>1, <1>2 DEF StepInv
  <2>4. step = "promote" => r.pair \in Pairs /\ Earned(r.pair)
    <3> SUFFICES ASSUME step = "promote" PROVE r.pair \in Pairs /\ Earned(r.pair)
      OBVIOUS
    <3>1. AllSeen(r.pair, r.seen) /\ r.completes /\ _required_count(r)
      BY <1>12 DEF Promotes
    <3>2. r.op = "confirm" /\ r.pair \in Pairs /\ EnoughAsked(r)
          /\ r.count + 1 <= Cardinality(CompletedOf(r.pair) \cup {r.joint})
      BY <1>8, <3>1 DEF Reliable
    <3>3. CompletedOf(r.pair) \cup {r.joint} = CompletedOf(r.pair)
      BY <1>6, <2>3, <3>2
    <3>4. PICK n \in Nat : n = Cardinality(CompletedOf(r.pair))
      BY CompletedFinite
    <3>5. n >= MIN_REQUIRED_JOINT_COUNT
      BY <1>6, <3>1, <3>2, <3>3, <3>4, PromotionEarned
    <3> QED
      BY <3>2, <3>4, <3>5 DEF Earned
  <2>5. StepInv(w)'
    BY <1>7, <1>6, <2>1, <2>3, <2>4 DEF StepInv, Earned, CompletedOf
  <2>6. WorkerInv(w)'
    BY <2>2, <2>5 DEF WorkerInv
  <2> QED
    BY <1>7, <1>9, <1>10, <2>1, <2>6, QuietStep
<1> QED
  BY <1>7, <1>11, <1>12

(* A level change on its own, an earned promotion or a demotion, keeps the *)
(* invariant.                                                              *)
LEMMA LevelStep ==
    ASSUME TrustInv, NEW w \in Workers, NEW p \in Pairs, NEW from \in Levels,
           NEW to \in TrustLevels, NEW byAdmin \in BOOLEAN,
           Transition(p, from, to, byAdmin), to = "L3" => Earned(p), Finish(w),
           UNCHANGED <<joint_session_count, joint, settings, solo>>
    PROVE  TrustInv'
<1>1. TypeOK
  BY DEF TrustInv
<1>2. /\ level' = [level EXCEPT ![p] = to]
      /\ level' \in [Pairs -> Levels]
      /\ history' \in [Pairs -> Seq(TrustLevelHistory)]
      /\ events' \subseteq [pair : Pairs, previous : Levels, new : TrustLevels]
      /\ notifications' \subseteq [to : Users, new : TrustLevels]
  BY <1>1, TransitionType
<1>3. TypeOK' /\ Others(w) /\ WorkerInv(w)'
  BY <1>1, <1>2, FinishInv DEF TypeOK
<1>4. \A q \in Pairs : level'[q] = "L3" \/ q \in solo' => Earned(q)
  BY <1>1, <1>2 DEF TrustInv, PairInv, TypeOK
<1> QED
  BY <1>3, <1>4, QuietStep DEF TrustInv

(* A promotion committed after the settings keeps the invariant.           *)
LEMMA PromotionCommit ==
    ASSUME TrustInv, NEW w \in Workers, CommitPromotion(w)
    PROVE  TrustInv'
<1> DEFINE p == req[w].pair
<1>1. p \in Pairs /\ Earned(p)
  BY DEF TrustInv, CommitPromotion, StepInv
<1>2. /\ Transition(p, "L2", "L3", FALSE)
      /\ Finish(w)
      /\ UNCHANGED <<joint_session_count, joint, settings, solo>>
  BY DEF CommitPromotion
<1> HIDE DEF p
<1>3. "L2" \in Levels /\ "L3" \in TrustLevels /\ FALSE \in BOOLEAN
  BY DEF Levels, TrustLevels
<1> QED
  BY <1>1, <1>2, <1>3, LevelStep

(* A demotion never leads up to L3.                                        *)
LEMMA DemoteCommit ==
    ASSUME TrustInv, NEW w \in Workers, CommitDemote(w)
    PROVE  TrustInv'
<1>1. PICK r \in Request : r = req[w]
  BY DEF TrustInv, TypeOK
<1> DEFINE to == IF r.level = "L3" THEN "L2" ELSE "L1"
<1>2. Reliable(r) /\ r.op = "demote" /\ r.pair \in Pairs /\ r.level \in Levels
  BY <1>1 DEF TrustInv, CommitDemote, Doing, Reliable, Request
<1>3. /\ Transition(r.pair, r.level, to, TRUE)
      /\ Finish(w)
      /\ UNCHANGED <<joint_session_count, joint, settings, solo>>
  BY <1>1 DEF CommitDemote
<1>4. to \in TrustLevels /\ to # "L3"
  BY DEF TrustLevels
<1> HIDE DEF to
<1> QED
  BY <1>2, <1>3, <1>4, LevelStep

(* A required count is only written when it is at least the minimum.       *)
LEMMA RequiredCommit ==
    ASSUME TrustInv, NEW w \in Workers, CommitRequired(w)
    PROVE  TrustInv'
<1>1. PICK r \in Request : r = req[w]
  BY DEF TrustInv, TypeOK
<1>2. /\ TypeOK
      /\ r.actor \in Users
      /\ r.asked \in Nat
      /\ r.asked >= MIN_REQUIRED_JOINT_COUNT
  BY <1>1 DEF TrustInv, CommitRequired, Doing, Reliable, EnoughAsked, Request
<1>3. /\ settings' = settings \/ settings' = [settings EXCEPT ![r.actor] = r.asked]
      /\ Finish(w)
      /\ UNCHANGED <<level, joint_session_count, history, joint, events,
                     notifications, solo>>
  BY <1>1 DEF CommitRequired
<1>4. /\ settings' \in [Users -> Nat]
      /\ \A u \in Users : settings'[u] = 0 \/ settings'[u] >= MIN_REQUIRED_JOINT_COUNT
  BY <1>2, <1>3 DEF TrustInv, TypeOK
<1>5. TypeOK' /\ Others(w) /\ WorkerInv(w)'
  BY <1>2, <1>3, <1>4, FinishInv DEF TypeOK
<1>6. \A p \in Pairs : level'[p] = "L3" \/ p \in solo' => Earned(p)
  BY <1>3 DEF TrustInv, PairInv
<1> QED
  BY <1>3, <1>4, <1>5, <1>6, QuietStep

(* Solo care committed after the level was read is still earned.           *)
LEMMA SoloCommit ==
    ASSUME TrustInv, NEW w \in Workers, CommitSolo(w)
    PROVE  TrustInv'
<1>1. PICK r \in Request : r = req[w]
  BY DEF TrustInv, TypeOK
<1>2. TypeOK /\ r.pair \in Pairs /\ Earned(r.pair)
  BY <1>1 DEF TrustInv, CommitSolo, Doing, Reliable
<1>3. /\ solo' = solo \cup {r.pair}
      /\ Finish(w)
      /\ UNCHANGED <<level, joint_session_count, history, joint, settings, events,
                     notifications>>
  BY <1>1 DEF CommitSolo
<1>4. TypeOK' /\ Others(w) /\ WorkerInv(w)'
  BY <1>2, <1>3, FinishInv DEF TypeOK
<1>5. \A p \in Pairs : level'[p] = "L3" \/ p \in solo' => Earned(p)
  BY <1>2, <1>3 DEF TrustInv, PairInv
<1> QED
  BY <1>3, <1>4, <1>5, QuietStep DEF TrustInv

-----------------------------------------------------------------------------
(* The theorems.                                                           *)

(* Nothing has happened yet.                                               *)
LEMMA InitInv == Init => TrustInv
<1> SUFFICES ASSUME Init PROVE TrustInv
  OBVIOUS
<1>1. NoJoint \in JointCareSession
  BY DEF NoJoint, JointCareSession
<1>2. TypeOK
  BY <1>1, IdleType DEF Init, TypeOK, Levels, Steps
<1>3. \A j \in JointIds : JointInv(j)
  BY DEF Init, JointInv, Exists, NoJoint
<1>4. ASSUME NEW p \in Pairs PROVE PairInv(p)
  <2>1. Cardinality(CompletedOf(p)) \in Nat
    BY CompletedFinite
  <2> QED
    BY <2>1 DEF Init, PairInv
<1>5. \A w \in Workers : Reliable(req[w]) /\ StepInv(w)
  BY DEF Init, Reliable, EnoughAsked, StepInv, NoRequest, Unseen
<1> QED
  BY <1>2, <1>3, <1>4, <1>5 DEF Init, TrustInv

(* Every step keeps the invariant.                                         *)
LEMMA NextInv == TrustInv /\ [Next]_vars => TrustInv'
<1> SUFFICES ASSUME TrustInv, [Next]_vars PROVE TrustInv'
  OBVIOUS
<1>1. ASSUME NEW w \in Workers, Proceed(w) PROVE TrustInv'
  <2>1. CASE Refused(w)
    BY <2>1, FinishOnly DEF Refused
  <2> QED
    BY <1>1, <2>1, GrantCommit, ScheduleCommit, ConfirmCommit,
       ConfirmAndSettingsCommit, SettingsCommit, ReadSettingsInv, PromotionCommit,
       RequiredCommit, DemoteCommit, SoloCommit DEF Proceed
<1>2. ASSUME NEW w \in Workers, Fail(w) PROVE TrustInv'
  BY <1>2, FinishOnly DEF Fail
<1>3. CASE UNCHANGED vars
  <2>1. UNCHANGED <<level, joint_session_count, history, joint, settings, events,
                    notifications, solo, pc, req>>
    BY <1>3 DEF vars, dbVars
  <2>2. TypeOK /\ TypeOK'
    BY <2>1 DEF TrustInv, TypeOK
  <2>3. Kept /\ (\A j \in JointIds : JointInv(j)') /\ (\A p \in Pairs : PairInv(p)')
    BY <2>1, JointUnchanged DEF TrustInv, PairInv
  <2>4. joint' \in [JointIds -> JointCareSession]
    BY <2>2 DEF TypeOK
  <2>5. ASSUME NEW v \in Workers PROVE WorkerInv(v)'
    <3>1. WorkerInv(v) /\ pc'[v] = pc[v] /\ req'[v] = req[v]
      BY <2>1 DEF TrustInv, WorkerInv
    <3> QED
      BY <2>2, <2>3, <2>4, <3>1, KeptWorker
  <2>6. \A u \in Users : settings'[u] = 0 \/ settings'[u] >= MIN_REQUIRED_JOINT_COUNT
    BY <2>1 DEF TrustInv
  <2> QED
    BY <2>2, <2>3, <2>5, <2>6 DEF TrustInv, WorkerInv
<1> QED
  BY <1>1, <1>2, <1>3, CallInv DEF Next

(* Every state reached, by whatever requests in flight together, satisfies *)
(* the invariant: all columns hold values of their types, what is counted  *)
(* was confirmed, what is unlocked was earned.                             *)
THEOREM TrustInvariantHolds == Spec => []TrustInv
BY InitInv, NextInv, PTL DEF Spec

(* A joint session counts at most once and only when both have confirmed   *)
(* it, although confirm_joint_session writes a count it read earlier.      *)
THEOREM CountIsBacked == Spec => []CountBacked
<1>1. TrustInv => CountBacked
  BY DEF TrustInv, JointInv, PairInv, CountBacked
<1> QED
  BY <1>1, TrustInvariantHolds, PTL

(* Solo care is only requested between users who have completed at least   *)
(* the minimum number of joint sessions with each other, although          *)
(* create_request reads the level before it commits and settings, counts   *)
(* and levels are written by other requests meanwhile.                     *)
THEOREM SoloIsEarned == Spec => []SoloEarned
<1>1. TrustInv => SoloEarned
  BY DEF TrustInv, TypeOK, PairInv, Earned, SoloEarned
<1> QED
  BY <1>1, TrustInvariantHolds, PTL

-----------------------------------------------------------------------------
(* One request at a time.                                                  *)

Alone(w) == \A v \in Workers : pc[v] # "idle" => v = w

-----------------------------------------------------------------------------
(* One request at a time.                                                  *)

(* A request in flight is the only one.                                    *)
LEMMA InFlightAlone ==
    ASSUME OneAtATime, NEW w \in Workers, pc[w] # "idle"
    PROVE  Alone(w)
BY DEF OneAtATime, Alone

(* A worker without a request relies on nothing.                           *)
LEMMA NothingRead ==
    /\ SeenFits(NoRequest) /\ FirstFits(NoRequest)
    /\ NoRequest.op = "none" /\ ~NoRequest.completes
BY DEF SeenFits, FirstFits, NoRequest, Unseen

(* After a step of the only request, only its worker has to be looked at.  *)
LEMMA OneMoves ==
    ASSUME TrustSerialInv, NEW w \in Workers, Alone(w), Others(w), ReadFits(w)',
           CountExact', \A p \in Pairs : HistoryFits(p)'
    PROVE  TrustSerialInv'
<1>1. \A v \in Workers \ {w} : pc'[v] = "idle" /\ req'[v] = NoRequest
  BY DEF Alone, Others, TrustSerialInv, ReadFits
<1>2. OneAtATime'
  BY <1>1 DEF OneAtATime
<1>3. ASSUME NEW v \in Workers, v # w PROVE ReadFits(v)'
  <2>1. pc'[v] = "idle" /\ req'[v] = NoRequest
    BY <1>1, <1>3
  <2>2. SeenFits(req[v])'
    BY <2>1 DEF SeenFits, NoRequest, Unseen
  <2> QED
    BY <2>1, <2>2, NothingRead DEF ReadFits
<1> QED
  BY <1>2, <1>3 DEF TrustSerialInv

(* A request that ends relies on nothing any more.                         *)
LEMMA FinishFits ==
    ASSUME TypeOK, NEW w \in Workers, Finish(w)
    PROVE  Others(w) /\ pc'[w] = "idle" /\ ReadFits(w)'
<1>1. Others(w) /\ pc'[w] = "idle" /\ req'[w] = NoRequest
  BY DEF TypeOK, Finish, Others
<1>2. SeenFits(req[w])'
  BY <1>1 DEF SeenFits, NoRequest, Unseen
<1> QED
  BY <1>1, <1>2, NothingRead DEF ReadFits

(* Counts and histories depend on nothing else.                            *)
LEMMA SameCounts ==
    ASSUME CountExact, joint' = joint, joint_session_count' = joint_session_count
    PROVE  CountExact'
BY DEF CountExact, CompletedOf

LEMMA SameHistory ==
    ASSUME \A p \in Pairs : HistoryFits(p), level' = level, history' = history
    PROVE  \A p \in Pairs : HistoryFits(p)'
BY DEF HistoryFits

-----------------------------------------------------------------------------
(* What get_or_create reads.                                               *)

LEMMA SeenNowFits ==
    ASSUME NEW p \in SUBSET Users, NEW seen \in [Users -> Nat],
           \A u \in Users : seen[u] # 0 => seen[u] = settings[u]
    PROVE  \A u \in Users : SeenNow(p, seen)[u] # 0 => SeenNow(p, seen)[u] = settings[u]
BY DEF SeenNow

(* Reading stops at the first user whose settings are missing.             *)
LEMMA SeenNowMissing ==
    ASSUME NEW r, NEW seen \in [Users -> Nat], r.pair \in SUBSET Users,
           r.seen = SeenNow(r.pair, seen)
    PROVE  NextIsMissing(r)
<1> SUFFICES ASSUME NEW u \in Users, IsNextUnseen(r, u), settings[u] # 0 PROVE FALSE
  BY DEF NextIsMissing
<1>1. PICK missing : missing = {m \in r.pair : seen[m] = 0 /\ settings[m] = 0}
  OBVIOUS
<1>2. \A v \in Users : r.seen[v] = IF v \in r.pair /\ seen[v] = 0 /\ \A m \in missing : v < m
                                   THEN settings[v] ELSE seen[v]
  BY <1>1 DEF SeenNow
<1>3. u \in r.pair /\ r.seen[u] = 0 /\ \A v \in r.pair : r.seen[v] = 0 => u <= v
  BY DEF IsNextUnseen
<1>4. seen[u] = 0
  BY <1>2, <1>3
<1>5. PICK m \in missing : ~(u < m)
  BY <1>2, <1>3, <1>4
<1>6. m \in r.pair /\ m \in Users /\ seen[m] = 0 /\ settings[m] = 0
  BY <1>1, <1>5
<1>7. r.seen[m] = 0
  BY <1>2, <1>6
<1>8. u <= m /\ u \in Nat /\ m \in Nat
  BY <1>3, <1>6, <1>7, TrustAssumption
<1>9. u = m
  BY <1>5, <1>8
<1> QED
  BY <1>6, <1>9

-----------------------------------------------------------------------------
(* The first read of each handler.                                         *)

LEMMA StartFits ==
    ASSUME TrustInv, TrustSerialInv, Serial, NEW w \in Workers, NEW op, NEW r,
           Start(w, op, r), r.op = op, op # "none", SeenFits(r),
           op # "set" => r.level = level[r.pair],
           op = "set" => NextIsMissing(r) /\ ~r.completes,
           FirstFits(r)
    PROVE  TrustSerialInv'
<1>1. /\ UNCHANGED <<level, joint_session_count, history, joint, settings>>
      /\ \A v \in Workers : pc[v] = "idle"
      /\ req' = [req EXCEPT ![w] = r]
      /\ \/ pc' = [pc EXCEPT ![w] = "commit"]
         \/ pc' = [pc EXCEPT ![w] = "insert"] /\ op = "set"
  BY DEF Start, dbVars
<1>2. Alone(w) /\ Others(w) /\ req'[w] = r
  BY <1>1 DEF Alone, Others, TrustInv, TypeOK
<1>3. pc'[w] = "commit" \/ (pc'[w] = "insert" /\ op = "set")
  BY <1>1 DEF TrustInv, TypeOK
<1>4. SeenFits(r)' /\ FirstFits(r)' /\ (op = "set" => NextIsMissing(r)')
  BY <1>1 DEF SeenFits, FirstFits, NextIsMissing
<1>5. ReadFits(w)'
  <2>1. SeenFits(req[w])' /\ FirstFits(req[w])' /\ (op = "set" => NextIsMissing(req[w])')
    BY <1>2, <1>4 DEF SeenFits, FirstFits, NextIsMissing
  <2> QED
    BY <1>1, <1>2, <1>3, <2>1 DEF ReadFits, LaterFits
<1>6. CountExact' /\ \A p \in Pairs : HistoryFits(p)'
  BY <1>1, SameCounts, SameHistory DEF TrustSerialInv
<1> QED
  BY <1>2, <1>5, <1>6, OneMoves

LEMMA PlainStartFits ==
    ASSUME TrustInv, TrustSerialInv, Serial, NEW w \in Workers,
           NEW op \in {"grant", "schedule", "demote", "solo"}, NEW u, NEW p \in Pairs,
           Start(w, op, About(op, u, p, 0, FALSE, Unseen, 0)),
           op = "demote" => level[p] \in {"L2", "L3"}
    PROVE  TrustSerialInv'
<1>1. PICK r : r = About(op, u, p, 0, FALSE, Unseen, 0)
  OBVIOUS
<1>2. r.op = op /\ r.pair = p /\ r.level = level[p] /\ r.seen = Unseen /\ ~r.completes
  BY <1>1 DEF About
<1>3. SeenFits(r) /\ FirstFits(r)
  BY <1>2 DEF SeenFits, FirstFits, Unseen
<1> QED
  BY <1>1, <1>2, <1>3, StartFits

LEMMA ConfirmStartFits ==
    ASSUME TrustInv, TrustSerialInv, Serial, NEW w \in Workers, NEW u \in Users,
           NEW j \in JointIds, confirm_joint_session(w, u, j)
    PROVE  TrustSerialInv'
<1>1. PICK p, c, seen :
          /\ p = joint[j].pair
          /\ c = Completes(Confirmed(joint[j], u))
          /\ seen = IF c THEN SeenNow(p, Unseen) ELSE Unseen
  OBVIOUS
<1>2. u \in p /\ Start(w, "confirm", About("confirm", u, p, j, c, seen, 0))
  BY <1>1 DEF confirm_joint_session
<1>3. p \in Pairs /\ p \in SUBSET Users
  BY <1>1, <1>2, PairMembers DEF TrustInv, JointInv
<1>4. PICK r : r = About("confirm", u, p, j, c, seen, 0)
  OBVIOUS
<1>5. /\ r.op = "confirm" /\ r.pair = p /\ r.level = level[p] /\ r.seen = seen
      /\ r.completes = c /\ r.joint = j /\ r.count = joint_session_count[p]
  BY <1>3, <1>4 DEF About
<1>6. Unseen \in [Users -> Nat] /\ \A v \in Users : Unseen[v] = 0
  BY DEF Unseen
<1>7. SeenFits(r)
  <2>1. \A v \in Users : SeenNow(p, Unseen)[v] # 0 => SeenNow(p, Unseen)[v] = settings[v]
    BY <1>3, <1>6, SeenNowFits
  <2> QED
    BY <1>1, <1>5, <1>6, <2>1 DEF SeenFits
<1>8. r.completes => joint[r.joint].status # "COMPLETED" /\ NextIsMissing(r)
  <2> SUFFICES ASSUME c PROVE joint[j].status # "COMPLETED" /\ NextIsMissing(r)
    BY <1>5
  <2>1. joint[j] \in JointCareSession
    BY DEF TrustInv, TypeOK
  <2>2. joint[j].status # "COMPLETED"
    BY <1>1, <2>1 DEF Completes, Confirmed, JointCareSession
  <2>3. r.seen = SeenNow(r.pair, Unseen) /\ r.pair \in SUBSET Users
    BY <1>1, <1>3, <1>5
  <2> QED
    BY <1>6, <2>2, <2>3, SeenNowMissing
<1>9. FirstFits(r)
  BY <1>5, <1>8 DEF FirstFits
<1> QED
  BY <1>2, <1>4, <1>5, <1>7, <1>9, StartFits

LEMMA SetStartFits ==
    ASSUME TrustInv, TrustSerialInv, Serial, NEW w \in Workers, NEW u \in Users, NEW n,
           set_required_count(w, u, n)
    PROVE  TrustSerialInv'
<1>1. PICK r : r = About("set", u, {u}, 0, FALSE, SeenNow({u}, Unseen), n)
  OBVIOUS
<1>2. Start(w, "set", r)
  BY <1>1 DEF set_required_count
<1>3. /\ r.op = "set" /\ r.pair = {u} /\ ~r.completes
      /\ r.seen = SeenNow(r.pair, Unseen) /\ r.pair \in SUBSET Users
  BY <1>1 DEF About
<1>4. Unseen \in [Users -> Nat] /\ \A v \in Users : Unseen[v] = 0
  BY DEF Unseen
<1>5. NextIsMissing(r)
  BY <1>3, <1>4, SeenNowMissing
<1>6. SeenFits(r)
  <2>1. \A v \in Users : SeenNow({u}, Unseen)[v] # 0 => SeenNow({u}, Unseen)[v] = settings[v]
    BY <1>4, SeenNowFits
  <2> QED
    BY <1>3, <2>1 DEF SeenFits
<1>7. FirstFits(r)
  BY <1>3 DEF FirstFits
<1> QED
  BY <1>2, <1>3, <1>5, <1>6, <1>7, StartFits

LEMMA CallFits ==
    ASSUME TrustInv, TrustSerialInv, Serial, NEW w \in Workers, Call(w)
    PROVE  TrustSerialInv'
<1>1. ASSUME NEW u \in Users, NEW v \in Users,
             grant_l1(w, u, v) \/ schedule_joint_session(w, u, v) \/ request_solo(w, u, v)
      PROVE  TrustSerialInv'
  <2>1. {u, v} \in Pairs
    BY <1>1 DEF grant_l1, schedule_joint_session, request_solo, Pairs
  <2>2. \E op \in {"grant", "schedule", "solo"} :
            Start(w, op, About(op, u, {u, v}, 0, FALSE, Unseen, 0))
    BY <1>1 DEF grant_l1, schedule_joint_session, request_solo
  <2> QED
    BY <2>1, <2>2, PlainStartFits
<1>2. ASSUME NEW p \in Pairs, demote(w, p) PROVE TrustSerialInv'
  BY <1>2, PlainStartFits DEF demote
<1> QED
  BY <1>1, <1>2, ConfirmStartFits, SetStartFits DEF Call
-----------------------------------------------------------------------------
(* Counts and histories.                                                   *)

(* A history that goes on from where it ended is still a chain.            *)
LEMMA ChainGrows ==
    ASSUME NEW h \in Seq(TrustLevelHistory), NEW e \in TrustLevelHistory,
           Chained(h), e.previous_level = LevelBefore(h, Len(h) + 1), Moves(e)
    PROVE  /\ Chained(Append(h, e))
           /\ LevelBefore(Append(h, e), Len(Append(h, e)) + 1) = e.new_level
<1>1. PICK n \in Nat : n = Len(h)
  OBVIOUS
<1>2. PICK g : g = Append(h, e)
  OBVIOUS
<1>3. Len(g) = n + 1 /\ g[n + 1] = e /\ \A i \in 1..n : g[i] = h[i]
  BY <1>1, <1>2
<1>4. ASSUME NEW i \in 1..n + 1 PROVE g[i].previous_level = LevelBefore(g, i) /\ Moves(g[i])
  <2>1. LevelBefore(g, i) = LevelBefore(h, i)
    BY <1>1, <1>3 DEF LevelBefore
  <2>2. CASE i \in 1..n
    BY <1>1, <1>3, <2>1, <2>2 DEF Chained
  <2>3. CASE i = n + 1
    BY <1>1, <1>3, <2>1, <2>3
  <2> QED
    BY <2>2, <2>3
<1>5. Chained(g)
  BY <1>3, <1>4 DEF Chained
<1>6. LevelBefore(g, n + 1 + 1) = e.new_level
  BY <1>1, <1>3 DEF LevelBefore
<1> QED
  BY <1>2, <1>3, <1>5, <1>6

(* A transition from the level a pair has is the next entry of its chain.  *)
LEMMA TransitionFits ==
    ASSUME TypeOK, \A q \in Pairs : HistoryFits(q), NEW p \in Pairs,
           NEW from \in TrustLevels, NEW to \in TrustLevels, NEW byAdmin \in BOOLEAN,
           level[p] = from, IF byAdmin THEN <<to, from>> \in Up ELSE <<from, to>> \in Up,
           Transition(p, from, to, byAdmin)
    PROVE  \A q \in Pairs : HistoryFits(q)'
<1>1. PICK e : e = [previous_level |-> from, new_level |-> to, by_admin |-> byAdmin]
  OBVIOUS
<1>2. PICK h : h = history[p]
  OBVIOUS
<1>3. /\ e \in TrustLevelHistory /\ e.previous_level = from /\ e.new_level = to
      /\ h \in Seq(TrustLevelHistory)
  BY <1>1, <1>2 DEF TrustLevelHistory, Levels, TypeOK
<1>4. Moves(e)
  BY <1>1 DEF Moves
<1>5. from # "NONE" /\ to # "NONE"
  BY DEF TrustLevels
<1>6. Chained(h) /\ from = LevelBefore(h, Len(h) + 1)
  BY <1>2, <1>5 DEF HistoryFits
<1>7. PICK g : g = Append(h, e)
  OBVIOUS
<1>8. Chained(g) /\ LevelBefore(g, Len(g) + 1) = to
  BY <1>3, <1>4, <1>6, <1>7, ChainGrows
<1>9. level' = [level EXCEPT ![p] = to] /\ history' = [history EXCEPT ![p] = g]
  BY <1>1, <1>2, <1>7 DEF Transition
<1>10. /\ level'[p] = to /\ history'[p] = g
       /\ \A q \in Pairs \ {p} : level'[q] = level[q] /\ history'[q] = history[q]
  BY <1>9 DEF TypeOK
<1>11. HistoryFits(p)'
  BY <1>5, <1>8, <1>10 DEF HistoryFits
<1>12. ASSUME NEW q \in Pairs \ {p} PROVE HistoryFits(q)'
  BY <1>10 DEF HistoryFits
<1> QED
  BY <1>11, <1>12

(* A promotion goes on from L2, if there is one.                           *)
LEMMA PromotionFits ==
    ASSUME TypeOK, \A q \in Pairs : HistoryFits(q), NEW p \in Pairs,
           (level[p] = "L2" /\ Transition(p, "L2", "L3", FALSE)) \/ NoTransition
    PROVE  \A q \in Pairs : HistoryFits(q)'
<1>1. CASE NoTransition
  BY <1>1, SameHistory DEF NoTransition
<1>2. CASE level[p] = "L2" /\ Transition(p, "L2", "L3", FALSE)
  <2>1. "L2" \in TrustLevels /\ "L3" \in TrustLevels /\ <<"L2", "L3">> \in Up
    BY DEF TrustLevels, Up
  <2> QED
    BY <1>2, <2>1, TransitionFits
<1> QED
  BY <1>1, <1>2

(* A confirmation counts one session more exactly if it completes one.     *)
LEMMA ConfirmCounts ==
    ASSUME TrustInv, CountExact, NEW r \in Request, r.op = "confirm", Reliable(r),
           FirstFits(r), Confirm(r)
    PROVE  CountExact' /\ (r.completes => joint_session_count'[r.pair] = r.count + 1)
<1>1. r.joint \in JointIds /\ joint[r.joint].pair = r.pair /\ r.pair \in Pairs
  BY DEF Reliable
<1>2. PICK row, new : row = joint[r.joint] /\ new = WithConfirmation(row, r)
  OBVIOUS
<1>3. row \in JointCareSession
  BY <1>1, <1>2 DEF TrustInv, TypeOK
<1>4. /\ new.pair = row.pair
      /\ new.status = IF r.completes THEN "COMPLETED" ELSE row.status
  BY <1>2, <1>3 DEF JointCareSession, WithConfirmation, Confirmed
<1>5. /\ joint'[r.joint] = new
      /\ \A j \in JointIds \ {r.joint} : joint'[j] = joint[j]
  BY <1>1, <1>2 DEF Confirm, TrustInv, TypeOK
<1>6. CASE ~r.completes
  <2>1. \A p \in Pairs : CompletedOf(p)' = CompletedOf(p)
    BY <1>2, <1>4, <1>5, <1>6 DEF CompletedOf
  <2> QED
    BY <1>6, <2>1 DEF Confirm, CountExact
<1>7. CASE r.completes
  <2>1. r.joint \notin CompletedOf(r.pair)
    BY <1>7 DEF FirstFits, CompletedOf
  <2>2. CompletedOf(r.pair)' = CompletedOf(r.pair) \cup {r.joint}
    BY <1>1, <1>2, <1>4, <1>5, <1>7 DEF CompletedOf
  <2>3. \A p \in Pairs \ {r.pair} : CompletedOf(p)' = CompletedOf(p)
    BY <1>1, <1>2, <1>4, <1>5 DEF CompletedOf
  <2>4. Cardinality(CompletedOf(r.pair)') = Cardinality(CompletedOf(r.pair)) + 1
    BY <2>1, <2>2, CompletedFinite, FS_AddElement
  <2>5. /\ joint_session_count'[r.pair] = r.count + 1
        /\ \A p \in Pairs \ {r.pair} : joint_session_count'[p] = joint_session_count[p]
    BY <1>1, <1>7 DEF Confirm, TrustInv, TypeOK
  <2>6. r.count = Cardinality(CompletedOf(r.pair))
    BY <1>1 DEF FirstFits, CountExact
  <2> QED
    BY <2>3, <2>4, <2>5, <2>6 DEF CountExact
<1> QED
  BY <1>6, <1>7

(* An inserted requirement was read by nobody.                             *)
LEMMA InsertFits ==
    ASSUME TypeOK, NEW u \in Users, Insert(u), NEW r, SeenFits(r)
    PROVE  \A v \in Users : r.seen[v] # 0 => r.seen[v] = settings'[v]
BY DEF Insert, SeenFits, TypeOK

-----------------------------------------------------------------------------
(* The transactions.                                                       *)

(* A step of worker w that ends its request.                               *)
LEMMA EndFits ==
    ASSUME TrustInv, TrustSerialInv, NEW w \in Workers, pc[w] # "idle", Finish(w),
           CountExact', \A p \in Pairs : HistoryFits(p)'
    PROVE  TrustSerialInv'
<1>1. Alone(w)
  BY InFlightAlone DEF TrustSerialInv
<1>2. Others(w) /\ ReadFits(w)'
  BY FinishFits DEF TrustInv
<1> QED
  BY <1>1, <1>2, OneMoves

(* What the request in flight has read when it commits first.              *)
LEMMA CommitReads ==
    ASSUME TrustInv, TrustSerialInv, NEW w \in Workers, pc[w] = "commit", req[w].op # "none"
    PROVE  \E r \in Request :
              /\ r = req[w] /\ Reliable(r) /\ SeenFits(r) /\ FirstFits(r)
              /\ r.op # "set" => r.pair \in Pairs /\ r.level = level[r.pair]
<1>1. PICK r \in Request : r = req[w]
  BY DEF TrustInv, TypeOK
<1>2. Reliable(r)
  BY <1>1 DEF TrustInv
<1>3. SeenFits(r) /\ FirstFits(r) /\ (r.op # "set" => r.level = level[r.pair])
  BY <1>1 DEF TrustSerialInv, ReadFits
<1> QED
  BY <1>1, <1>2, <1>3 DEF Reliable

LEMMA GrantFits ==
    ASSUME TrustInv, TrustSerialInv, NEW w \in Workers, CommitGrant(w)
    PROVE  TrustSerialInv'
<1>1. PICK r \in Request : r = req[w] /\ r.pair \in Pairs
  BY CommitReads DEF CommitGrant, Doing
<1>2. /\ pc[w] # "idle" /\ Finish(w) /\ level[r.pair] = "NONE"
      /\ level' = [level EXCEPT ![r.pair] = "L1"]
      /\ UNCHANGED <<joint_session_count, history, joint>>
  BY <1>1 DEF CommitGrant, Doing
<1>3. ASSUME NEW p \in Pairs PROVE HistoryFits(p)'
  <2>1. HistoryFits(p)
    BY DEF TrustSerialInv
  <2>2. CASE p # r.pair
    BY <1>1, <1>2, <2>1, <2>2 DEF HistoryFits, TrustInv, TypeOK
  <2>3. CASE p = r.pair
    <3>1. history'[p] = <<>> /\ level'[p] = "L1"
      BY <1>1, <1>2, <2>1, <2>3 DEF HistoryFits, TrustInv, TypeOK
    <3> QED
      BY <3>1 DEF HistoryFits, Chained, LevelBefore
  <2> QED
    BY <2>2, <2>3
<1>4. CountExact'
  BY <1>2, SameCounts DEF TrustSerialInv
<1> QED
  BY <1>2, <1>3, <1>4, EndFits

LEMMA ScheduleFits ==
    ASSUME TrustInv, TrustSerialInv, NEW w \in Workers, CommitSchedule(w)
    PROVE  TrustSerialInv'
<1>1. PICK r \in Request : r = req[w] /\ r.pair \in Pairs /\ r.level = level[r.pair]
  BY CommitReads DEF CommitSchedule, Doing
<1>2. /\ pc[w] # "idle" /\ Finish(w) /\ joint_session_count' = joint_session_count
      /\ \/ r.level = "L1" /\ Transition(r.pair, "L1", "L2", FALSE)
         \/ NoTransition
  BY <1>1 DEF CommitSchedule, Doing
<1> DEFINE new == [pair |-> req[w].pair, initiator |-> req[w].actor,
                   confirmed_by_initiator |-> FALSE, confirmed_by_partner |-> FALSE,
                   status |-> "SCHEDULED"]
<1>3. PICK j \in JointIds : IsNext(j) /\ joint' = [joint EXCEPT ![j] = new]
  BY DEF CommitSchedule
<1>4. \A p : CompletedOf(p)' = CompletedOf(p)
  BY <1>3 DEF CompletedOf, IsNext, Exists, TrustInv, TypeOK
<1>5. CountExact'
  BY <1>2, <1>4 DEF CountExact, TrustSerialInv
<1>6. \A p \in Pairs : HistoryFits(p)'
  <2>1. \A p \in Pairs : HistoryFits(p)
    BY DEF TrustSerialInv
  <2>2. CASE NoTransition
    BY <2>1, <2>2, SameHistory DEF NoTransition
  <2>3. CASE r.level = "L1" /\ Transition(r.pair, "L1", "L2", FALSE)
    <3>1. "L1" \in TrustLevels /\ "L2" \in TrustLevels /\ <<"L1", "L2">> \in Up
      BY DEF TrustLevels, Up
    <3> QED
      BY <1>1, <2>1, <2>3, <3>1, TransitionFits DEF TrustInv
  <2> QED
    BY <1>2, <2>2, <2>3
<1> QED
  BY <1>2, <1>5, <1>6, EndFits

(* A confirmation in one transaction.                                      *)
LEMMA ConfirmFits ==
    ASSUME TrustInv, TrustSerialInv, NEW w \in Workers, CommitConfirm(w)
    PROVE  TrustSerialInv'
<1>1. PICK r \in Request : /\ r = req[w] /\ Reliable(r) /\ FirstFits(r)
                           /\ r.pair \in Pairs /\ r.level = level[r.pair]
  BY CommitReads DEF CommitConfirm, Doing
<1>2. /\ pc[w] # "idle" /\ Finish(w) /\ r.op = "confirm" /\ Confirm(r)
      /\ \/ Promotes(r) /\ Transition(r.pair, "L2", "L3", FALSE)
         \/ NoTransition
  BY <1>1 DEF CommitConfirm, Doing
<1>3. CountExact'
  BY <1>1, <1>2, ConfirmCounts DEF TrustSerialInv
<1>4. \A p \in Pairs : HistoryFits(p)'
  BY <1>1, <1>2, PromotionFits DEF TrustInv, TrustSerialInv, Promotes
<1> QED
  BY <1>2, <1>3, <1>4, EndFits

(* A confirmation that inserts settings on its way.                        *)
LEMMA ConfirmAndSettingsFits ==
    ASSUME TrustInv, TrustSerialInv, NEW w \in Workers, CommitConfirmAndSettings(w)
    PROVE  TrustSerialInv'
<1>1. PICK r \in Request : /\ r = req[w] /\ Reliable(r) /\ SeenFits(r) /\ FirstFits(r)
                           /\ r.pair \in Pairs /\ r.level = level[r.pair]
  BY CommitReads DEF CommitConfirmAndSettings, Doing
<1>2. /\ pc[w] # "idle" /\ r.op = "confirm" /\ r.completes /\ Confirm(r)
      /\ NoTransition /\ Continue(w, "settings")
  BY <1>1 DEF CommitConfirmAndSettings, Doing
<1>3. PICK u \in Users : Insert(u)
  BY DEF CommitConfirmAndSettings
<1>4. CountExact' /\ joint_session_count'[r.pair] = r.count + 1
  BY <1>1, <1>2, ConfirmCounts DEF TrustSerialInv
<1>5. /\ level' = level /\ history' = history /\ req' = req
      /\ pc'[w] = "settings" /\ Others(w)
  BY <1>2, ContinueType DEF NoTransition, TrustInv, Steps
<1>6. \A p \in Pairs : HistoryFits(p)'
  BY <1>5, SameHistory DEF TrustSerialInv
<1>7. ReadFits(w)'
  <2>1. SeenFits(req[w])'
    BY <1>1, <1>3, <1>5, InsertFits DEF SeenFits, TrustInv
  <2>2. LaterFits(req[w])'
    BY <1>1, <1>4, <1>5 DEF LaterFits
  <2> QED
    BY <1>1, <1>5, <2>1, <2>2 DEF ReadFits
<1> QED
  BY <1>2, <1>4, <1>5, <1>6, <1>7, InFlightAlone, OneMoves DEF TrustSerialInv

(* get_or_create's own commit.                                             *)
LEMMA SettingsFits ==
    ASSUME TrustInv, TrustSerialInv, NEW w \in Workers, CommitSettings(w)
    PROVE  TrustSerialInv'
<1>1. PICK u \in Users : Insert(u)
  BY DEF CommitSettings
<1>2. /\ pc[w] = "insert" /\ Continue(w, "settings")
      /\ UNCHANGED <<level, joint_session_count, history, joint>>
  BY DEF CommitSettings
<1>3. req' = req /\ pc'[w] = "settings" /\ Others(w)
  BY <1>2, ContinueType DEF TrustInv, Steps
<1>4. ReadFits(w)
  BY DEF TrustSerialInv
<1>5. ReadFits(w)'
  <2>1. SeenFits(req[w])'
    BY <1>1, <1>3, <1>4, InsertFits DEF SeenFits, ReadFits, TrustInv
  <2>2. LaterFits(req[w])'
    BY <1>2, <1>3, <1>4 DEF LaterFits, ReadFits
  <2> QED
    BY <1>2, <1>3, <1>4, <2>1, <2>2 DEF ReadFits
<1>6. CountExact' /\ \A p \in Pairs : HistoryFits(p)'
  BY <1>2, SameCounts, SameHistory DEF TrustSerialInv
<1> QED
  BY <1>2, <1>3, <1>5, <1>6, InFlightAlone, OneMoves DEF TrustSerialInv

(* Reading the settings back: what is read is what is there.               *)
LEMMA ReadSettingsFits ==
    ASSUME TrustInv, TrustSerialInv, NEW w \in Workers, ReadSettings(w)
    PROVE  TrustSerialInv'
<1>1. PICK q \in Request : q = req[w]
  BY DEF TrustInv, TypeOK
<1>2. PICK r : r = [q EXCEPT !.seen = SeenNow(q.pair, q.seen)]
  OBVIOUS
<1>3. /\ r.seen = SeenNow(r.pair, q.seen) /\ r.pair = q.pair /\ r.pair \in SUBSET Users
      /\ q.seen \in [Users -> Nat]
      /\ r.op = q.op /\ r.level = q.level /\ r.completes = q.completes /\ r.count = q.count
      /\ r.joint = q.joint
  BY <1>2 DEF Request
<1>4. /\ pc[w] = "settings"
      /\ UNCHANGED <<level, joint_session_count, history, joint, settings>>
      /\ \/ pc' = [pc EXCEPT ![w] = "insert"] /\ req' = [req EXCEPT ![w] = r]
         \/ pc' = [pc EXCEPT ![w] = "commit"] /\ req' = [req EXCEPT ![w] = r] /\ r.op = "set"
         \/ /\ pc' = [pc EXCEPT ![w] = "promote"] /\ req' = [req EXCEPT ![w] = r]
            /\ AllSeen(r.pair, r.seen) /\ Promotes(r)
         \/ Finish(w)
  BY <1>1, <1>2 DEF ReadSettings, dbVars
<1>5. ReadFits(w) /\ Reliable(q)
  BY <1>1 DEF TrustSerialInv, TrustInv
<1>6. CountExact' /\ \A p \in Pairs : HistoryFits(p)'
  BY <1>4, SameCounts, SameHistory DEF TrustSerialInv
<1>7. CASE Finish(w)
  BY <1>4, <1>6, <1>7, EndFits
<1>8. CASE ~Finish(w)
  <2>1. /\ req'[w] = r /\ Others(w) /\ pc'[w] \in {"insert", "commit", "promote"}
        /\ pc'[w] = "commit" => r.op = "set"
        /\ pc'[w] = "promote" => AllSeen(r.pair, r.seen) /\ Promotes(r)
    BY <1>4, <1>8 DEF TrustInv, TypeOK, Others
  <2>2. SeenFits(r) /\ NextIsMissing(r)
    <3>1. \A u \in Users : q.seen[u] # 0 => q.seen[u] = settings[u]
      BY <1>1, <1>5 DEF ReadFits, SeenFits
    <3>2. \A u \in Users : SeenNow(r.pair, q.seen)[u] # 0
                             => SeenNow(r.pair, q.seen)[u] = settings[u]
      BY <1>3, <3>1, SeenNowFits
    <3> QED
      BY <1>3, <3>2, SeenNowMissing DEF SeenFits
  <2>3. LaterFits(r) /\ (r.op \notin {"none", "set"} => r.level = level[r.pair])
    BY <1>1, <1>3, <1>4, <1>5 DEF ReadFits, LaterFits
  <2>4. r.op = "set" => FirstFits(r)
    BY <1>3, <1>5 DEF Reliable, FirstFits
  <2>5. /\ SeenFits(req[w])' /\ NextIsMissing(req[w])' /\ LaterFits(req[w])'
        /\ (r.op = "set" => FirstFits(req[w])')
    <3>1. SeenFits(req[w])' /\ NextIsMissing(req[w])'
      BY <1>4, <2>1, <2>2 DEF SeenFits, NextIsMissing, IsNextUnseen
    <3>2. LaterFits(req[w])'
      BY <1>4, <2>1, <2>3 DEF LaterFits
    <3>3. r.op = "set" => FirstFits(req[w])'
      BY <1>3, <1>5, <2>1 DEF Reliable, FirstFits
    <3> QED
      BY <3>1, <3>2, <3>3
  <2>6. ReadFits(w)'
    BY <1>4, <2>1, <2>3, <2>5 DEF ReadFits
  <2> QED
    BY <1>4, <1>6, <2>1, <2>6, InFlightAlone, OneMoves DEF TrustSerialInv
<1> QED
  BY <1>7, <1>8
(* The promotion that was still to come.                                   *)
LEMMA PromotionCommitFits ==
    ASSUME TrustInv, TrustSerialInv, NEW w \in Workers, CommitPromotion(w)
    PROVE  TrustSerialInv'
<1>1. PICK r \in Request : r = req[w]
  BY DEF TrustInv, TypeOK
<1>2. /\ pc[w] = "promote" /\ Finish(w) /\ Transition(r.pair, "L2", "L3", FALSE)
      /\ UNCHANGED <<joint_session_count, joint>>
  BY <1>1 DEF CommitPromotion
<1>3. ReadFits(w) /\ Reliable(r) /\ r.pair \in Pairs
  BY <1>1, <1>2 DEF TrustSerialInv, TrustInv, StepInv
<1>4. r.level = "L2" /\ r.completes
  BY <1>1, <1>2, <1>3 DEF ReadFits, Promotes
<1>5. level[r.pair] = "L2"
  BY <1>1, <1>3, <1>4 DEF ReadFits, Reliable
<1>6. CountExact' /\ \A p \in Pairs : HistoryFits(p)'
  BY <1>2, <1>3, <1>5, SameCounts, PromotionFits DEF TrustInv, TrustSerialInv
<1> QED
  BY <1>2, <1>6, EndFits

LEMMA DemoteFits ==
    ASSUME TrustInv, TrustSerialInv, NEW w \in Workers, CommitDemote(w)
    PROVE  TrustSerialInv'
<1>1. PICK r \in Request : /\ r = req[w] /\ r.pair \in Pairs /\ r.level = level[r.pair]
                           /\ FirstFits(r)
  BY CommitReads DEF CommitDemote, Doing
<1>2. PICK to : to = IF r.level = "L3" THEN "L2" ELSE "L1"
  OBVIOUS
<1>3. /\ pc[w] # "idle" /\ Finish(w) /\ r.op = "demote"
      /\ Transition(r.pair, r.level, to, TRUE)
      /\ UNCHANGED <<joint_session_count, joint>>
  BY <1>1, <1>2 DEF CommitDemote, Doing
<1>4. r.level \in {"L2", "L3"}
  BY <1>1, <1>3 DEF FirstFits
<1>5. r.level \in TrustLevels /\ to \in TrustLevels /\ <<to, r.level>> \in Up
  BY <1>2, <1>4 DEF TrustLevels, Up
<1>6. CountExact' /\ \A p \in Pairs : HistoryFits(p)'
  BY <1>1, <1>3, <1>5, SameCounts, TransitionFits DEF TrustInv, TrustSerialInv
<1> QED
  BY <1>3, <1>6, EndFits

(* Setting a requirement and asking for solo care change no level.         *)
LEMMA RequiredFits ==
    ASSUME TrustInv, TrustSerialInv, NEW w \in Workers, CommitRequired(w) \/ CommitSolo(w)
    PROVE  TrustSerialInv'
<1>1. /\ pc[w] # "idle" /\ Finish(w)
      /\ UNCHANGED <<level, joint_session_count, history, joint>>
  BY DEF CommitRequired, CommitSolo, Doing
<1>2. CountExact' /\ \A p \in Pairs : HistoryFits(p)'
  BY <1>1, SameCounts, SameHistory DEF TrustSerialInv
<1> QED
  BY <1>1, <1>2, EndFits

(* A request that ends without a commit, refused or failed.                *)
LEMMA StopFits ==
    ASSUME TrustInv, TrustSerialInv, NEW w \in Workers, Refused(w) \/ Fail(w)
    PROVE  TrustSerialInv'
<1>1. /\ pc[w] # "idle" /\ Finish(w)
      /\ UNCHANGED <<level, joint_session_count, history, joint>>
  BY DEF Refused, Fail, Doing, dbVars
<1>2. CountExact' /\ \A p \in Pairs : HistoryFits(p)'
  BY <1>1, SameCounts, SameHistory DEF TrustSerialInv
<1> QED
  BY <1>1, <1>2, EndFits

-----------------------------------------------------------------------------
(* The invariant.                                                          *)

LEMMA InitFits == Init => TrustSerialInv
<1> SUFFICES ASSUME Init PROVE TrustSerialInv
  OBVIOUS
<1>1. OneAtATime /\ \A w \in Workers : ReadFits(w)
  BY NothingRead DEF Init, OneAtATime, ReadFits
<1>2. CountExact
  <2>1. \A p \in Pairs : CompletedOf(p) = {}
    BY DEF Init, CompletedOf, NoJoint
  <2> QED
    BY <2>1, FS_EmptySet DEF Init, CountExact
<1>3. \A p \in Pairs : HistoryFits(p)
  BY DEF Init, HistoryFits, Chained
<1> QED
  BY <1>1, <1>2, <1>3 DEF TrustSerialInv

LEMMA NextFits ==
    ASSUME Serial, TrustInv, TrustSerialInv, [Next]_vars
    PROVE  TrustSerialInv'
<1>1. ASSUME NEW w \in Workers, Proceed(w) PROVE TrustSerialInv'
  BY <1>1, GrantFits, ScheduleFits, ConfirmFits, ConfirmAndSettingsFits, SettingsFits,
     ReadSettingsFits, PromotionCommitFits, DemoteFits, RequiredFits, StopFits DEF Proceed
<1>2. CASE UNCHANGED vars
  <2>1. UNCHANGED <<level, joint_session_count, history, joint, settings, pc, req>>
    BY <1>2 DEF vars, dbVars
  <2>2. OneAtATime' /\ CountExact' /\ \A p \in Pairs : HistoryFits(p)'
    BY <2>1, SameCounts, SameHistory DEF TrustSerialInv, OneAtATime
  <2>3. ASSUME NEW w \in Workers PROVE ReadFits(w)'
    BY <2>1 DEF TrustSerialInv, ReadFits, SeenFits, FirstFits, LaterFits, NextIsMissing,
       IsNextUnseen, AllSeen, Promotes, _required_count
  <2> QED
    BY <2>2, <2>3 DEF TrustSerialInv
<1> QED
  BY <1>1, <1>2, CallFits, StopFits DEF Next

(* When requests come one at a time, what the one in flight has read is    *)
(* still so at each of its commits, although get_or_create commits in the  *)
(* middle of confirm_joint_session and any request may stop half-way.      *)
THEOREM TrustSerialInvariantHolds ==
    ASSUME Serial
    PROVE  Spec => [](TrustInv /\ TrustSerialInv)
<1>1. Init => TrustInv /\ TrustSerialInv
  BY InitInv, InitFits
<1>2. (TrustInv /\ TrustSerialInv) /\ [Next]_vars => (TrustInv /\ TrustSerialInv)'
  BY NextInv, NextFits
<1> QED
  BY <1>1, <1>2, PTL DEF Spec

(* When requests come one at a time, the count of a pair is the number of  *)
(* its completed sessions, also where confirm_joint_session stopped before *)
(* the promotion.                                                          *)
THEOREM CountIsExact ==
    ASSUME Serial
    PROVE  Spec => []CountExact
<1>1. TrustSerialInv => CountExact
  BY DEF TrustSerialInv
<1> QED
  BY <1>1, TrustSerialInvariantHolds, PTL

(* When requests come one at a time, the history of a pair explains its    *)
(* level: schedule_joint_session, confirm_joint_session and demote each    *)
(* append the step they take from where the last entry ended.              *)
THEOREM HistoryLeadsToLevel ==
    ASSUME Serial
    PROVE  Spec => []LevelIsHistory
<1>1. TrustSerialInv => LevelIsHistory
  <2> SUFFICES ASSUME TrustSerialInv PROVE LevelIsHistory
    OBVIOUS
  <2>1. ASSUME NEW p \in Pairs
        PROVE  /\ \A i \in DOMAIN history[p] :
                     /\ history[p][i].previous_level = LevelBefore(history[p], i)
                     /\ Moves(history[p][i])
               /\ level[p] # "NONE" => level[p] = LevelBefore(history[p], Len(history[p]) + 1)
    BY DEF TrustSerialInv, HistoryFits, Chained
  <2> QED
    BY <2>1 DEF LevelIsHistory, LevelBefore, Moves
<1> QED
  BY <1>1, TrustSerialInvariantHolds, PTL

-----------------------------------------------------------------------------
(* The promotion to L3.                                                    *)

Unlocks(p) == level[p] # "L3" /\ level'[p] = "L3"

(* Only the promotion of confirm_joint_session unlocks solo care.          *)
LEMMA TransitionUnlocks ==
    ASSUME TypeOK, NEW p \in Pairs, NEW q \in Pairs, NEW from, NEW to, NEW byAdmin,
           Transition(q, from, to, byAdmin), Unlocks(p)
    PROVE  p = q /\ to = "L3"
BY DEF Transition, Unlocks, TypeOK

LEMMA OnlyConfirmUnlocks ==
    ASSUME TrustInv, TrustSerialInv, [Next]_vars, NEW p \in Pairs, Unlocks(p)
    PROVE  \E w \in Workers :
              /\ p = req[w].pair
              /\ (CommitConfirm(w) /\ Promotes(req[w])) \/ CommitPromotion(w)
<1>1. level' # level
  BY DEF Unlocks
<1>2. PICK w \in Workers : Next /\ (Call(w) \/ Proceed(w) \/ Fail(w))
  BY <1>1 DEF Next, vars, dbVars
<1>3. ~Call(w) /\ ~Fail(w)
  BY <1>1 DEF Call, Fail, Start, dbVars, grant_l1, schedule_joint_session, request_solo,
     confirm_joint_session, set_required_count, demote
<1>4. /\ ~CommitConfirmAndSettings(w) /\ ~CommitSettings(w) /\ ~ReadSettings(w)
      /\ ~CommitRequired(w) /\ ~CommitSolo(w) /\ ~Refused(w)
  BY <1>1 DEF CommitConfirmAndSettings, CommitSettings, ReadSettings, CommitRequired,
     CommitSolo, Refused, NoTransition, dbVars
<1>5. TypeOK /\ (req[w].op \notin {"none", "set"} => req[w].pair \in Pairs)
  BY DEF TrustInv, Reliable
<1>6. ~CommitGrant(w)
  <2> SUFFICES ASSUME CommitGrant(w) PROVE FALSE
    OBVIOUS
  <2>1. level' = [level EXCEPT ![req[w].pair] = "L1"]
    BY DEF CommitGrant
  <2> QED
    BY <1>5, <2>1 DEF Unlocks, TypeOK
<1>7. ~CommitSchedule(w)
  <2> SUFFICES ASSUME CommitSchedule(w) PROVE FALSE
    OBVIOUS
  <2>1. req[w].op = "schedule"
    BY DEF CommitSchedule, Doing
  <2>2. Transition(req[w].pair, "L1", "L2", FALSE)
    BY <1>1 DEF CommitSchedule, NoTransition
  <2>3. "L2" = "L3"
    BY <1>5, <2>1, <2>2, TransitionUnlocks
  <2> QED
    BY <2>3
<1>8. ~CommitDemote(w)
  <2> SUFFICES ASSUME CommitDemote(w) PROVE FALSE
    OBVIOUS
  <2>1. PICK to \in {"L1", "L2"} : Transition(req[w].pair, req[w].level, to, TRUE)
    BY DEF CommitDemote
  <2>2. req[w].op = "demote"
    BY DEF CommitDemote, Doing
  <2> QED
    BY <1>5, <2>1, <2>2, TransitionUnlocks
<1>9. CASE CommitConfirm(w)
  <2>1. req[w].op = "confirm"
    BY <1>9 DEF CommitConfirm, Doing
  <2>2. Promotes(req[w]) /\ Transition(req[w].pair, "L2", "L3", FALSE)
    BY <1>1, <1>9 DEF CommitConfirm, NoTransition
  <2> QED
    BY <1>5, <1>9, <2>1, <2>2, TransitionUnlocks
<1>10. CASE CommitPromotion(w)
  <2>1. req[w].pair \in Pairs /\ Transition(req[w].pair, "L2", "L3", FALSE)
    BY <1>10 DEF CommitPromotion, TrustInv, StepInv
  <2> QED
    BY <1>5, <1>10, <2>1, TransitionUnlocks
<1> QED
  BY <1>2, <1>3, <1>4, <1>6, <1>7, <1>8, <1>9, <1>10 DEF Proceed
(* When requests come one at a time, a pair is promoted to L3 only when    *)
(* its completed sessions reach what each of the two asks for, as their    *)
(* settings stand at that commit: confirm_joint_session compares with the  *)
(* settings get_or_create has read, and writes the level later.            *)
THEOREM UnlockNeedsBoth ==
    ASSUME Serial
    PROVE  Spec => UnlockMeetsBoth
<1> DEFINE Met(p) == \A u \in p : /\ settings'[u] # 0
                                  /\ Cardinality(CompletedOf(p)') >= settings'[u]
<1>1. ASSUME TrustInv, TrustSerialInv, [Next]_vars, NEW p \in Pairs, Unlocks(p)
      PROVE  Met(p)
  <2>1. CountExact'
    BY <1>1, NextFits DEF TrustSerialInv
  <2>2. PICK w \in Workers : /\ p = req[w].pair
                             /\ (CommitConfirm(w) /\ Promotes(req[w])) \/ CommitPromotion(w)
    BY <1>1, OnlyConfirmUnlocks
  <2>3. PICK r \in Request : r = req[w]
    BY <1>1 DEF TrustInv, TypeOK
  <2>4. /\ settings' = settings /\ r.completes /\ AllSeen(p, r.seen) /\ SeenFits(r)
        /\ _required_count(r) /\ p = r.pair
    BY <1>1, <2>2, <2>3 DEF CommitConfirm, CommitPromotion, Promotes, TrustSerialInv, ReadFits
  <2>5. joint_session_count'[p] = r.count + 1
    <3>1. CASE CommitConfirm(w)
      <4>1. Confirm(r) /\ r.op = "confirm" /\ FirstFits(r)
        BY <1>1, <2>3, <3>1 DEF CommitConfirm, Doing, TrustSerialInv, ReadFits
      <4>2. Reliable(r) /\ CountExact
        BY <1>1, <2>3 DEF TrustInv, TrustSerialInv
      <4> QED
        BY <1>1, <2>4, <4>1, <4>2, ConfirmCounts
    <3>2. CASE CommitPromotion(w)
      BY <1>1, <2>3, <2>4, <3>2 DEF CommitPromotion, TrustSerialInv, ReadFits, LaterFits
    <3> QED
      BY <2>2, <3>1, <3>2
  <2>6. Cardinality(CompletedOf(p)') = r.count + 1
    BY <2>1, <2>5 DEF CountExact
  <2>7. ASSUME NEW u \in p
        PROVE  settings'[u] # 0 /\ Cardinality(CompletedOf(p)') >= settings'[u]
    <3>1. u \in Users /\ u \in r.pair
      BY <1>1, <2>4, PairMembers
    <3>2. r.seen[u] # 0 /\ r.seen[u] = settings'[u] /\ r.count + 1 >= r.seen[u]
      BY <2>4, <3>1 DEF AllSeen, SeenFits, _required_count
    <3> QED
      BY <2>6, <3>2
  <2> QED
    BY <2>7
<1>2. TrustInv /\ TrustSerialInv /\ [Next]_vars
          => [\A p \in Pairs : level[p] # "L3" /\ level'[p] = "L3" => Met(p)]_vars
  BY <1>1 DEF Unlocks
<1> QED
  BY <1>2, TrustSerialInvariantHolds, PTL DEF Spec, UnlockMeetsBoth

-----------------------------------------------------------------------------
(* A promotion that is due is made.                                        *)

Ends(w) == req[w].op = "confirm" /\ req[w].completes /\ pc'[w] = "idle"

(* Only its own commit or read ends a confirmation that completes a joint  *)
(* session: no unique key refuses it.                                      *)
LEMMA HowItEnds ==
    ASSUME Serial, ~Failures, TrustInv, TrustSerialInv, [Next]_vars,
           NEW w \in Workers, Ends(w)
    PROVE  \/ CommitConfirm(w)
           \/ ReadSettings(w) /\ Finish(w)
           \/ CommitPromotion(w)
<1>1. pc[w] # "idle" /\ pc[w] \in Steps /\ TypeOK
  BY DEF Ends, TrustInv, TypeOK, TrustSerialInv, ReadFits, NoRequest
<1>2. Alone(w)
  BY <1>1, InFlightAlone DEF TrustSerialInv
<1>3. pc' # pc
  BY <1>1 DEF Ends
<1>4. PICK v \in Workers : Call(v) \/ Proceed(v) \/ Fail(v)
  BY <1>3 DEF Next, vars
<1>5. ~Call(v) /\ ~Fail(v)
  BY <1>1 DEF Call, Fail, Start, grant_l1, schedule_joint_session, request_solo,
     confirm_joint_session, set_required_count, demote
<1>6. pc[v] # "idle"
  BY <1>4, <1>5 DEF Proceed, CommitGrant, CommitSchedule, CommitConfirm,
     CommitConfirmAndSettings, CommitSettings, ReadSettings, CommitPromotion,
     CommitRequired, CommitDemote, CommitSolo, Refused, Doing
<1>7. Proceed(w)
  BY <1>2, <1>4, <1>5, <1>6 DEF Alone
<1>8. /\ ~CommitGrant(w) /\ ~CommitSchedule(w) /\ ~CommitRequired(w)
      /\ ~CommitDemote(w) /\ ~CommitSolo(w)
  BY DEF Ends, CommitGrant, CommitSchedule, CommitRequired, CommitDemote, CommitSolo, Doing
<1>9. ~CommitConfirmAndSettings(w) /\ ~CommitSettings(w)
  BY <1>1 DEF Ends, CommitConfirmAndSettings, CommitSettings, Continue, TypeOK
<1>10. ~Refused(w)
  <2>1. (pc[w] = "insert" \/ pc[w] = "commit") => NextIsMissing(req[w])
    BY DEF Ends, TrustSerialInv, ReadFits, FirstFits
  <2> QED
    BY <2>1 DEF Ends, Refused, Doing, NextIsMissing
<1>11. ReadSettings(w) => Finish(w)
  BY <1>1 DEF Ends, ReadSettings, TypeOK
<1> QED
  BY <1>7, <1>8, <1>9, <1>10, <1>11 DEF Proceed

(* A promotion that is not made is not due.                                *)
LEMMA NotDue ==
    ASSUME NEW r \in Request, r.pair \in Pairs, r.completes, ~Promotes(r),
           AllSeen(r.pair, r.seen), NEW f \in [Users -> Nat],
           \A u \in Users : r.seen[u] # 0 => r.seen[u] = f[u],
           \A u \in r.pair : r.count + 1 >= f[u]
    PROVE  r.level # "L2"
<1>1. ASSUME NEW u \in r.pair PROVE r.count + 1 >= r.seen[u]
  BY PairMembers DEF AllSeen
<1> QED
  BY <1>1 DEF Promotes, _required_count

(* When requests come one at a time and none stops half-way, the request   *)
(* that completes a joint session of a pair at L2 leaves it at L3 if both  *)
(* requirements are met, whichever of the three transactions it ends with. *)
THEOREM PromotedIsDue ==
    ASSUME Serial, ~Failures
    PROVE  Spec => PromotedWhenDue
<1> DEFINE Due(w) == LET p == req[w].pair
                     IN  /\ req[w].op = "confirm" /\ req[w].completes
                         /\ pc'[w] = "idle"
                         /\ \A u \in p : joint_session_count'[p] >= settings'[u]
                         => level'[p] # "L2"
<1>1. ASSUME TrustInv, TrustSerialInv, [Next]_vars, NEW w \in Workers, Ends(w),
             \A u \in req[w].pair : joint_session_count'[req[w].pair] >= settings'[u]
      PROVE  level'[req[w].pair] # "L2"
  <2>1. PICK q \in Request : q = req[w]
    BY <1>1 DEF TrustInv, TypeOK
  <2>2. /\ q.op = "confirm" /\ q.completes /\ Reliable(q) /\ q.pair \in Pairs
        /\ SeenFits(q) /\ q.level = level[q.pair] /\ TypeOK
    BY <1>1, <2>1 DEF Ends, TrustInv, TrustSerialInv, ReadFits, Reliable
  <2>3. settings \in [Users -> Nat] /\ level \in [Pairs -> Levels]
    BY <2>2 DEF TypeOK
  <2>4. CASE CommitConfirm(w)
    <3>1. Confirm(q) /\ FirstFits(q) /\ AllSeen(q.pair, q.seen) /\ settings' = settings
      BY <1>1, <2>1, <2>2, <2>4 DEF CommitConfirm, Doing, TrustSerialInv, ReadFits
    <3>2. joint_session_count'[q.pair] = q.count + 1
      BY <1>1, <2>2, <3>1, ConfirmCounts DEF TrustSerialInv
    <3>3. CASE Promotes(q)
      <4>1. level' = [level EXCEPT ![q.pair] = "L3"]
        BY <2>1, <2>4, <3>3 DEF CommitConfirm, Transition
      <4> QED
        BY <2>1, <2>2, <2>3, <4>1
    <3>4. CASE ~Promotes(q)
      <4>1. q.level # "L2"
        BY <1>1, <2>1, <2>2, <2>3, <3>1, <3>2, <3>4, NotDue DEF SeenFits
      <4>2. level' = level
        BY <2>1, <2>4, <3>4 DEF CommitConfirm, NoTransition
      <4> QED
        BY <2>1, <2>2, <4>1, <4>2
    <3> QED
      BY <3>3, <3>4
  <2>5. CASE CommitPromotion(w)
    <3>1. level' = [level EXCEPT ![q.pair] = "L3"]
      BY <2>1, <2>5 DEF CommitPromotion, Transition
    <3> QED
      BY <2>1, <2>2, <2>3, <3>1
  <2>6. CASE ReadSettings(w) /\ Finish(w)
    <3>1. PICK r : r = [q EXCEPT !.seen = SeenNow(q.pair, q.seen)]
      OBVIOUS
    <3>2. q.pair \in SUBSET Users /\ q.seen \in [Users -> Nat]
      BY DEF Request
    <3>3. /\ r.seen = SeenNow(q.pair, q.seen) /\ r.pair = q.pair /\ r.op = q.op
          /\ r.level = q.level /\ r.completes = q.completes /\ r.count = q.count
      BY <3>1 DEF Request
    <3>4. r \in Request
      BY <2>2, <3>1, <3>2, SeenType DEF Request
    <3>5. /\ pc[w] = "settings"
          /\ UNCHANGED <<level, joint_session_count, settings>>
          /\ AllSeen(r.pair, r.seen) /\ ~Promotes(r)
      <4>1. pc'[w] = "idle"
        BY <1>1 DEF Ends
      <4> QED
        BY <2>1, <2>2, <2>6, <3>1, <3>3, <4>1 DEF ReadSettings, dbVars, TypeOK
    <3>6. joint_session_count'[q.pair] = q.count + 1
      BY <1>1, <2>1, <2>2, <3>5 DEF TrustSerialInv, ReadFits, LaterFits
    <3>7. \A u \in Users : r.seen[u] # 0 => r.seen[u] = settings[u]
      BY <2>2, <3>2, <3>3, SeenNowFits DEF SeenFits
    <3>8. r.pair \in Pairs /\ r.completes /\ \A u \in r.pair : r.count + 1 >= settings[u]
      BY <1>1, <2>1, <2>2, <3>3, <3>5, <3>6
    <3>9. r.level # "L2"
      BY <2>3, <3>4, <3>5, <3>7, <3>8, NotDue
    <3> QED
      BY <2>1, <2>2, <3>3, <3>5, <3>9
  <2> QED
    BY <1>1, <2>4, <2>5, <2>6, HowItEnds
<1>2. TrustInv /\ TrustSerialInv /\ [Next]_vars => [\A w \in Workers : Due(w)]_vars
  BY <1>1 DEF Ends
<1> QED
  BY <1>2, TrustSerialInvariantHolds, PTL DEF Spec, PromotedWhenDue
=============================================================================
