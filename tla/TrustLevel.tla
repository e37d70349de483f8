----------------------------- MODULE TrustLevel -----------------------------
(***************************************************************************)
(* Trust levels (TRS): the relationship of two users climbs from L1        *)
(* (matched) over L2 (a joint care session is arranged) to L3 (enough      *)
(* joint sessions, each confirmed by both), which unlocks solo care; an    *)
(* administrator may demote it.  app/services/trust_level_service.py.      *)
(*                                                                         *)
(* As in CareSession, a worker is a slot for a request in flight, a        *)
(* transaction reads one snapshot, and its commit writes the columns it    *)
(* changed as absolute values over whatever was committed in between.      *)
(* get_or_create of a user's settings commits in the middle of the         *)
(* handlers that call it.                                                  *)
(***************************************************************************)
EXTENDS Integers, Sequences, FiniteSets

CONSTANTS Users,           \* user ids
          MaxJoint,        \* bound: how many joint sessions are ever arranged
          DEFAULT_REQUIRED_JOINT_COUNT,
          MIN_REQUIRED_JOINT_COUNT,
          Counts,          \* the numbers users ask for as required count
          Workers,         \* requests that can be in flight at a time
          Serial,          \* TRUE: a request starts only when none is in flight
          Failures,        \* TRUE: a request in flight may stop half-way
          Operations       \* the handlers that are called

AllOperations == {"grant", "schedule", "confirm", "set", "demote", "solo"}

ASSUME TrustAssumption ==
    /\ Users \subseteq Nat
    /\ MaxJoint \in Nat
    /\ DEFAULT_REQUIRED_JOINT_COUNT \in Nat \ {0}
    /\ MIN_REQUIRED_JOINT_COUNT \in Nat \ {0}
    /\ MIN_REQUIRED_JOINT_COUNT <= DEFAULT_REQUIRED_JOINT_COUNT
    /\ Counts \subseteq Nat
    /\ Serial \in BOOLEAN
    /\ Failures \in BOOLEAN
    /\ Operations \subseteq AllOperations

VARIABLES level,               \* trust_relationships.level, NONE without a row
          joint_session_count, \* trust_relationships.joint_session_count
          history,             \* trust_level_history of a pair
          joint,               \* joint_care_sessions
          settings,            \* trust_settings.required_joint_count, 0 without a row
          events,              \* hypothesis_events of a level's transition
          notifications,       \* notifications of a level's transition
          solo,                \* pairs with a care session requested as solo
          pc,                  \* per worker: the next step of its request
          req                  \* per worker: the request and what it has read

dbVars == <<level, joint_session_count, history, joint, settings, events,
            notifications, solo>>

vars == <<dbVars, pc, req>>

(* A relationship is kept once for a pair, in normal order.                *)
Pairs == {p \in SUBSET Users : \E u, v \in Users : u # v /\ p = {u, v}}

JointIds == 1..MaxJoint

TrustLevels == {"L1", "L2", "L3"}

Levels == TrustLevels \cup {"NONE"}

TrustLevelHistory == [previous_level : Levels, new_level : Levels, by_admin : BOOLEAN]

JointCareSession == [pair : Pairs \cup {{}},
                     initiator : Users \cup {-1},
                     confirmed_by_initiator : BOOLEAN,
                     confirmed_by_partner : BOOLEAN,
                     status : {"NONE", "SCHEDULED", "COMPLETED"}]

NoJoint == [pair |-> {}, initiator |-> -1, confirmed_by_initiator |-> FALSE,
            confirmed_by_partner |-> FALSE, status |-> "NONE"]

(* What a request knows: the caller, the pair it is about (for set the     *)
(* caller alone), the joint session, the level and the count it read,      *)
(* whether it completes the joint session, the required counts it has read *)
(* so far (0 for those it has not) and the count a user asks for.          *)
Request == [op        : AllOperations \cup {"none"},
            actor     : Users \cup {-1},
            pair      : SUBSET Users,
            joint     : JointIds \cup {0},
            level     : Levels,
            count     : Nat,
            completes : BOOLEAN,
            seen      : [Users -> Nat],
            asked     : Nat]

Unseen == [u \in Users |-> 0]

NoRequest == [op |-> "none", actor |-> -1, pair |-> {}, joint |-> 0, level |-> "NONE",
              count |-> 0, completes |-> FALSE, seen |-> Unseen, asked |-> 0]

Steps == {"idle", "commit", "insert", "settings", "promote"}

-----------------------------------------------------------------------------
(* Reading the database.                                                   *)

Exists(j) == joint[j].status # "NONE"

(* Slip: any relationship beyond L1 will do. *)
require_l3_slip(p) == level[p] \in {"L2", "L3"}

require_l3(p) == level[p] = "L3"

ConfirmedByBoth(row) == row.confirmed_by_initiator /\ row.confirmed_by_partner

(* The row with the caller's confirmation.                                 *)
Confirmed(row, u) ==
    IF u = row.initiator THEN [row EXCEPT !.confirmed_by_initiator = TRUE]
                         ELSE [row EXCEPT !.confirmed_by_partner = TRUE]

(* Slip: a completed session counts again. *)
Completes_slip(row) == ConfirmedByBoth(row)

Completes(row) == ConfirmedByBoth(row) /\ row.status # "COMPLETED"

(* get_or_create of the settings of the users of p, in the order of their  *)
(* ids: those before the first user without a row are read.                *)
SeenNow(p, seen) ==
    LET missing == {m \in p : seen[m] = 0 /\ settings[m] = 0}
    IN  [u \in Users |-> IF u \in p /\ seen[u] = 0 /\ \A m \in missing : u < m
                         THEN settings[u] ELSE seen[u]]

AllSeen(p, seen) == \A u \in p : seen[u] # 0

(* The user whose settings get_or_create is about to insert.               *)
IsNextUnseen(r, u) ==
    /\ u \in r.pair
    /\ r.seen[u] = 0
    /\ \A v \in r.pair : r.seen[v] = 0 => u <= v

(* Slips: the smaller requirement decides; meeting it is not enough. *)
_required_count_slip_either(r) == \E u \in r.pair : r.count + 1 >= r.seen[u]

_required_count_slip_more(r) == \A u \in r.pair : r.count + 1 > r.seen[u]

(* The new count reaches the requirement of both.                          *)
_required_count(r) == \A u \in r.pair : r.count + 1 >= r.seen[u]

Promotes(r) == r.completes /\ r.level = "L2" /\ _required_count(r)

-----------------------------------------------------------------------------
(* The first read of each handler.                                         *)

Start(w, op, r) ==
    /\ op \in Operations
    /\ pc[w] = "idle"
    /\ Serial => \A v \in Workers : pc[v] = "idle"
    /\ pc' = [pc EXCEPT ![w] = IF op = "set" /\ ~AllSeen(r.pair, r.seen)
                               THEN "insert" ELSE "commit"]
    /\ req' = [req EXCEPT ![w] = r]
    /\ UNCHANGED dbVars

About(op, u, p, j, completes, seen, asked) ==
    [op |-> op, actor |-> u, pair |-> p, joint |-> j,
     level |-> IF p \in Pairs THEN level[p] ELSE "NONE",
     count |-> IF p \in Pairs THEN joint_session_count[p] ELSE 0,
     completes |-> completes, seen |-> seen, asked |-> asked]

(* accept calls it; a relationship that exists is left alone.              *)
grant_l1(w, u, v) ==
    /\ u # v
    /\ level[{u, v}] = "NONE"
    /\ Start(w, "grant", About("grant", u, {u, v}, 0, FALSE, Unseen, 0))

(* Bound: there is an id left for every joint session being arranged.      *)
Room == Cardinality({w \in Workers : req[w].op = "schedule"})
            < Cardinality({j \in JointIds : ~Exists(j)})

schedule_joint_session(w, u, v) ==
    /\ u # v
    /\ level[{u, v}] # "NONE"
    /\ Room
    /\ Start(w, "schedule", About("schedule", u, {u, v}, 0, FALSE, Unseen, 0))

confirm_joint_session(w, u, j) ==
    LET p == joint[j].pair
        completes == Completes(Confirmed(joint[j], u))
    IN  /\ u \in p
        /\ Start(w, "confirm",
                 About("confirm", u, p, j, completes,
                       IF completes THEN SeenNow(p, Unseen) ELSE Unseen, 0))

(* Slip: anything but zero is accepted. *)
set_required_count_slip(w, u, n) ==
    /\ n > 0
    /\ Start(w, "set", About("set", u, {u}, 0, FALSE, SeenNow({u}, Unseen), n))

set_required_count(w, u, n) ==
    /\ n >= MIN_REQUIRED_JOINT_COUNT
    /\ Start(w, "set", About("set", u, {u}, 0, FALSE, SeenNow({u}, Unseen), n))

(* The caller is an administrator.                                         *)
demote(w, p) ==
    /\ level[p] \in {"L2", "L3"}
    /\ Start(w, "demote", About("demote", -1, p, 0, FALSE, Unseen, 0))

(* create_request with is_solo, as far as the level gates it.              *)
request_solo(w, u, v) ==
    /\ u # v
    /\ require_l3({u, v})
    /\ Start(w, "solo", About("solo", u, {u, v}, 0, FALSE, Unseen, 0))

-----------------------------------------------------------------------------
(* The transactions.                                                       *)

Finish(w) ==
    /\ pc' = [pc EXCEPT ![w] = "idle"]
    /\ req' = [req EXCEPT ![w] = NoRequest]

Continue(w, step) ==
    /\ pc' = [pc EXCEPT ![w] = step]
    /\ UNCHANGED req

_notify_transition(p, from, to) ==
    /\ events' = events \cup {[pair |-> p, previous |-> from, new |-> to]}
    /\ notifications' = notifications \cup {[to |-> u, new |-> to] : u \in p}

(* A level changes, with its history, its event and its notifications.     *)
Transition(p, from, to, byAdmin) ==
    /\ level' = [level EXCEPT ![p] = to]
    /\ history' = [history EXCEPT ![p] =
           Append(@, [previous_level |-> from, new_level |-> to, by_admin |-> byAdmin])]
    /\ _notify_transition(p, from, to)

NoTransition == UNCHANGED <<level, history, events, notifications>>

Doing(w, op) == pc[w] = "commit" /\ req[w].op = op

CommitGrant(w) ==
    LET p == req[w].pair
    IN  /\ Doing(w, "grant")
        /\ level[p] = "NONE"
        /\ level' = [level EXCEPT ![p] = "L1"]
        /\ _notify_transition(p, "NONE", "L1")
        /\ Finish(w)
        /\ UNCHANGED <<joint_session_count, history, joint, settings, solo>>

IsNext(j) == ~Exists(j) /\ \A i \in JointIds : i < j => Exists(i)

(* The first joint session of a pair at L1 brings it to L2.                *)
CommitSchedule(w) ==
    LET r == req[w]
    IN  /\ Doing(w, "schedule")
        /\ \E j \in JointIds :
              /\ IsNext(j)
              /\ joint' = [joint EXCEPT ![j] =
                     [pair |-> r.pair, initiator |-> r.actor,
                      confirmed_by_initiator |-> FALSE, confirmed_by_partner |-> FALSE,
                      status |-> "SCHEDULED"]]
        /\ \/ r.level = "L1" /\ Transition(r.pair, "L1", "L2", FALSE)
           \/ r.level # "L1" /\ NoTransition
        /\ Finish(w)
        /\ UNCHANGED <<joint_session_count, settings, solo>>

(* The caller's confirmation is written over the row in the database, and  *)
(* the status if the session was complete as read.                         *)
WithConfirmation(row, r) ==
    LET confirmed == Confirmed(row, r.actor)
    IN  IF r.completes THEN [confirmed EXCEPT !.status = "COMPLETED"] ELSE confirmed

(* The count is written as one more than the count that was read.          *)
Confirm(r) ==
    /\ joint' = [joint EXCEPT ![r.joint] = WithConfirmation(@, r)]
    /\ joint_session_count' =
           IF r.completes
           THEN [joint_session_count EXCEPT ![r.pair] = r.count + 1]
           ELSE joint_session_count
    /\ UNCHANGED solo

(* The settings of both are known: one transaction does it all.            *)
CommitConfirm(w) ==
    LET r == req[w]
    IN  /\ Doing(w, "confirm")
        /\ r.completes => AllSeen(r.pair, r.seen)
        /\ Confirm(r)
        /\ \/ Promotes(r) /\ Transition(r.pair, "L2", "L3", FALSE)
           \/ ~Promotes(r) /\ NoTransition
        /\ Finish(w)
        /\ UNCHANGED settings

Insert(u) ==
    /\ settings[u] = 0
    /\ settings' = [settings EXCEPT ![u] = DEFAULT_REQUIRED_JOINT_COUNT]

(* get_or_create inserts settings and commits, and with them what          *)
(* confirm_joint_session has changed so far: all but the promotion.        *)
CommitConfirmAndSettings(w) ==
    LET r == req[w]
    IN  /\ Doing(w, "confirm")
        /\ r.completes
        /\ \E u \in Users : IsNextUnseen(r, u) /\ Insert(u)
        /\ Confirm(r)
        /\ NoTransition
        /\ Continue(w, "settings")

CommitSettings(w) ==
    /\ pc[w] = "insert"
    /\ \E u \in Users : IsNextUnseen(req[w], u) /\ Insert(u)
    /\ Continue(w, "settings")
    /\ UNCHANGED <<level, joint_session_count, history, joint, events,
                   notifications, solo>>

(* After an insertion: the row is read back, then the other user's.  The   *)
(* level and the count stay the ones first read.                           *)
ReadSettings(w) ==
    LET r == [req[w] EXCEPT !.seen = SeenNow(req[w].pair, req[w].seen)]
    IN  /\ pc[w] = "settings"
        /\ \/ /\ ~AllSeen(r.pair, r.seen)
              /\ pc' = [pc EXCEPT ![w] = "insert"]
              /\ req' = [req EXCEPT ![w] = r]
           \/ /\ AllSeen(r.pair, r.seen)
              /\ r.op = "set"
              /\ pc' = [pc EXCEPT ![w] = "commit"]
              /\ req' = [req EXCEPT ![w] = r]
           \/ /\ AllSeen(r.pair, r.seen)
              /\ Promotes(r)
              /\ pc' = [pc EXCEPT ![w] = "promote"]
              /\ req' = [req EXCEPT ![w] = r]
           \/ /\ AllSeen(r.pair, r.seen)
              /\ r.op = "confirm"
              /\ ~Promotes(r)
              /\ Finish(w)
        /\ UNCHANGED dbVars

CommitPromotion(w) ==
    /\ pc[w] = "promote"
    /\ Transition(req[w].pair, "L2", "L3", FALSE)
    /\ Finish(w)
    /\ UNCHANGED <<joint_session_count, joint, settings, solo>>

(* A value that has not changed is not written.                            *)
CommitRequired(w) ==
    LET r == req[w]
    IN  /\ Doing(w, "set")
        /\ settings' = IF r.asked = r.seen[r.actor] THEN settings
                       ELSE [settings EXCEPT ![r.actor] = r.asked]
        /\ Finish(w)
        /\ UNCHANGED <<level, joint_session_count, history, joint, events,
                       notifications, solo>>

(* Slip: the demotion leaves no history. *)
CommitDemote_slip(w) ==
    LET r == req[w]
        to == IF r.level = "L3" THEN "L2" ELSE "L1"
    IN  /\ Doing(w, "demote")
        /\ level' = [level EXCEPT ![r.pair] = to]
        /\ _notify_transition(r.pair, r.level, to)
        /\ Finish(w)
        /\ UNCHANGED <<joint_session_count, history, joint, settings, solo>>

CommitDemote(w) ==
    LET r == req[w]
    IN  /\ Doing(w, "demote")
        /\ Transition(r.pair, r.level, IF r.level = "L3" THEN "L2" ELSE "L1", TRUE)
        /\ Finish(w)
        /\ UNCHANGED <<joint_session_count, joint, settings, solo>>

CommitSolo(w) ==
    /\ Doing(w, "solo")
    /\ solo' = solo \cup {req[w].pair}
    /\ Finish(w)
    /\ UNCHANGED <<level, joint_session_count, history, joint, settings, events,
                   notifications>>

(* A unique key refuses the commit: another request has inserted the       *)
(* relationship or the settings meanwhile.                                 *)
Refused(w) ==
    /\ \/ Doing(w, "grant") /\ level[req[w].pair] # "NONE"
       \/ /\ pc[w] = "insert" \/ (Doing(w, "confirm") /\ req[w].completes)
          /\ \E u \in Users : IsNextUnseen(req[w], u) /\ settings[u] # 0
    /\ Finish(w)
    /\ UNCHANGED dbVars

Fail(w) ==
    /\ Failures
    /\ pc[w] # "idle"
    /\ Finish(w)
    /\ UNCHANGED dbVars

Call(w) ==
    \/ \E u, v \in Users :
          \/ grant_l1(w, u, v)
          \/ schedule_joint_session(w, u, v)
          \/ request_solo(w, u, v)
    \/ \E u \in Users, j \in JointIds : confirm_joint_session(w, u, j)
    \/ \E u \in Users, n \in Counts : set_required_count(w, u, n)
    \/ \E p \in Pairs : demote(w, p)

Proceed(w) ==
    \/ CommitGrant(w)
    \/ CommitSchedule(w)
    \/ CommitConfirm(w)
    \/ CommitConfirmAndSettings(w)
    \/ CommitSettings(w)
    \/ ReadSettings(w)
    \/ CommitPromotion(w)
    \/ CommitRequired(w)
    \/ CommitDemote(w)
    \/ CommitSolo(w)
    \/ Refused(w)

Init ==
    /\ level = [p \in Pairs |-> "NONE"]
    /\ joint_session_count = [p \in Pairs |-> 0]
    /\ history = [p \in Pairs |-> <<>>]
    /\ joint = [j \in JointIds |-> NoJoint]
    /\ settings = [u \in Users |-> 0]
    /\ events = {}
    /\ notifications = {}
    /\ solo = {}
    /\ pc = [w \in Workers |-> "idle"]
    /\ req = [w \in Workers |-> NoRequest]

Next == \E w \in Workers : Call(w) \/ Proceed(w) \/ Fail(w)

Spec == Init /\ [][Next]_vars

(* The event loop keeps running a request it has begun; users need not     *)
(* call anything.                                                          *)
FairSpec == Spec /\ \A w \in Workers : WF_vars(Proceed(w))

-----------------------------------------------------------------------------
(* Properties.                                                             *)

(* Every column and every request in flight holds a value of its type.     *)
TypeOK ==
    /\ level \in [Pairs -> Levels]
    /\ joint_session_count \in [Pairs -> Nat]
    /\ history \in [Pairs -> Seq(TrustLevelHistory)]
    /\ joint \in [JointIds -> JointCareSession]
    /\ settings \in [Users -> Nat]
    /\ events \subseteq [pair : Pairs, previous : Levels, new : TrustLevels]
    /\ notifications \subseteq [to : Users, new : TrustLevels]
    /\ solo \subseteq Pairs
    /\ pc \in [Workers -> Steps]
    /\ req \in [Workers -> Request]

Quiet == \A w \in Workers : pc[w] = "idle"

CompletedOf(p) == {j \in JointIds : joint[j].pair = p /\ joint[j].status = "COMPLETED"}

(* Whatever requests overlap: a joint session counts at most once and only *)
(* when both partners have confirmed it, although the count is written as  *)
(* one more than a count read earlier.                                     *)
CountBacked ==
    /\ \A j \in JointIds : joint[j].status = "COMPLETED" => ConfirmedByBoth(joint[j])
    /\ \A p \in Pairs : joint_session_count[p] <= Cardinality(CompletedOf(p))

(* Solo care is only ever requested between users who have completed at    *)
(* least the minimum number of joint sessions with each other, whatever    *)
(* requests overlap, settings change and demotions happen.                 *)
SoloEarned ==
    \A p \in solo : Cardinality(CompletedOf(p)) >= MIN_REQUIRED_JOINT_COUNT

(* One request at a time: the count is the number of completed sessions,   *)
(* also between the two commits of a confirmation.                         *)
CountExact ==
    \A p \in Pairs : joint_session_count[p] = Cardinality(CompletedOf(p))

(* One request at a time: the history is a chain from L1 to the present    *)
(* level, each entry beginning where the one before ended, upwards by the  *)
(* system and downwards by an administrator.                               *)
Up == {<<"L1", "L2">>, <<"L2", "L3">>}

LevelIsHistory ==
    \A p \in Pairs :
        LET h == history[p]
            From(i) == IF i = 1 THEN "L1" ELSE h[i - 1].new_level
        IN  /\ \A i \in DOMAIN h :
                  /\ h[i].previous_level = From(i)
                  /\ IF h[i].by_admin
                     THEN <<h[i].new_level, h[i].previous_level>> \in Up
                     ELSE <<h[i].previous_level, h[i].new_level>> \in Up
            /\ level[p] # "NONE" => level[p] = From(Len(h) + 1)

(* One request at a time: a pair is promoted to L3 only when its completed *)
(* sessions reach what each of the two asks for.                           *)
UnlockMeetsBoth ==
    [][\A p \in Pairs :
          level[p] # "L3" /\ level'[p] = "L3"
              => \A u \in p : /\ settings'[u] # 0
                              /\ Cardinality(CompletedOf(p)') >= settings'[u]]_vars

(* One request at a time and none failing: when the request that completes *)
(* a joint session ends, a pair at L2 that meets both requirements is L3.  *)
PromotedWhenDue ==
    [][\A w \in Workers :
          LET p == req[w].pair
          IN  /\ req[w].op = "confirm" /\ req[w].completes
              /\ pc'[w] = "idle"
              /\ \A u \in p : joint_session_count'[p] >= settings'[u]
              => level'[p] # "L2"]_vars
=============================================================================
