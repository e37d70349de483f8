--------------------------- MODULE CareInvariant ---------------------------
(***************************************************************************)
(* The inductive invariant of CareSession: what every request in flight    *)
(* may rely on although others commit between its steps.  It is about      *)
(* facts that no later commit takes back: a session keeps its parties, a   *)
(* relationship, an event or a hold row is never deleted, a recorded time  *)
(* is never reset.                                                         *)
(***************************************************************************)
EXTENDS CareSession

SessionOps == {"accept", "accept_new", "reject", "checkin", "checkout", "cancel",
               "no_show", "evaluate"}

HasParties(row) ==
    row.requester \in Users /\ row.provider \in Users /\ row.start_slot < row.end_slot

Accepted(s) == [type |-> "REQUEST_ACCEPTED", session |-> s] \in events

(* What the row of session s, its hold and its ledger have to do with each *)
(* other.                                                                  *)
SessionInv(s) ==
    /\ IF Exists(s) THEN HasParties(sessions[s])
                    ELSE /\ sessions[s] = NoRow
                         /\ holds[s].status = "NONE"
                         /\ ledger[s] = <<>>
    /\ sessions[s].checkin_at # None => sessions[s].checkin_at <= now
    /\ sessions[s].checkout_at # None => sessions[s].checkin_at # None
    /\ \/ sessions[s].status = "CONFIRMED"
       \/ sessions[s].checkin_at # None
       \/ holds[s].status # "NONE"
       => Pair(sessions[s]) \in related
    /\ holds[s].status # "NONE" => Accepted(s)
    /\ \A i \in DOMAIN ledger[s] : HasCause(s, ledger[s][i].reason)

(* What a request that has read r may still rely on.                       *)
Reliable(r) ==
    LET s == r.session
    IN  /\ r.at <= now
        /\ r.op \in {"create", "rematch"} =>
              /\ HasParties(r.row)
              /\ r.row.status = "REQUESTED"
              /\ r.row.checkin_at = None
              /\ r.row.checkout_at = None
        /\ r.op = "suspend" =>
              /\ r.actor \in Users
              /\ \A t \in r.stopped : Exists(t)
        /\ r.op \in SessionOps =>
              /\ s \in SessionIds
              /\ Exists(s)
              /\ r.actor \in Users
              /\ HasParties(r.row)
              /\ Pair(r.row) = Pair(sessions[s])
        /\ r.op = "checkout" =>
              /\ r.row.checkin_at \in Time
              /\ r.row.checkin_at <= r.at
              /\ sessions[s].checkin_at # None
        /\ r.op \in {"accept", "checkin"} => Pair(sessions[s]) \in related

RequestInv(w) ==
    /\ Reliable(req[w])
    /\ req[w].op = "accept_new" /\ pc[w] # "commit"
           => Pair(sessions[req[w].session]) \in related

(* Where worker w's request stands.                                        *)
StepInv(w) ==
    LET r == req[w]
    IN  /\ pc[w] = "hold" => r.op \in {"accept", "accept_new"} /\ Accepted(r.session)
        /\ pc[w] = "settle" => r.op = "checkout" /\ sessions[r.session].checkout_at # None
        /\ pc[w] = "complete" => r.op = "checkout"
        /\ pc[w] = "commit" =>
              todo[w] \subseteq (IF r.op = "suspend" THEN r.stopped ELSE {r.session})
        /\ pc[w] \in {"resolve", "post"} =>
              \A t \in todo[w] : Exists(t) /\ sessions[t].cancelled_at # None

(* The posting worker w is about to commit.                                *)
WorkInv(w) ==
    LET s == work[w].session
        p == work[w].posting
    IN  pc[w] = "post" =>
            /\ s \in SessionIds
            /\ Exists(s)
            /\ p.hold = "HELD" => Pair(sessions[s]) \in related /\ Accepted(s)
            /\ p.hold \in {"SETTLED", "RELEASED", "FORFEITED"} => holds[s].status # "NONE"
            /\ p.reason # "NONE" => HasCause(s, p.reason)

CareInv ==
    /\ TypeOK
    /\ \A s \in SessionIds : SessionInv(s)
    /\ \A w \in Workers : RequestInv(w) /\ StepInv(w) /\ WorkInv(w)
=============================================================================
