--------------------------- MODULE TrustInvariant ---------------------------
(***************************************************************************)
(* The inductive invariant of TrustLevel: what a request may rely on       *)
(* although others commit between its steps.  A completed joint session    *)
(* stays completed, so that the number of them only grows; the count a     *)
(* request is about to write is covered by those completed so far and the  *)
(* one it completes itself.                                                *)
(***************************************************************************)
EXTENDS TrustLevel

Earned(p) == Cardinality(CompletedOf(p)) >= MIN_REQUIRED_JOINT_COUNT

JointInv(j) ==
    /\ IF Exists(j) THEN /\ joint[j].pair \in Pairs
                         /\ joint[j].initiator \in joint[j].pair
                    ELSE joint[j].pair = {}
    /\ joint[j].status = "COMPLETED" => ConfirmedByBoth(joint[j])

PairInv(p) ==
    /\ joint_session_count[p] <= Cardinality(CompletedOf(p))
    /\ level[p] = "L3" \/ p \in solo => Earned(p)

(* What a request has read of required counts, or asks for, is no less     *)
(* than the minimum.                                                       *)
EnoughAsked(r) ==
    /\ \A u \in Users : r.seen[u] = 0 \/ r.seen[u] >= MIN_REQUIRED_JOINT_COUNT
    /\ r.op = "set" => r.actor \in Users /\ r.asked >= MIN_REQUIRED_JOINT_COUNT

Reliable(r) ==
    /\ EnoughAsked(r)
    /\ r.op \notin {"none", "set"} => r.pair \in Pairs
    /\ r.op = "schedule" => r.actor \in r.pair
    /\ r.op = "solo" => Earned(r.pair)
    /\ r.op = "confirm" =>
          /\ r.joint \in JointIds
          /\ Exists(r.joint)
          /\ joint[r.joint].pair = r.pair
    /\ r.completes =>
          /\ r.op = "confirm"
          /\ ConfirmedByBoth(Confirmed(joint[r.joint], r.actor))
          /\ r.count + 1 <= Cardinality(CompletedOf(r.pair) \cup {r.joint})

(* Where worker w's request stands.                                        *)
StepInv(w) ==
    LET r == req[w]
    IN  /\ pc[w] \in {"insert", "settings"} =>
              \/ r.op = "set"
              \/ r.completes /\ r.joint \in CompletedOf(r.pair)
        /\ pc[w] = "promote" => r.pair \in Pairs /\ Earned(r.pair)

TrustInv ==
    /\ TypeOK
    /\ \A j \in JointIds : JointInv(j)
    /\ \A p \in Pairs : PairInv(p)
    /\ \A u \in Users : settings[u] = 0 \/ settings[u] >= MIN_REQUIRED_JOINT_COUNT
    /\ \A w \in Workers : Reliable(req[w]) /\ StepInv(w)
=============================================================================
