------------------------------ MODULE MCFamily ------------------------------
(***************************************************************************)
(* Small instances of Family for TLC, a mix for each topic; and what       *)
(* documents of the repository say of this data and the code does not do.  *)
(***************************************************************************)
EXTENDS FamilyInvariant, TLC

(* Two cells 300 metres apart and one too far from both.                   *)
Far == [p \in Cells \X Cells |-> IF p[1] = p[2] THEN 0
                                 ELSE IF "h3" \in {p[1], p[2]} THEN 1500 ELSE 300]

AllTags == MANDATORY_GUARDIAN_TAG_CODES

Declared == {{"FIRST_AID_CERTIFIED"}, AllTags}

Known == {{}, {"allergies", "medications"}}

(* Strict and cold; in the middle, just warm enough and not quite strict. *)
Styles == {<<1, 1, 1, 1, 5, 5, 5, 5>>, <<3, 3, 3, 3, 3, 3, 2, 3>>}

Balances == {<<0, 0, 100, 0>>, <<120, 0, 0, -20>>, <<50, 50, 50, 0>>}

Bounds == [child |-> 2, access_log |-> 2, values_history |-> 3, weights_history |-> 2,
           event |-> 2, message |-> 1]

TheMix(ops, one_at_a_time, users, guests, settled, past) ==
    [ops |-> ops, serial |-> one_at_a_time, users |-> users, guests |-> guests,
     settled |-> settled, past |-> past]

Symmetry == Permutations(Workers)

SmallMixes == {
    TheMix({"submit_agreements", "revoke_agreement", "complete_onboarding", "create_child",
            "withdraw", "purge"}, TRUE, {1}, {1}, {}, <<>>),
    TheMix({"submit_agreements", "revoke_agreement", "complete_onboarding"},
           FALSE, {1}, {1}, {}, <<>>),
    TheMix({"create_child", "get_child", "delete_child", "upsert_log"},
           FALSE, {1, 2}, {}, {}, <<"done", "open">>),
    TheMix({"submit_evaluation", "send_message", "mark_read", "withdraw", "purge"},
           FALSE, {1, 2}, {}, {}, <<"done">>),
    TheMix({"submit_questionnaire", "submit_narrative"}, TRUE, {1, 2}, {}, {}, <<>>),
    TheMix({"submit_questionnaire", "submit_narrative", "withdraw", "purge"},
           FALSE, {1}, {}, {}, <<>>),
    TheMix({"register_shift"}, TRUE, {1}, {}, {}, <<>>),
    TheMix({"get_or_create", "update_weights", "submit_evaluation", "upsert_log"},
           TRUE, {1, 2}, {}, {}, <<"done", "open", "requester_absent">>),
    TheMix({"get_or_create", "update_weights", "withdraw", "purge"},
           FALSE, {1, 2}, {}, {}, <<"provider_absent">>),
    TheMix({"get_or_create", "find_candidates"}, TRUE, {1, 2, 3}, {}, {1, 2, 3}, <<>>),
    TheMix({"create_child", "get_or_create", "find_candidates"},
           TRUE, {1, 2}, {}, {1, 2}, <<"open">>),
    TheMix({"upsert_profile", "get_or_create"}, TRUE, {1, 2}, {}, {1, 2}, <<"open">>),
    TheMix({"get_or_create", "find_candidates", "withdraw", "purge"},
           FALSE, {1, 2}, {}, {1, 2}, <<>>),
    TheMix({"upsert_profile", "withdraw", "purge"}, FALSE, {1}, {}, {}, <<>>)}

(* The points set aside for a session are settled, given back or           *)
(* forfeited, "완료/취소/노쇼 시점에 정산·반환·몰수 중 하나로 해소한다"       *)
(* (app/models/point_hold.py:3), so that what an account has in reserve is *)
(* what its open holds say.  Deleting the child deletes the session and    *)
(* its hold, by ON DELETE CASCADE, and leaves held_balance as it is.       *)
ReserveIsHeld ==
    \A k \in Of("account") :
        db[k].held_balance
            = Cardinality({h \in Of("hold") : db[h].payer = k[2] /\ db[h].status = "HELD"})

(* A night shift also takes the next morning, its two dates merging        *)
(* ("비트 AND로 자연 병합", docs/tasks/T-SCH-1.md:67).  Registering the     *)
(* second date afterwards replaces its mask and frees the morning again.   *)
NightCovered ==
    mix.serial => \A k \in Of("schedule") :
        db[k].shift_template = "NIGHT" /\ Existing(Shift(k[2], k[3] + 1))
            => db[Shift(k[2], k[3] + 1)].slot_bitmask
                   \subseteq template_masks("NIGHT")[2]
=============================================================================
