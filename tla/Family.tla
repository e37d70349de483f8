------------------------------- MODULE Family -------------------------------
(***************************************************************************)
(* What guardians keep with the service beyond their account: consents,    *)
(* children, profile, parenting values, shifts, care logs, messages, and   *)
(* what is computed from them: trust scores and candidates.                *)
(*                                                                         *)
(* db holds the rows of all these tables.  A request reads in its first    *)
(* step and commits in its second: it inserts rows, writes the columns it  *)
(* changed over what was committed in between, or deletes rows and, by     *)
(* ON DELETE CASCADE, all that refers to them.  A row that is there        *)
(* already, one that is gone, or a reference to one that is gone ends it   *)
(* without effect.  A guardian's account is modelled in Accounts, the life *)
(* of a session and of its hold in CareSession; here are the rows they     *)
(* leave.  mix is drawn once: which operations are called, one at a time   *)
(* or overlapping, by whom.                                                *)
(***************************************************************************)
EXTENDS MatchScore, Sequences

CONSTANTS Guardians, Admins,      \* accounts; those with is_admin
          Tags, TagSets,          \* KNOWN_GUARDIAN_TAG_CODES, those declared together
          Cells, Distance,        \* H3 cells, and the metres between two
          MaxDay, MaxRows,        \* bounds: dates, rows of each numbered table
          Requester, Provider,    \* the two of the care sessions of before
          Months, Infos, Answers, Weights, Ratings,   \* the inputs to look at
          Workers, Mixes

Operations ==
    {"submit_agreements", "revoke_agreement", "complete_onboarding", "create_child",
     "get_child", "delete_child", "upsert_profile", "submit_questionnaire",
     "submit_narrative", "register_shift", "get_or_create", "update_weights",
     "find_candidates", "upsert_log", "submit_evaluation", "send_message", "mark_read",
     "withdraw", "purge"}

(* How a care session of before stands.                                    *)
Past == {"open", "done", "requester_absent", "provider_absent"}

(* past[i] is the session i, of the requester's child.                     *)
Mix == [ops : SUBSET Operations, serial : BOOLEAN,
        users : SUBSET Guardians, guests : SUBSET Guardians,
        settled : SUBSET Guardians,   \* those with a profile and values
        past : Seq(Past)]

(* The tables whose rows are numbered as they come.                        *)
Serials == {"child", "access_log", "values_history", "weights_history", "event", "message"}

ASSUME FamilyAssumption ==
    /\ Guardians \subseteq Nat \ {0} /\ IsFiniteSet(Guardians) /\ IsFiniteSet(Tags)
    /\ Admins \subseteq Guardians
    /\ {Requester, Provider} \subseteq Guardians /\ Requester # Provider
    /\ TagSets \subseteq SUBSET Tags
    /\ MaxDay \in Nat \ {0}
    /\ Distance \in [Cells \X Cells -> Nat]
    /\ Months \subseteq 0..216
    /\ Infos \subseteq SUBSET {"allergies", "conditions", "medications"}
    /\ Answers \subseteq [1..8 -> 1..5]
    /\ Weights \subseteq [1..4 -> Int]
    /\ Ratings \subseteq 1..5
    /\ MaxRows \in [Serials -> Nat]
    /\ Mixes \subseteq Mix
    /\ \A m \in Mixes :
          /\ m.settled \subseteq m.users \ m.guests
          /\ \E n \in 0..MaxRows["values_history"] : m.settled = 1..n
          /\ m.past # <<>> =>
                /\ {Requester, Provider} \subseteq m.users \ m.guests
                /\ MaxRows["child"] >= 1 /\ MaxRows["access_log"] >= 1
                /\ Months # {}
                /\ \E t \in Serials : Len(m.past) <= MaxRows[t]

VARIABLES db,       \* the rows, by table and key
          last,     \* the last number of every numbered table
          mix, req

vars == <<db, last, mix, req>>

Days == 1..MaxDay

Numbers == UNION {1..MaxRows[t] : t \in Serials}

REQUIRED_TYPES == {"service", "privacy", "location"}

TermsType == REQUIRED_TYPES \cup {"guardian_consent", "marketing"}

MANDATORY_GUARDIAN_TAG_CODES ==
    {"ALLERGY_RESPONSE", "MEDICATION_MANAGEMENT", "FIRST_AID_CERTIFIED",
     "NON_SMOKING_HOUSEHOLD"}

Keys == ({"user", "profile", "values", "account", "notification"} \X Guardians)
        \cup ({"agreement"} \X Guardians \X TermsType)
        \cup ({"tag"} \X Guardians \X Tags)
        \cup ({"schedule"} \X Guardians \X Days)
        \cup ((Serials \cup {"sensitive", "session", "hold", "care_log"}) \X Numbers)
        \cup ({"evaluation", "entry"} \X Numbers \X Guardians)
        \cup {<<"relationship">>, <<"weights">>}

-----------------------------------------------------------------------------
(* The tables.  refs of a row: what it refers to with ON DELETE CASCADE.   *)

Refs == SUBSET Keys

User == [refs : {{}}, is_active : BOOLEAN,
         onboarding : {"PENDING", "TERMS_AGREED", "PROFILE_REQUIRED", "COMPLETED"}]

TermsAgreement == [refs : Refs, agreed : BOOLEAN, revoked : BOOLEAN]

Child == [refs : Refs, user_id : Guardians, months_old : Months]

ChildSensitiveInfo == [refs : Refs, has : SUBSET {"allergies", "conditions", "medications"}]

AccessLog == [refs : Refs, actor : Guardians, action : {"VIEW", "EDIT"}]

GuardianProfile == [refs : Refs, residence_h3 : Cells]

GuardianTag == [refs : Refs]

(* The scores of four answers are their sum.                               *)
ParentingValuesProfile ==
    [refs : Refs, warmth : 4..20, control : 4..20, type_label : ParentingTypeLabel,
     narrative : BOOLEAN]

ParentingValuesHistory ==
    [refs : Refs, user_id : Guardians, warmth : 4..20, control : 4..20,
     type_label : ParentingTypeLabel, source : {"QUESTIONNAIRE", "NARRATIVE"}]

WorkSchedule == [refs : Refs, slot_bitmask : SUBSET FULL_AVAILABLE_MASK,
                 shift_template : ShiftTemplate]

TrustWeights == [refs : {{}}, w1 : Int, w2 : Int, w3 : Int, w4 : Int]

TrustWeightHistory == [refs : Refs, w1 : Int, w2 : Int, w3 : Int, w4 : Int]

(* The target is set to null, here 0, when its account goes.               *)
HypothesisEvent == [refs : Refs, target : Guardians \cup {0}, total_score : Int]

PointAccount == [refs : Refs, held_balance : Int]

PointHold == [refs : Refs, payer : Guardians,
              status : {"HELD", "SETTLED", "RELEASED", "FORFEITED"}]

PointEntry == [refs : Refs, amount : {-1, 1}]

TrustRelationship == [refs : Refs]

CareSession == [refs : Refs, requester : Guardians, provider : Guardians,
                child : Numbers, status : {"CONFIRMED", "NO_SHOW"},
                checked_out : BOOLEAN, at_fault : Guardians \cup {0}]

CareLog == [refs : Refs, allergy_note : BOOLEAN]

CareEvaluation == [refs : Refs, evaluatee : Guardians, rating : Ratings]

ChatMessage == [refs : Refs, content : {"text", "masked"}, pii_masked : BOOLEAN]

Notification == [refs : Refs, read : BOOLEAN]

Table == [user |-> User, agreement |-> TermsAgreement, child |-> Child,
          sensitive |-> ChildSensitiveInfo, access_log |-> AccessLog,
          profile |-> GuardianProfile, tag |-> GuardianTag,
          values |-> ParentingValuesProfile, values_history |-> ParentingValuesHistory,
          schedule |-> WorkSchedule, weights |-> TrustWeights,
          weights_history |-> TrustWeightHistory, event |-> HypothesisEvent,
          account |-> PointAccount, hold |-> PointHold, entry |-> PointEntry,
          relationship |-> TrustRelationship, session |-> CareSession,
          care_log |-> CareLog, evaluation |-> CareEvaluation,
          message |-> ChatMessage, notification |-> Notification]

Existing(k) == k \in DOMAIN db

Account(u) == <<"user", u>>

Own(u) == {Account(u)}

Of(table) == {k \in DOMAIN db : k[1] = table}

NewKey(table) == <<table, last[table] + 1>>

(* The row of one key; the rows of f, and those of g with other keys.      *)
Row(k, row) == [n \in {k} |-> row]

With(f, g) == [k \in DOMAIN f \cup DOMAIN g |-> IF k \in DOMAIN f THEN f[k] ELSE g[k]]

-----------------------------------------------------------------------------
(* Requests.                                                               *)

Nothing == <<>>

NoRequest == [reads |-> Nothing, writes |-> Nothing, deletes |-> {}]

Ready(w) == req[w] = NoRequest /\ (mix.serial => \A v \in Workers : req[v] = NoRequest)

(* get_current_user. *)
Authenticated(u) == Existing(Account(u)) /\ db[Account(u)].is_active

(* The rows to write, and the keys to delete.  A number is taken when the  *)
(* row is flushed, and stays taken when the request fails.                 *)
Start(w, op, writes, deletes) ==
    LET reads == (DOMAIN writes \cap DOMAIN db) \ deletes
    IN  /\ op \in mix.ops
        /\ Ready(w)
        /\ last' = [t \in Serials |->
                       last[t] + Cardinality({k \in DOMAIN writes \ reads : k[1] = t})]
        /\ \A t \in Serials : last'[t] <= MaxRows[t]
        /\ req' = [req EXCEPT ![w] = [reads |-> [k \in reads |-> db[k]],
                                      writes |-> writes, deletes |-> deletes]]
        /\ UNCHANGED <<db, mix>>

Inserts(r) == DOMAIN r.writes \ DOMAIN r.reads

(* The keys that refer to a row of S, and those of S.                      *)
Referring(S) == S \cup {k \in DOMAIN db : db[k].refs \cap S # {}}

(* The longest chain of references is log - session - child - user.        *)
Cascade(S) == Referring(Referring(Referring(S \cap DOMAIN db)))

(* What a row must find: its references, and the target of an event.       *)
Needs(row) ==
    row.refs \cup (IF "target" \in DOMAIN row THEN {Account(row.target)} ELSE {})

Refused(r) ==
    \/ Inserts(r) \cap (DOMAIN db \ Cascade(r.deletes)) # {}
    \/ \E k \in DOMAIN r.reads : r.reads[k] # r.writes[k] /\ ~Existing(k)
    \/ \E k \in Inserts(r) : ~(Needs(r.writes[k]) \subseteq DOMAIN db \cup Inserts(r))

(* The columns a request changed are written, the others stay; a consent   *)
(* given again, or revoked again, gets a new time and is written too.      *)
Merged(row, read, write) ==
    [f \in DOMAIN row |->
        IF \/ write[f] # read[f]
           \/ f = "agreed" /\ write.agreed /\ ~write.revoked
           \/ f = "revoked" /\ write.revoked
        THEN write[f] ELSE row[f]]

(* Slip: the target is a plain number, no reference. *)
Unlinked_slip(k, gone) == db[k]

(* What is left of the row k when those of gone are deleted.               *)
Unlinked(k, gone) ==
    IF k[1] = "event" /\ Account(db[k].target) \in gone
    THEN [db[k] EXCEPT !.target = 0] ELSE db[k]

Commit(w) ==
    LET r    == req[w]
        gone == Cascade(r.deletes)
        kept == DOMAIN db \ gone
    IN  /\ r # NoRequest
        /\ ~Refused(r)
        /\ db' = [k \in kept \cup Inserts(r) |->
                     IF k \in Inserts(r) THEN r.writes[k]
                     ELSE IF k \in DOMAIN r.reads
                          THEN Merged(db[k], r.reads[k], r.writes[k])
                     ELSE Unlinked(k, gone)]
        /\ req' = [req EXCEPT ![w] = NoRequest]
        /\ UNCHANGED <<last, mix>>

(* Refused, or stopped half-way. *)
RolledBack(w) ==
    /\ req[w] # NoRequest
    /\ req' = [req EXCEPT ![w] = NoRequest]
    /\ UNCHANGED <<db, last, mix>>

-----------------------------------------------------------------------------
(* Consents.                                                               *)

Agreement(u, t) == <<"agreement", u, t>>

Agreed(u, t) ==
    /\ Existing(Agreement(u, t))
    /\ db[Agreement(u, t)].agreed /\ ~db[Agreement(u, t)].revoked

(* Slip: the required terms can be revoked as well. *)
revocable_slip(t) == TRUE

revocable(t) == t = "marketing"

(* answer: what is said to the terms of each type submitted.               *)
_validate_agreements(answer) ==
    \A t \in REQUIRED_TYPES : t \in DOMAIN answer /\ answer[t]

_store_agreements(u, answer) ==
    [k \in {Agreement(u, t) : t \in DOMAIN answer} |->
        [refs |-> Own(u), agreed |-> answer[k[3]], revoked |-> ~answer[k[3]]]]

submit_agreements(w, u, answer) ==
    /\ Authenticated(u)
    /\ _validate_agreements(answer)
    /\ LET user == [db[Account(u)] EXCEPT
                       !.onboarding = IF @ = "PENDING" THEN "TERMS_AGREED" ELSE @]
       IN  Start(w, "submit_agreements",
                 With(_store_agreements(u, answer), Row(Account(u), user)), {})

revoke_agreement(w, u, t) ==
    /\ Authenticated(u)
    /\ revocable(t)
    /\ Existing(Agreement(u, t))
    /\ Start(w, "revoke_agreement",
             Row(Agreement(u, t), [db[Agreement(u, t)] EXCEPT !.revoked = TRUE]), {})

advance_onboarding(w, u) ==
    /\ Authenticated(u)
    /\ Start(w, "complete_onboarding",
             Row(Account(u), [db[Account(u)] EXCEPT !.onboarding = "COMPLETED"]), {})

-----------------------------------------------------------------------------
(* Children.                                                               *)

ChildrenOf(u) == {k \in Of("child") : db[k].user_id = u}

Sensitive(child) ==
    IF Existing(<<"sensitive", child[2]>>) THEN db[<<"sensitive", child[2]>>].has ELSE {}

(* Added to what the caller commits. *)
log(u, child, action) ==
    Row(NewKey("access_log"),
        [refs |-> Own(u) \cup {child}, actor |-> u, action |-> action])

(* Slip: the consent is not asked for. *)
_assert_guardian_consent_slip(u) == TRUE

_assert_guardian_consent(u) == Agreed(u, "guardian_consent")

create_child(w, u, months_old, has) ==
    LET child     == NewKey("child")
        sensitive == IF has = {} THEN Nothing
                     ELSE Row(<<"sensitive", child[2]>>, [refs |-> {child}, has |-> has])
    IN  /\ Authenticated(u)
        /\ _assert_guardian_consent(u)
        /\ Start(w, "create_child",
                 With(Row(child, [refs |-> Own(u), user_id |-> u, months_old |-> months_old]),
                      With(sensitive, log(u, child, "EDIT"))), {})

get_child(w, u, child) ==
    /\ Authenticated(u)
    /\ child \in ChildrenOf(u)
    /\ Start(w, "get_child", log(u, child, "VIEW"), {})

delete_child(w, u, child) ==
    /\ Authenticated(u)
    /\ child \in ChildrenOf(u)
    /\ Start(w, "delete_child", Nothing, {child})

-----------------------------------------------------------------------------
(* Profile and parenting values.                                           *)

replace_tags(u, tags) == [k \in {"tag"} \X {u} \X tags |-> [refs |-> Own(u)]]

upsert_profile(w, u, residence_h3, tags) ==
    /\ Authenticated(u)
    /\ Start(w, "upsert_profile",
             With(replace_tags(u, tags),
                  Row(<<"profile", u>>, [refs |-> Own(u), residence_h3 |-> residence_h3])),
             {"tag"} \X {u} \X Tags)

Values(u) == <<"values", u>>

HistoryRow(u, row, source) ==
    [refs |-> Own(u), user_id |-> u, warmth |-> row.warmth, control |-> row.control,
     type_label |-> row.type_label, source |-> source]

add_history(u, row, source) == Row(NewKey("values_history"), HistoryRow(u, row, source))

Diagnosed(u, scores, narrative) ==
    [refs |-> Own(u), warmth |-> scores[1], control |-> scores[2],
     type_label |-> classify_type(scores[1], scores[2]), narrative |-> narrative]

(* Slip: the history takes what the profile said before. *)
submit_questionnaire_slip(w, u, answers) ==
    LET known == Existing(Values(u))
        row   == Diagnosed(u, _score_answers(answers), known /\ db[Values(u)].narrative)
    IN  /\ Authenticated(u)
        /\ Start(w, "submit_questionnaire",
                 With(Row(Values(u), row),
                      add_history(u, IF known THEN db[Values(u)] ELSE row,
                                  "QUESTIONNAIRE")), {})

submit_questionnaire(w, u, answers) ==
    LET known == Existing(Values(u))
        row   == Diagnosed(u, _score_answers(answers), known /\ db[Values(u)].narrative)
    IN  /\ Authenticated(u)
        /\ Start(w, "submit_questionnaire",
                 With(Row(Values(u), row), add_history(u, row, "QUESTIONNAIRE")), {})

submit_narrative(w, u) ==
    /\ Authenticated(u)
    /\ Existing(Values(u))
    /\ Start(w, "submit_narrative",
             With(Row(Values(u), [db[Values(u)] EXCEPT !.narrative = TRUE]),
                  add_history(u, db[Values(u)], "NARRATIVE")), {})

-----------------------------------------------------------------------------
(* Shifts.                                                                 *)

Shift(u, d) == <<"schedule", u, d>>

_get_or_create(u, d) ==
    IF Existing(Shift(u, d)) THEN db[Shift(u, d)]
    ELSE [refs |-> Own(u), slot_bitmask |-> FULL_AVAILABLE_MASK, shift_template |-> "OFF"]

(* Slip: the next date's mask is replaced. *)
NextMask_slip(row, mask) == mask

NextMask(row, mask) == row.slot_bitmask \cap mask

register_shift(w, u, d, template) ==
    LET masks == template_masks(template)
        today == [_get_or_create(u, d) EXCEPT !.slot_bitmask = masks[1],
                                              !.shift_template = template]
        next  == _get_or_create(u, d + 1)
        both  == masks[2] # FULL_AVAILABLE_MASK
    IN  /\ Authenticated(u)
        /\ both => d + 1 \in Days
        /\ Start(w, "register_shift",
                 With(Row(Shift(u, d), today),
                      IF both
                      THEN Row(Shift(u, d + 1),
                               [next EXCEPT !.slot_bitmask = NextMask(next, masks[2])])
                      ELSE Nothing), {})

mask_of(u, d) == _get_or_create(u, d).slot_bitmask

-----------------------------------------------------------------------------
(* Trust scores.                                                           *)

WeightsRow(ws) == [refs |-> {}, w1 |-> ws[1], w2 |-> ws[2], w3 |-> ws[3], w4 |-> ws[4]]

WeightsOf(row) == <<row.w1, row.w2, row.w3, row.w4>>

(* Reading the weights, by an administrator or for a score, inserts the    *)
(* default ones when there are none, in a transaction of its own.          *)
get_or_create(w) ==
    /\ ~Existing(<<"weights">>)
    /\ Start(w, "get_or_create", Row(<<"weights">>, WeightsRow(DEFAULT_WEIGHTS)), {})

(* Slip: the sum is not looked at. *)
SumsToOne_slip(ws) == TRUE

SumsToOne(ws) == ws[1] + ws[2] + ws[3] + ws[4] = 100

update_weights(w, u, ws) ==
    /\ Authenticated(u) /\ u \in Admins
    /\ SumsToOne(ws)
    /\ Existing(<<"weights">>)
    /\ Start(w, "update_weights",
             With(Row(<<"weights">>, WeightsRow(ws)),
                  Row(NewKey("weights_history"), [db[<<"weights">>] EXCEPT !.refs = Own(u)])),
             {})

Sessions(P(_)) == {k \in Of("session") : P(db[k])}

list_ratings_for_evaluatee(u) ==
    [k \in {e \in Of("evaluation") : db[e].evaluatee = u} |-> db[k].rating]

(* Slip: the logs of sessions that are not over count as well. *)
journal_completion_rate_slip(u) ==
    _journal_completion_rate(
        Cardinality(Sessions(LAMBDA s : s.provider = u /\ s.checked_out)),
        Cardinality({k \in Sessions(LAMBDA s : s.provider = u) :
                         Existing(<<"care_log", k[2]>>)}))

journal_completion_rate(u) ==
    LET completed == Sessions(LAMBDA s : s.provider = u /\ s.checked_out)
    IN  _journal_completion_rate(
            Cardinality(completed),
            Cardinality({k \in completed : Existing(<<"care_log", k[2]>>)}))

no_show_rate(u) ==
    LET resolved(s) == /\ u \in {s.requester, s.provider}
                       /\ s.checked_out \/ s.status = "NO_SHOW"
        at_fault(s) == s.status = "NO_SHOW" /\ s.at_fault = u
    IN  _no_show_rate(Cardinality(Sessions(resolved)), Cardinality(Sessions(at_fault)))

trust_score(u) ==
    calculate_score(WeightsOf(db[<<"weights">>]),
                    rating_norm(list_ratings_for_evaluatee(u)),
                    no_show_rate(u), journal_completion_rate(u))

-----------------------------------------------------------------------------
(* Matching.                                                               *)

_required_tags_for(u) ==
    LET told == UNION {Sensitive(c) : c \in ChildrenOf(u)}
    IN  {"FIRST_AID_CERTIFIED", "NON_SMOKING_HOUSEHOLD"}
            \cup (IF "allergies" \in told THEN {"ALLERGY_RESPONSE"} ELSE {})
            \cup (IF "medications" \in told THEN {"MEDICATION_MANAGEMENT"} ELSE {})

list_tags(u) == {t \in Tags : Existing(<<"tag", u, t>>)}

Metres(u, v) == Distance[<<db[<<"profile", u>>].residence_h3, db[<<"profile", v>>].residence_h3>>]

AverageMonths(u) == _avg_months_old([c \in ChildrenOf(u) |-> db[c].months_old])

(* A sanctioned account is left out like an inactive one.                  *)
Candidates(u) ==
    {v \in Guardians \ {u} :
        /\ Existing(<<"profile", v>>) /\ Authenticated(v)
        /\ Metres(u, v) <= MAX_DISTANCE_M
        /\ _required_tags_for(u) \subseteq list_tags(v)
        /\ Existing(Values(u)) /\ Existing(Values(v))}

MatchCandidate(u, v, d) ==
    LET values        == values_similarity(db[Values(u)], db[Values(v)])
        complementary == complementary_score(mask_of(u, d), mask_of(v, d))
        age           == age_similarity(AverageMonths(u), AverageMonths(v))
        trust         == trust_score(v)
    IN  [total_score |-> total_score(values, complementary,
                                     distance_score(Metres(u, v)), age, trust),
         reason |-> build_recommendation_reason(Metres(u, v), complementary, values, trust)]

(* Those listed before v: the best first.                                  *)
Before(shown, score, v) ==
    {a \in shown : score[a] > score[v] \/ (score[a] = score[v] /\ a < v)}

(* An event for each candidate that is shown.                              *)
find_candidates(w, u, d) ==
    LET shown    == Candidates(u)
        score    == [v \in shown |-> MatchCandidate(u, v, d).total_score]
        place(v) == 1 + Cardinality(Before(shown, score, v))
        key(v)   == <<"event", last["event"] + place(v)>>
        event(v) == [refs |-> Own(u), target |-> v, total_score |-> score[v]]
    IN  /\ Authenticated(u)
        /\ Existing(<<"profile", u>>) /\ Existing(<<"weights">>)
        /\ shown # {}
        /\ Start(w, "find_candidates",
                 [k \in {key(v) : v \in shown} |->
                     event(CHOOSE v \in shown : key(v) = k)], {})

-----------------------------------------------------------------------------
(* What follows a care session; messages; leaving.                         *)

Session(s) == <<"session", s>>

upsert_log(w, u, s, allergy_note) ==
    LET child == <<"child", db[Session(s)].child>>
    IN  /\ Authenticated(u)
        /\ db[Session(s)].provider = u
        /\ db[Session(s)].status = "CONFIRMED"
        /\ "allergies" \in Sensitive(child) => allergy_note
        /\ Start(w, "upsert_log",
                 Row(<<"care_log", s>>,
                     [refs |-> {Session(s)}, allergy_note |-> allergy_note]), {})

submit_evaluation(w, u, s, rating) ==
    LET other == IF u = db[Session(s)].requester THEN db[Session(s)].provider
                                                 ELSE db[Session(s)].requester
    IN  /\ Authenticated(u)
        /\ u \in {db[Session(s)].requester, db[Session(s)].provider}
        /\ db[Session(s)].checked_out
        /\ ~Existing(<<"evaluation", s, u>>)
        /\ Start(w, "submit_evaluation",
                 Row(<<"evaluation", s, u>>,
                     [refs |-> {Session(s)} \cup Own(u) \cup Own(other),
                      evaluatee |-> other, rating |-> rating]), {})

(* A message with a telephone number, or a text without one.               *)
mask_pii(content) == IF content = "phone" THEN "masked" ELSE content

send_message(w, u, content) ==
    /\ Authenticated(u)
    /\ Existing(<<"relationship">>) /\ Account(u) \in db[<<"relationship">>].refs
    /\ Start(w, "send_message",
             Row(NewKey("message"),
                 [refs |-> Own(u) \cup {<<"relationship">>}, content |-> mask_pii(content),
                  pii_masked |-> mask_pii(content) # content]), {})

mark_read(w, u) ==
    LET notice == <<"notification", u>>
    IN  /\ Authenticated(u)
        /\ Existing(notice) /\ ~db[notice].read
        /\ Start(w, "mark_read", Row(notice, [db[notice] EXCEPT !.read = TRUE]), {})

withdraw(w, u) ==
    /\ Authenticated(u)
    /\ Start(w, "withdraw", Row(Account(u), [db[Account(u)] EXCEPT !.is_active = FALSE]), {})

(* Of those whose time of grace is over.                                   *)
purge_deactivated(w) ==
    \E S \in SUBSET {k \in Of("user") : ~db[k].is_active} :
        S # {} /\ Start(w, "purge", Nothing, S)

-----------------------------------------------------------------------------
(* What accounts and care sessions have left so far.                       *)

AccountsLeft(m) ==
    [k \in {Account(u) : u \in m.users} |->
        [refs |-> {}, is_active |-> TRUE,
         onboarding |-> IF k[2] \in m.guests THEN "PENDING" ELSE "PROFILE_REQUIRED"]]

SignupTerms(m) ==
    [k \in {Agreement(u, t) : u \in m.users \ m.guests, t \in REQUIRED_TYPES} |->
        [refs |-> Own(k[2]), agreed |-> TRUE, revoked |-> FALSE]]

(* home: where the settled live and what they have answered.  They have    *)
(* declared all tags.                                                      *)
ProfilesLeft(home) ==
    LET values(u) == Diagnosed(u, _score_answers(home[u].answers), FALSE)
    IN  [k \in ({"profile", "values", "values_history"} \X DOMAIN home)
                 \cup ({"tag"} \X (DOMAIN home) \X Tags) |->
            CASE k[1] = "profile" -> [refs |-> Own(k[2]), residence_h3 |-> home[k[2]].cell]
              [] k[1] = "values"  -> values(k[2])
              [] k[1] = "values_history" ->
                     HistoryRow(k[2], values(k[2]), "QUESTIONNAIRE")
              [] k[1] = "tag"     -> [refs |-> Own(k[2])]]

SessionLeft(kind) ==
    [refs |-> Own(Requester) \cup Own(Provider) \cup {<<"child", 1>>},
     requester |-> Requester, provider |-> Provider, child |-> 1,
     status |-> IF kind \in {"open", "done"} THEN "CONFIRMED" ELSE "NO_SHOW",
     checked_out |-> kind = "done",
     at_fault |-> CASE kind = "requester_absent" -> Requester
                    [] kind = "provider_absent"  -> Provider
                    [] OTHER                     -> 0]

(* One slot is held, paid when the care is over, forfeited to the provider *)
(* when the requester stayed away, or given back.                          *)
HoldLeft(s, kind) ==
    [refs |-> {Session(s)} \cup Own(Requester) \cup Own(Provider), payer |-> Requester,
     status |-> CASE kind = "open" -> "HELD"
                  [] kind = "done" -> "SETTLED"
                  [] kind = "requester_absent" -> "FORFEITED"
                  [] kind = "provider_absent"  -> "RELEASED"]

EntryLeft(u) ==
    [refs |-> Own(Requester) \cup Own(Provider), amount |-> IF u = Provider THEN 1 ELSE -1]

AccountLeft(past, u) ==
    [refs |-> Own(u),
     held_balance |-> IF u = Requester
                      THEN Cardinality({s \in DOMAIN past : past[s] = "open"}) ELSE 0]

CareKeys(past) ==
    {<<"child", 1>>, <<"access_log", 1>>, Agreement(Requester, "guardian_consent"),
     <<"relationship">>, <<"notification", Provider>>}
        \cup ({"account"} \X {Requester, Provider})
        \cup ({"session", "hold"} \X DOMAIN past)
        \cup ({"entry"} \X {s \in DOMAIN past : past[s] \in {"done", "requester_absent"}}
                       \X {Requester, Provider})

CareLeft(past) ==
    [k \in CareKeys(past) |->
        CASE k[1] = "child" ->
                 [refs |-> Own(Requester), user_id |-> Requester,
                  months_old |-> CHOOSE m \in Months : TRUE]
          [] k[1] = "access_log" ->
                 [refs |-> Own(Requester) \cup {<<"child", 1>>}, actor |-> Requester,
                  action |-> "EDIT"]
          [] k[1] = "agreement" ->
                 [refs |-> Own(Requester), agreed |-> TRUE, revoked |-> FALSE]
          [] k[1] = "relationship" -> [refs |-> Own(Requester) \cup Own(Provider)]
          [] k[1] = "notification" -> [refs |-> Own(Provider), read |-> FALSE]
          [] k[1] = "account" -> AccountLeft(past, k[2])
          [] k[1] = "session" -> SessionLeft(past[k[2]])
          [] k[1] = "hold"    -> HoldLeft(k[2], past[k[2]])
          [] k[1] = "entry"   -> EntryLeft(k[3])]

(* The last numbers of the rows that are left.                             *)
NumbersLeft(m) ==
    [t \in Serials |->
        CASE t = "values_history" -> Cardinality(m.settled)
          [] t \in {"child", "access_log"} -> IF m.past = <<>> THEN 0 ELSE 1
          [] OTHER -> 0]

Init ==
    /\ mix \in Mixes
    /\ \E home \in [mix.settled -> [cell : Cells, answers : Answers]] :
           db = With(AccountsLeft(mix),
                     With(SignupTerms(mix),
                          With(ProfilesLeft(home),
                               IF mix.past = <<>> THEN Nothing ELSE CareLeft(mix.past))))
    /\ last = NumbersLeft(mix)
    /\ req = [w \in Workers |-> NoRequest]

(* What is said to the terms that may be left open.                        *)
Answered ==
    {With([t \in REQUIRED_TYPES |-> TRUE], optional) :
        optional \in UNION {[T -> BOOLEAN] : T \in SUBSET (TermsType \ REQUIRED_TYPES)}}

Consenting(w, u) ==
    \/ \E answer \in Answered : submit_agreements(w, u, answer)
    \/ \E t \in TermsType : revoke_agreement(w, u, t)
    \/ advance_onboarding(w, u)

Parenting(w, u) ==
    \/ \E months_old \in Months, has \in Infos : create_child(w, u, months_old, has)
    \/ \E child \in ChildrenOf(u) : get_child(w, u, child) \/ delete_child(w, u, child)

Describing(w, u) ==
    \/ \E residence_h3 \in Cells, tags \in TagSets :
           upsert_profile(w, u, residence_h3, tags)
    \/ \E answers \in Answers : submit_questionnaire(w, u, answers)
    \/ submit_narrative(w, u)
    \/ \E d \in Days, template \in ShiftTemplate : register_shift(w, u, d, template)

Judging(w, u) ==
    \/ \E ws \in Weights : update_weights(w, u, ws)
    \/ \E d \in Days : find_candidates(w, u, d)
    \/ \E k \in Of("session") :
           \/ \E note \in BOOLEAN : upsert_log(w, u, k[2], note)
           \/ \E rating \in Ratings : submit_evaluation(w, u, k[2], rating)

Talking(w, u) ==
    \/ \E content \in {"text", "phone"} : send_message(w, u, content)
    \/ mark_read(w, u)
    \/ withdraw(w, u)

Next ==
    \E w \in Workers :
        \/ \E u \in Guardians :
               \/ Consenting(w, u) \/ Parenting(w, u) \/ Describing(w, u)
               \/ Judging(w, u) \/ Talking(w, u)
        \/ get_or_create(w) \/ purge_deactivated(w)
        \/ Commit(w) \/ RolledBack(w)

Spec == Init /\ [][Next]_vars

-----------------------------------------------------------------------------
(* Properties.                                                             *)

(* Every row has the columns of its table, and every row it refers to is   *)
(* there: no log, hold, evaluation or message outlives its child, session, *)
(* account or relationship, whatever was deleted while it was being added. *)
TypeOK ==
    /\ DOMAIN db \subseteq Keys
    /\ \A k \in DOMAIN db : db[k] \in Table[k[1]] /\ Needs(db[k]) \ {Account(0)} \subseteq DOMAIN db
    /\ \A t \in Serials : last[t] \in 0..MaxRows[t]
    /\ mix \in Mixes
    /\ \A w \in Workers : \A k \in DOMAIN req[w].writes : req[w].writes[k] \in Table[k[1]]

(* Consents behind the data: who has gone through the terms holds all the  *)
(* required ones, and no child is registered without its guardian having   *)
(* answered the consent and without the entry in the access log.           *)
ConsentStays ==
    /\ \A k \in Of("user") :
           db[k].onboarding \in {"TERMS_AGREED", "PROFILE_REQUIRED"}
               => \A t \in REQUIRED_TYPES : Agreed(k[2], t)
    /\ \A c \in Of("child") :
           /\ Existing(Agreement(db[c].user_id, "guardian_consent"))
           /\ \E l \in Of("access_log") :
                  /\ db[l].actor = db[c].user_id /\ db[l].action = "EDIT"
                  /\ c \in db[l].refs

(* One at a time, nobody is free in the slots of the shift registered for  *)
(* the date, whatever was registered for the dates around it since.        *)
ShiftsKept ==
    mix.serial => \A k \in Of("schedule") :
        db[k].slot_bitmask \subseteq template_masks(db[k].shift_template)[1]

(* One at a time, the last entry of the history of parenting values is     *)
(* what the profile says, and its type is the type of its scores.          *)
HistoryFaithful ==
    mix.serial => \A k \in Of("values") :
        LET own    == {h \in Of("values_history") : db[h].user_id = k[2]}
            latest == db[CHOOSE h \in own : \A g \in own : g[2] <= h[2]]
        IN  /\ own # {}
            /\ <<latest.warmth, latest.control, latest.type_label>>
                   = <<db[k].warmth, db[k].control, db[k].type_label>>
            /\ db[k].type_label = classify_type(db[k].warmth, db[k].control)

(* One at a time, the weights sum to one, and while none is negative every *)
(* trust score and every score of a candidate is between nought and one.   *)
ScoresInRange ==
    mix.serial /\ Existing(<<"weights">>) =>
        LET ws == WeightsOf(db[<<"weights">>])
        IN  /\ ws[1] + ws[2] + ws[3] + ws[4] = 100
            /\ (\A i \in 1..4 : ws[i] >= 0) =>
                   \A k \in Of("user") :
                       /\ trust_score(k[2]) \in 0..100
                       /\ Existing(<<"profile", k[2]>>) =>
                              \A v \in Candidates(k[2]), d \in Days :
                                  MatchCandidate(k[2], v, d).total_score \in 0..100
=============================================================================
