----------------------------- MODULE MatchScore -----------------------------
(***************************************************************************)
(* The arithmetic of schedules, parenting values, trust scores and the     *)
(* ranking of candidates (app/core/utils, matching_service.py,             *)
(* trust_score_service.py).  A slot mask is the set of the slots one is    *)
(* free in; the mean of four answers is their sum; fractions of one are    *)
(* percents, rounded down.                                                 *)
(***************************************************************************)
EXTENDS Integers, FiniteSets, FiniteSetsExt

SLOT_COUNT == 48

FULL_AVAILABLE_MASK == 0..(SLOT_COUNT - 1)

ShiftTemplate == {"DAY", "EVENING", "NIGHT", "OFF"}

_range_mask(start_idx, end_idx) == FULL_AVAILABLE_MASK \ (start_idx..(end_idx - 1))

(* The masks of the date and of the next one.                              *)
template_masks(template) ==
    CASE template = "DAY"     -> <<_range_mask(14, 30), FULL_AVAILABLE_MASK>>
      [] template = "EVENING" -> <<_range_mask(30, 46), FULL_AVAILABLE_MASK>>
      [] template = "NIGHT"   -> <<_range_mask(46, 48), _range_mask(0, 14)>>
      [] template = "OFF"     -> <<FULL_AVAILABLE_MASK, FULL_AVAILABLE_MASK>>

(* How many slots the other is free in while one is not, both ways.        *)
complementary_slot_counts(mask_a, mask_b) ==
    <<Cardinality(mask_b \ mask_a), Cardinality(mask_a \ mask_b)>>

(* Eight answers of 1 to 5: four of warmth, four of control.               *)
_score_answers(answers) ==
    <<answers[1] + answers[2] + answers[3] + answers[4],
      answers[5] + answers[6] + answers[7] + answers[8]>>

ParentingTypeLabel == {"AUTHORITATIVE", "AUTHORITARIAN", "PERMISSIVE", "NEGLECTFUL"}

Midpoint == 12

classify_type(warmth, control) ==
    CASE warmth >= Midpoint /\ control >= Midpoint -> "AUTHORITATIVE"
      [] warmth <  Midpoint /\ control >= Midpoint -> "AUTHORITARIAN"
      [] warmth >= Midpoint /\ control <  Midpoint -> "PERMISSIVE"
      [] warmth <  Midpoint /\ control <  Midpoint -> "NEGLECTFUL"

(* The sum of the natural numbers f gives, as the size of a disjoint union. *)
Total(f) == Cardinality(UNION {{x} \X (1..f[x]) : x \in DOMAIN f})

_clamp(value) == Max({0, Min({100, value})})

(* The distance of two points as a part of the largest, 4 * sqrt(2).       *)
values_similarity(a, b) ==
    LET square(n) == n * n
        squares   == square(a.warmth - b.warmth) + square(a.control - b.control)
        part      == Cardinality({p \in 1..100 : 512 * square(p) <= 10000 * squares})
    IN  _clamp(100 - part)

complementary_score(mask_a, mask_b) ==
    LET counts == complementary_slot_counts(mask_a, mask_b)
    IN  _clamp((100 * (counts[1] + counts[2])) \div SLOT_COUNT)

MAX_DISTANCE_M == 1000

MAX_AGE_DIFF_MONTHS == 24

distance_score(metres) == _clamp(100 - (100 * metres) \div MAX_DISTANCE_M)

(* months: the ages of the children of each, a function of the children.   *)
_avg_months_old(months) ==
    IF DOMAIN months = {} THEN -1
    ELSE (100 * Total(months)) \div Cardinality(DOMAIN months)

age_similarity(avg_a, avg_b) ==
    IF avg_a = -1 \/ avg_b = -1 THEN 0
    ELSE _clamp(100 - (IF avg_a > avg_b THEN avg_a - avg_b ELSE avg_b - avg_a)
                          \div MAX_AGE_DIFF_MONTHS)

RESPONSE_RATE_STUB == 100

NEUTRAL_RATING == 50

DEFAULT_WEIGHTS == <<40, 20, 20, 20>>

rating_norm(ratings) ==
    LET n == Cardinality(DOMAIN ratings)
    IN  IF n = 0 THEN NEUTRAL_RATING ELSE (100 * (Total(ratings) - n)) \div (4 * n)

(* Without a session to count, the best there is.                          *)
_journal_completion_rate(completed, logged) ==
    IF completed = 0 THEN 100 ELSE (100 * logged) \div completed

_no_show_rate(resolved, no_shows) ==
    IF resolved = 0 THEN 0 ELSE (100 * no_shows) \div resolved

calculate_score(weights, rating, no_show, journal) ==
    (weights[1] * rating + weights[2] * RESPONSE_RATE_STUB
        + weights[3] * (100 - no_show) + weights[4] * journal) \div 100

total_score(values, complementary, distance, age, trust) ==
    (35 * values + 35 * complementary + 10 * distance + 10 * age + 10 * trust) \div 100

(* The facts of the sentence shown with a candidate.                       *)
build_recommendation_reason(metres, complementary, values, trust) ==
    {IF metres <= 300 THEN "near" ELSE "within"} \cup {"conditions"}
        \cup (IF complementary >= 50 THEN {"shifts"} ELSE {})
        \cup (IF values >= 50 THEN {"values"} ELSE {})
        \cup (IF trust >= 60 THEN {"trusted"} ELSE {})
=============================================================================
