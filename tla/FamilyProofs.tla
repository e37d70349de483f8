---------------------------- MODULE FamilyProofs ----------------------------
(***************************************************************************)
(* Theorems about Family, for any guardians, tables and mixes.             *)
(***************************************************************************)
EXTENDS FamilyInvariant, FiniteSetTheorems, TLAPS

-----------------------------------------------------------------------------
(* The tables.                                                             *)

LEMMA TablesAre ==
    /\ Table["user"] = User /\ Table["agreement"] = TermsAgreement
    /\ Table["child"] = Child /\ Table["sensitive"] = ChildSensitiveInfo
    /\ Table["access_log"] = AccessLog /\ Table["profile"] = GuardianProfile
    /\ Table["tag"] = GuardianTag /\ Table["values"] = ParentingValuesProfile
    /\ Table["values_history"] = ParentingValuesHistory
    /\ Table["schedule"] = WorkSchedule /\ Table["weights"] = TrustWeights
    /\ Table["weights_history"] = TrustWeightHistory /\ Table["event"] = HypothesisEvent
    /\ Table["account"] = PointAccount /\ Table["hold"] = PointHold
    /\ Table["entry"] = PointEntry /\ Table["relationship"] = TrustRelationship
    /\ Table["session"] = CareSession /\ Table["care_log"] = CareLog
    /\ Table["evaluation"] = CareEvaluation /\ Table["message"] = ChatMessage
    /\ Table["notification"] = Notification
BY DEF Table

LEMMA KeysAre ==
    ASSUME NEW k \in Keys
    PROVE  \/ /\ k[1] \in {"user", "profile", "values", "account", "notification"}
              /\ k[2] \in Guardians /\ k = <<k[1], k[2]>>
           \/ k[1] = "agreement" /\ k[2] \in Guardians /\ k[3] \in TermsType /\ k = <<k[1], k[2], k[3]>>
           \/ k[1] = "tag" /\ k[2] \in Guardians /\ k[3] \in Tags /\ k = <<k[1], k[2], k[3]>>
           \/ k[1] = "schedule" /\ k[2] \in Guardians /\ k[3] \in Days /\ k = <<k[1], k[2], k[3]>>
           \/ /\ k[1] \in Serials \cup {"sensitive", "session", "hold", "care_log"}
              /\ k[2] \in Numbers /\ k = <<k[1], k[2]>>
           \/ /\ k[1] \in {"evaluation", "entry"} /\ k[2] \in Numbers /\ k[3] \in Guardians
              /\ k = <<k[1], k[2], k[3]>>
           \/ k[1] = "relationship" /\ k = <<"relationship">>
           \/ k[1] = "weights" /\ k = <<"weights">>
BY DEF Keys

(* What a row needs is what it refers to, and the target of an event.      *)
LEMMA NeedsAre ==
    ASSUME NEW k \in Keys, NEW row \in Table[k[1]]
    PROVE  Needs(row) = row.refs \cup (IF k[1] = "event" THEN {Account(row.target)} ELSE {})
<1>1. k[1] \in {"user", "agreement", "profile", "values", "account", "notification", "tag", "schedule",
                "sensitive", "session", "hold", "care_log", "evaluation", "entry", "relationship", "weights"}
          \cup Serials
    BY KeysAre
<1>2. ASSUME k[1] = "event" PROVE "target" \in DOMAIN row
  <2>1. row \in HypothesisEvent
    BY <1>2, TablesAre
  <2> QED  BY <2>1 DEF HypothesisEvent
<1>3. ASSUME k[1] # "event" PROVE "target" \notin DOMAIN row
  <2> CASE k[1] = "user"
    BY TablesAre DEF User
  <2> CASE k[1] = "agreement"
    BY TablesAre DEF TermsAgreement
  <2> CASE k[1] = "child"
    BY TablesAre DEF Child
  <2> CASE k[1] = "sensitive"
    BY TablesAre DEF ChildSensitiveInfo
  <2> CASE k[1] = "access_log"
    BY TablesAre DEF AccessLog
  <2> CASE k[1] = "profile"
    BY TablesAre DEF GuardianProfile
  <2> CASE k[1] = "tag"
    BY TablesAre DEF GuardianTag
  <2> CASE k[1] = "values"
    BY TablesAre DEF ParentingValuesProfile
  <2> CASE k[1] = "values_history"
    BY TablesAre DEF ParentingValuesHistory
  <2> CASE k[1] = "schedule"
    BY TablesAre DEF WorkSchedule
  <2> CASE k[1] = "weights"
    BY TablesAre DEF TrustWeights
  <2> CASE k[1] = "weights_history"
    BY TablesAre DEF TrustWeightHistory
  <2> CASE k[1] = "account"
    BY TablesAre DEF PointAccount
  <2> CASE k[1] = "hold"
    BY TablesAre DEF PointHold
  <2> CASE k[1] = "entry"
    BY TablesAre DEF PointEntry
  <2> CASE k[1] = "relationship"
    BY TablesAre DEF TrustRelationship
  <2> CASE k[1] = "session"
    BY TablesAre DEF CareSession
  <2> CASE k[1] = "care_log"
    BY TablesAre DEF CareLog
  <2> CASE k[1] = "evaluation"
    BY TablesAre DEF CareEvaluation
  <2> CASE k[1] = "message"
    BY TablesAre DEF ChatMessage
  <2> CASE k[1] = "notification"
    BY TablesAre DEF Notification
  <2> QED  BY <1>1, <1>3 DEF Serials
<1> QED  BY <1>2, <1>3 DEF Needs

-----------------------------------------------------------------------------
(* ON DELETE CASCADE.                                                      *)

LEMMA RankIs == \A k : Rank(k) \in 0..3
BY DEF Rank

(* What is deleted is what was to be deleted and what refers to what is.   *)
LEMMA CascadeIs ==
    ASSUME DbFits, NEW S
    PROVE  /\ Cascade(S) \subseteq DOMAIN db
           /\ S \cap DOMAIN db \subseteq Cascade(S)
           /\ \A k \in DOMAIN db : k \in Cascade(S) <=> k \in S \/ db[k].refs \cap Cascade(S) # {}
<1> DEFINE R0 == S \cap DOMAIN db
           R1 == Referring(R0)
           R2 == Referring(R1)
           R3 == Referring(R2)
<1>1. Cascade(S) = R3
    BY DEF Cascade
<1>2. R0 \subseteq R1 /\ R1 \subseteq R2 /\ R2 \subseteq R3 /\ R3 \subseteq DOMAIN db
    BY DEF Referring
<1>3. /\ \A k \in R1 : k \notin R0 => k \in DOMAIN db /\ db[k].refs \cap R0 # {}
      /\ \A k \in R2 : k \notin R1 => k \in DOMAIN db /\ db[k].refs \cap R1 # {}
      /\ \A k \in R3 : k \notin R2 => k \in DOMAIN db /\ db[k].refs \cap R2 # {}
    BY DEF Referring
<1>4. /\ \A k \in DOMAIN db : db[k].refs \cap R0 # {} => k \in R1
      /\ \A k \in DOMAIN db : db[k].refs \cap R1 # {} => k \in R2
      /\ \A k \in DOMAIN db : db[k].refs \cap R2 # {} => k \in R3
    BY DEF Referring
<1>5. \A k \in DOMAIN db : \A r \in db[k].refs : Rank(r) < Rank(k)
    BY DEF DbFits, RowFits, RefsFit
<1> HIDE DEF R0, R1, R2, R3
<1>6. ASSUME NEW k \in DOMAIN db, NEW r \in db[k].refs, r \in R3, k \notin R3
      PROVE  FALSE
  <2>1. r \notin R2
    BY <1>4, <1>6
  <2>2. PICK a \in db[r].refs : r \in DOMAIN db /\ a \in R2
    BY <2>1, <1>3, <1>6
  <2>3. a \notin R1
    BY <2>1, <2>2, <1>4
  <2>4. PICK b \in db[a].refs : a \in DOMAIN db /\ b \in R1
    BY <2>2, <2>3, <1>3
  <2>5. b \notin R0
    BY <2>3, <2>4, <1>4
  <2>6. PICK c \in db[b].refs : b \in DOMAIN db /\ c \in R0
    BY <2>4, <2>5, <1>3
  <2>7. Rank(c) < Rank(b) /\ Rank(b) < Rank(a) /\ Rank(a) < Rank(r) /\ Rank(r) < Rank(k)
    BY <2>2, <2>4, <2>6, <1>5
  <2>8. Rank(c) \in 0..3 /\ Rank(b) \in 0..3 /\ Rank(a) \in 0..3 /\ Rank(r) \in 0..3 /\ Rank(k) \in 0..3
    BY RankIs
  <2> QED  BY <2>7, <2>8
<1>7. \A k \in R3 : k \in S \/ db[k].refs \cap R3 # {}
  <2>1. \A k \in R0 : k \in S
    BY DEF R0
  <2> QED  BY <2>1, <1>2, <1>3
<1>8. R0 \subseteq R3 /\ R0 = S \cap DOMAIN db
    BY <1>2 DEF R0
<1> QED  BY <1>1, <1>2, <1>6, <1>7, <1>8

(* Nothing refers to a tag.                                                *)
LEMMA TagsCascade ==
    ASSUME DbFits, NEW S, \A k \in S : k[1] = "tag"
    PROVE  Cascade(S) = S \cap DOMAIN db
<1>1. \A k \in DOMAIN db : \A r \in db[k].refs : Rank(r) < Rank(k)
    BY DEF DbFits, RowFits, RefsFit
<1>2. \A k, r : r[1] = "tag" => ~(Rank(r) < Rank(k))
    BY DEF Rank
<1>3. \A T \in SUBSET (S \cap DOMAIN db) : Referring(T) = T
    BY <1>1, <1>2 DEF Referring
<1> QED  BY <1>3 DEF Cascade

(* An account that is gone has taken along what is its own.                *)
LEMMA OwnsCascade ==
    ASSUME DbFits, NEW S, NEW k \in Cascade(S), NEW u, db[k].refs = Own(u),
           k \notin S
    PROVE  Account(u) \in Cascade(S)
BY CascadeIs DEF Own

-----------------------------------------------------------------------------
(* An update.                                                              *)

LEMMA MergedTyped ==
    ASSUME NEW k \in Keys, k[1] \in Updated, NEW row \in Table[k[1]], NEW read \in Table[k[1]],
           NEW write \in Table[k[1]]
    PROVE  Merged(row, read, write) \in Table[k[1]]
<1> DEFINE W(f) == \/ write[f] # read[f]
                   \/ f = "agreed" /\ write.agreed /\ ~write.revoked
                   \/ f = "revoked" /\ write.revoked
           M == [f \in DOMAIN row |-> IF W(f) THEN write[f] ELSE row[f]]
<1>1. Merged(row, read, write) = M
    BY DEF Merged
<1>2. M = [f \in DOMAIN row |-> M[f]] /\ DOMAIN M = DOMAIN row
    OBVIOUS
<1>3. \A f \in DOMAIN row : M[f] = write[f] \/ M[f] = row[f]
    OBVIOUS
<1> HIDE DEF M
<1> CASE k[1] = "user"
  <2>1. row \in User /\ write \in User /\ Table[k[1]] = User
    BY TablesAre
  <2> QED  BY <1>1, <1>2, <1>3, <2>1 DEF User
<1> CASE k[1] = "agreement"
  <2>1. row \in TermsAgreement /\ write \in TermsAgreement /\ Table[k[1]] = TermsAgreement
    BY TablesAre
  <2> QED  BY <1>1, <1>2, <1>3, <2>1 DEF TermsAgreement
<1> CASE k[1] = "profile"
  <2>1. row \in GuardianProfile /\ write \in GuardianProfile /\ Table[k[1]] = GuardianProfile
    BY TablesAre
  <2> QED  BY <1>1, <1>2, <1>3, <2>1 DEF GuardianProfile
<1> CASE k[1] = "values"
  <2>1. row \in ParentingValuesProfile /\ write \in ParentingValuesProfile /\ Table[k[1]] = ParentingValuesProfile
    BY TablesAre
  <2> QED  BY <1>1, <1>2, <1>3, <2>1 DEF ParentingValuesProfile
<1> CASE k[1] = "schedule"
  <2>1. row \in WorkSchedule /\ write \in WorkSchedule /\ Table[k[1]] = WorkSchedule
    BY TablesAre
  <2> QED  BY <1>1, <1>2, <1>3, <2>1 DEF WorkSchedule
<1> CASE k[1] = "weights"
  <2>1. row \in TrustWeights /\ write \in TrustWeights /\ Table[k[1]] = TrustWeights
    BY TablesAre
  <2> QED  BY <1>1, <1>2, <1>3, <2>1 DEF TrustWeights
<1> CASE k[1] = "care_log"
  <2>1. row \in CareLog /\ write \in CareLog /\ Table[k[1]] = CareLog
    BY TablesAre
  <2> QED  BY <1>1, <1>2, <1>3, <2>1 DEF CareLog
<1> CASE k[1] = "notification"
  <2>1. row \in Notification /\ write \in Notification /\ Table[k[1]] = Notification
    BY TablesAre
  <2> QED  BY <1>1, <1>2, <1>3, <2>1 DEF Notification
<1> QED  BY DEF Updated

LEMMA MergedFits ==
    ASSUME NEW k \in Keys, k[1] \in Updated, NEW row, RowFits(k, row), NEW read, RowFits(k, read),
           NEW write, RowFits(k, write), read.refs = write.refs
    PROVE  /\ RowFits(k, Merged(row, read, write))
           /\ Merged(row, read, write).refs = row.refs
           /\ k[1] = "user" /\ write.onboarding = read.onboarding =>
                  Merged(row, read, write).onboarding = row.onboarding
           /\ k[1] = "user" /\ write.onboarding # read.onboarding =>
                  Merged(row, read, write).onboarding = write.onboarding
<1> DEFINE M == Merged(row, read, write)
<1>1. M \in Table[k[1]]
    BY MergedTyped DEF RowFits
<1>2. "refs" \in DOMAIN row
  <2> CASE k[1] = "user"
    BY TablesAre DEF RowFits, User
  <2> CASE k[1] = "agreement"
    BY TablesAre DEF RowFits, TermsAgreement
  <2> CASE k[1] = "profile"
    BY TablesAre DEF RowFits, GuardianProfile
  <2> CASE k[1] = "values"
    BY TablesAre DEF RowFits, ParentingValuesProfile
  <2> CASE k[1] = "schedule"
    BY TablesAre DEF RowFits, WorkSchedule
  <2> CASE k[1] = "weights"
    BY TablesAre DEF RowFits, TrustWeights
  <2> CASE k[1] = "care_log"
    BY TablesAre DEF RowFits, CareLog
  <2> CASE k[1] = "notification"
    BY TablesAre DEF RowFits, Notification
  <2> QED  BY DEF Updated
<1>3. M.refs = row.refs
    BY <1>2 DEF Merged
<1>4. ASSUME k[1] = "user"
      PROVE  M.onboarding = IF write.onboarding # read.onboarding THEN write.onboarding ELSE row.onboarding
  <2>1. "onboarding" \in DOMAIN row
    BY <1>4, TablesAre DEF RowFits, User
  <2> QED  BY <2>1 DEF Merged
<1>5. ASSUME k[1] = "agreement", k[3] \in REQUIRED_TYPES
      PROVE  M.agreed /\ ~M.revoked
  <2>1. "agreed" \in DOMAIN row /\ "revoked" \in DOMAIN row
    BY <1>5, TablesAre DEF RowFits, TermsAgreement
  <2>2. row.agreed /\ ~row.revoked /\ write.agreed /\ ~write.revoked
    BY <1>5 DEF RowFits
  <2>3. M.agreed = write.agreed
    BY <2>1, <2>2 DEF Merged
  <2>4. M.revoked = write.revoked \/ M.revoked = row.revoked
    BY <2>1 DEF Merged
  <2> QED  BY <2>2, <2>3, <2>4
<1>6. RefsFit(k, M)
  <2>1. k[1] \notin {"child", "values_history", "access_log", "session"}
    BY DEF Updated
  <2> HIDE DEF M
  <2> QED  BY <2>1, <1>3 DEF RefsFit, RowFits
<1> QED  BY <1>1, <1>3, <1>4, <1>5, <1>6 DEF RowFits

-----------------------------------------------------------------------------
(* A commit.                                                               *)

LEMMA UnlinkedFits ==
    ASSUME DbFits, NEW S, NEW k \in DOMAIN db
    PROVE  /\ RowFits(k, Unlinked(k, S))
           /\ Unlinked(k, S).refs = db[k].refs
           /\ k[1] # "event" => Unlinked(k, S) = db[k]
           /\ k[1] = "event" =>
                 /\ Unlinked(k, S).target \in {0, db[k].target}
                 /\ Unlinked(k, S).target # 0 => Account(db[k].target) \notin S
<1>1. RowFits(k, db[k])
    BY DEF DbFits
<1>2. CASE k[1] = "event" /\ Account(db[k].target) \in S
  <2>1. db[k] \in HypothesisEvent
    BY <1>1, <1>2, TablesAre DEF RowFits
  <2>2. Unlinked(k, S) = [db[k] EXCEPT !.target = 0]
    BY <1>2 DEF Unlinked
  <2>3. /\ Unlinked(k, S) \in HypothesisEvent
        /\ Unlinked(k, S).refs = db[k].refs /\ Unlinked(k, S).target = 0
    BY <2>1, <2>2 DEF HypothesisEvent
  <2>4. RowFits(k, Unlinked(k, S))
    BY <1>1, <1>2, <2>3, TablesAre DEF RowFits, RefsFit
  <2> QED  BY <1>2, <2>3, <2>4
<1>3. CASE ~(k[1] = "event" /\ Account(db[k].target) \in S)
  <2>1. Unlinked(k, S) = db[k]
    BY <1>3 DEF Unlinked
  <2> QED  BY <1>1, <1>3, <2>1
<1> QED  BY <1>2, <1>3

(* What the rows are after a commit.                                       *)
LEMMA CommitRows ==
    ASSUME FamilyInv, NEW w \in Workers, Commit(w),
           NEW r, r = req[w], NEW gone, gone = Cascade(r.deletes),
           NEW new, new = Inserts(r)
    PROVE  /\ DOMAIN db' = (DOMAIN db \ gone) \cup new
           /\ \A k \in new : db'[k] = r.writes[k]
           /\ \A k \in DOMAIN db \ gone : k \notin new /\ k \in DOMAIN r.reads =>
                  db'[k] = Merged(db[k], r.reads[k], r.writes[k])
           /\ \A k \in DOMAIN db \ gone : k \notin new /\ k \notin DOMAIN r.reads =>
                  db'[k] = Unlinked(k, gone)
           /\ \A k \in new : Needs(r.writes[k]) \subseteq DOMAIN db \cup new
           /\ \A k \in DOMAIN r.reads : r.reads[k] # r.writes[k] => k \in DOMAIN db
           /\ new \cap (DOMAIN db \ gone) = {}
<1>1. ~Refused(r)
    BY DEF Commit
<1>2. /\ \A k \in new : Needs(r.writes[k]) \subseteq DOMAIN db \cup new
      /\ \A k \in DOMAIN r.reads : r.reads[k] # r.writes[k] => k \in DOMAIN db
      /\ new \cap (DOMAIN db \ gone) = {}
    BY <1>1 DEF Refused, Existing
<1>3. db' = [k \in (DOMAIN db \ gone) \cup new |->
                IF k \in new THEN r.writes[k]
                ELSE IF k \in DOMAIN r.reads THEN Merged(db[k], r.reads[k], r.writes[k])
                ELSE Unlinked(k, gone)]
    BY DEF Commit
<1> HIDE DEF Commit, Inserts
<1> QED  BY <1>2, <1>3

(* What is inserted comes with what it needs, and what is updated is       *)
(* itself as before in what it refers to.                                  *)
LEMMA CommitFits ==
    ASSUME FamilyInv, NEW w \in Workers, Commit(w),
           NEW r, r = req[w], NEW gone, gone = Cascade(r.deletes),
           NEW new, new = Inserts(r)
    PROVE  /\ \A k \in new : /\ RowFits(k, db'[k]) /\ NumberFits(k)
                             /\ db'[k] = r.writes[k]
                             /\ k[1] # "user"
                             /\ Needs(db'[k]) \subseteq DOMAIN db'
           /\ \A k \in DOMAIN db' : k \notin new =>
                 /\ k \in DOMAIN db /\ k \notin gone
                 /\ RowFits(k, db'[k])
                 /\ db'[k].refs = db[k].refs
                 /\ Needs(db'[k]) \ {Account(0)} \subseteq DOMAIN db'
                 /\ k[1] \notin Updated \cup {"event"} => db'[k] = db[k]
           /\ new # {} => \A k \in gone : k[1] = "tag"
<1>1. DbFits /\ RequestFits(r)
    BY DEF FamilyInv
<1>2. /\ DOMAIN db' = (DOMAIN db \ gone) \cup new
      /\ \A k \in new : db'[k] = r.writes[k]
      /\ \A k \in DOMAIN db \ gone : k \notin new /\ k \in DOMAIN r.reads =>
             db'[k] = Merged(db[k], r.reads[k], r.writes[k])
      /\ \A k \in DOMAIN db \ gone : k \notin new /\ k \notin DOMAIN r.reads =>
             db'[k] = Unlinked(k, gone)
      /\ \A k \in new : Needs(r.writes[k]) \subseteq DOMAIN db \cup new
    BY CommitRows
<1>3. gone \subseteq DOMAIN db
    BY <1>1, CascadeIs
<1>4. new \subseteq DOMAIN r.writes /\ \A k \in new : k \notin DOMAIN r.reads
    BY DEF Inserts
<1>5. ASSUME new # {} PROVE \A k \in gone : k[1] = "tag"
  <2>1. r.writes # Nothing
    BY <1>4, <1>5 DEF Nothing
  <2>2. \A k \in r.deletes : k[1] = "tag"
    BY <1>1, <2>1 DEF RequestFits
  <2> QED  BY <1>1, <2>2, TagsCascade
<1>6. ASSUME NEW k \in new
      PROVE  /\ RowFits(k, db'[k]) /\ NumberFits(k) /\ k[1] # "user"
             /\ Needs(db'[k]) \subseteq DOMAIN db'
  <2>1. WriteFits(r, k)
    BY <1>1, <1>4 DEF RequestFits
  <2>2. RowFits(k, db'[k]) /\ NumberFits(k) /\ k[1] # "user"
    BY <1>2, <1>4, <2>1 DEF WriteFits
  <2>3. \A n \in Needs(db'[k]) : n[1] # "tag"
    <3>1. Needs(db'[k]) = db'[k].refs \cup (IF k[1] = "event" THEN {Account(db'[k].target)} ELSE {})
      BY <2>2, NeedsAre DEF RowFits
    <3>2. \A n \in db'[k].refs : Rank(n) < Rank(k)
      BY <2>2 DEF RowFits, RefsFit
    <3>3. \A n : n[1] = "tag" => Rank(n) = 3
      BY DEF Rank
    <3>4. \A a : Account(a)[1] # "tag"
      BY DEF Account
    <3> QED  BY <3>1, <3>2, <3>3, <3>4, RankIs
  <2> QED  BY <1>2, <1>5, <2>2, <2>3
<1>7. ASSUME NEW k \in DOMAIN db', k \notin new
      PROVE  /\ k \in DOMAIN db /\ k \notin gone
             /\ RowFits(k, db'[k])
             /\ db'[k].refs = db[k].refs
             /\ Needs(db'[k]) \ {Account(0)} \subseteq DOMAIN db'
             /\ k[1] \notin Updated \cup {"event"} => db'[k] = db[k]
  <2>1. k \in DOMAIN db /\ k \notin gone
    BY <1>2, <1>7
  <2>2. RowFits(k, db[k]) /\ Needs(db[k]) \ {Account(0)} \subseteq DOMAIN db
    BY <1>1, <2>1 DEF DbFits
  <2>3. db[k].refs \cap gone = {}
    BY <1>1, <2>1, CascadeIs
  <2>4. CASE k \in DOMAIN r.reads
    <3>1. ReadFits(r, k) /\ k[1] \in Updated
      BY <1>1, <2>4 DEF RequestFits, ReadFits
    <3>2. RowFits(k, r.writes[k])
      BY <1>1, <3>1 DEF RequestFits, ReadFits, WriteFits
    <3>3. RowFits(k, db'[k]) /\ db'[k].refs = db[k].refs
      BY <1>2, <1>7, <2>1, <2>2, <2>4, <3>1, <3>2, MergedFits DEF ReadFits, RowFits
    <3>4. Needs(db'[k]) = db'[k].refs /\ Needs(db[k]) = db[k].refs
      BY <2>2, <3>1, <3>3, NeedsAre DEF RowFits, Updated
    <3> QED  BY <1>2, <2>1, <2>2, <2>3, <3>1, <3>3, <3>4
  <2>5. CASE k \notin DOMAIN r.reads
    <3>1. db'[k] = Unlinked(k, gone)
      BY <1>2, <1>7, <2>1, <2>5
    <3>2. /\ RowFits(k, db'[k]) /\ db'[k].refs = db[k].refs
          /\ k[1] # "event" => db'[k] = db[k]
          /\ k[1] = "event" =>
                /\ db'[k].target \in {0, db[k].target}
                /\ db'[k].target # 0 => Account(db[k].target) \notin gone
      BY <1>1, <2>1, <3>1, UnlinkedFits
    <3>3. /\ Needs(db'[k]) = db'[k].refs \cup (IF k[1] = "event" THEN {Account(db'[k].target)} ELSE {})
          /\ Needs(db[k]) = db[k].refs \cup (IF k[1] = "event" THEN {Account(db[k].target)} ELSE {})
      BY <2>2, <3>2, NeedsAre DEF RowFits
    <3>4. \A n \in Needs(db'[k]) : n = Account(0) \/ (n \in Needs(db[k]) /\ n \notin gone)
      <4>1. CASE k[1] # "event"
        BY <2>3, <3>2, <3>3, <4>1
      <4>2. CASE k[1] = "event" /\ db'[k].target = 0
        BY <2>3, <3>2, <3>3, <4>2
      <4>3. CASE k[1] = "event" /\ db'[k].target # 0
        <5>1. db'[k].target = db[k].target
          BY <3>2, <4>3
        <5> QED  BY <2>3, <3>2, <3>3, <4>3, <5>1
      <4> QED  BY <4>1, <4>2, <4>3
    <3> QED  BY <1>2, <2>1, <2>2, <3>2, <3>4
  <2> QED  BY <2>4, <2>5
<1> QED  BY <1>2, <1>5, <1>6, <1>7

(* An account that is still there keeps the consents it has answered.      *)
LEMMA AgreementStays ==
    ASSUME FamilyInv, NEW w \in Workers, Commit(w), NEW u, NEW t, Existing(Agreement(u, t)),
           Existing(Account(u))'
    PROVE  Existing(Agreement(u, t))' /\ Existing(Account(u))
<1> DEFINE r == req[w]
           gone == Cascade(r.deletes)
           new == Inserts(r)
           k == Agreement(u, t)
<1>1. DbFits /\ RequestFits(r)
    BY DEF FamilyInv
<1>2. DOMAIN db' = (DOMAIN db \ gone) \cup new
    BY CommitRows
<1>3. \A n \in new : n[1] # "user"
    BY CommitFits
<1>4. Account(u) \in DOMAIN db \ gone
    BY <1>2, <1>3 DEF Existing, Account
<1>5. k \in DOMAIN db /\ db[k].refs = Own(u) /\ k \notin r.deletes
  <2>1. k \in DOMAIN db /\ k[1] = "agreement" /\ k[2] = u
    BY DEF Existing, Agreement
  <2> HIDE DEF k
  <2> QED  BY <1>1, <2>1 DEF DbFits, RowFits, RefsFit, RequestFits
<1>6. k \notin gone
    BY <1>1, <1>4, <1>5, OwnsCascade
<1> QED  BY <1>2, <1>4, <1>5, <1>6 DEF Existing

LEMMA CommitKeepsDb ==
    ASSUME FamilyInv, NEW w \in Workers, Commit(w)
    PROVE  DbFits'
<1> DEFINE r == req[w]
           gone == Cascade(r.deletes)
           new == Inserts(r)
<1>1. DbFits /\ RequestFits(r)
    BY DEF FamilyInv
<1>2. /\ DOMAIN db' = (DOMAIN db \ gone) \cup new
      /\ \A k \in new : db'[k] = r.writes[k]
      /\ \A k \in DOMAIN db \ gone : k \notin new /\ k \in DOMAIN r.reads =>
             db'[k] = Merged(db[k], r.reads[k], r.writes[k])
      /\ \A k \in DOMAIN db \ gone : k \notin new /\ k \notin DOMAIN r.reads =>
             db'[k] = Unlinked(k, gone)
      /\ new \cap (DOMAIN db \ gone) = {}
    BY CommitRows
<1>3. /\ \A k \in new : /\ RowFits(k, db'[k]) /\ NumberFits(k)
                        /\ db'[k] = r.writes[k]
                        /\ k[1] # "user"
                        /\ Needs(db'[k]) \subseteq DOMAIN db'
      /\ \A k \in DOMAIN db' : k \notin new =>
            /\ k \in DOMAIN db /\ k \notin gone
            /\ RowFits(k, db'[k])
            /\ db'[k].refs = db[k].refs
            /\ Needs(db'[k]) \ {Account(0)} \subseteq DOMAIN db'
            /\ k[1] \notin Updated \cup {"event"} => db'[k] = db[k]
      /\ new # {} => \A k \in gone : k[1] = "tag"
    BY CommitFits
<1>4. new \subseteq DOMAIN r.writes /\ \A k \in new : k \notin DOMAIN r.reads
    BY DEF Inserts
<1>5. last' = last
    BY DEF Commit
<1> HIDE DEF gone, new, r
<1>6. ASSUME NEW k \in DOMAIN db'
      PROVE  /\ RowFits(k, db'[k]) /\ NumberFits(k)'
             /\ Needs(db'[k]) \ {Account(0)} \subseteq DOMAIN db'
  <2>1. NumberFits(k)
    BY <1>1, <1>3, <1>6 DEF DbFits
  <2>2. NumberFits(k)'
    BY <2>1, <1>5 DEF NumberFits
  <2> QED  BY <1>3, <2>2
<1>7. ASSUME NEW k \in DOMAIN db', k[1] = "user", OnTheWay(db'[k]), NEW t \in REQUIRED_TYPES
      PROVE  Existing(Agreement(k[2], t))'
  <2>1. k \in DOMAIN db /\ k \notin gone /\ k \notin new /\ RowFits(k, db[k])
    BY <1>1, <1>3, <1>7 DEF DbFits
  <2>2. k = Account(k[2])
    BY <2>1, <1>7, KeysAre DEF RowFits, Account, Serials
  <2>3. Existing(Account(k[2]))' /\ Existing(Account(k[2]))
    BY <2>1, <2>2 DEF Existing
  <2>4. CASE OnTheWay(db[k])
    <3>1. Existing(Agreement(k[2], t))
      BY <1>1, <1>7, <2>1, <2>4 DEF DbFits, Of
    <3> QED  BY <2>3, <3>1, AgreementStays
  <2>5. CASE ~OnTheWay(db[k])
    <3>1. k \in DOMAIN r.reads
      <4>1. k \notin DOMAIN r.reads => db'[k] = db[k]
        BY <1>1, <1>2, <1>7, <2>1, UnlinkedFits
      <4> QED  BY <4>1, <1>7, <2>5
    <3>2. ReadFits(r, k) /\ WriteFits(r, k)
      BY <1>1, <3>1 DEF RequestFits, ReadFits
    <3>3. db'[k] = Merged(db[k], r.reads[k], r.writes[k])
      BY <1>2, <2>1, <3>1
    <3>4. db'[k].onboarding # db[k].onboarding
      BY <1>7, <2>5 DEF OnTheWay
    <3>5. r.writes[k].onboarding # r.reads[k].onboarding /\ db'[k].onboarding = r.writes[k].onboarding
      BY <1>7, <2>1, <3>2, <3>3, <3>4, MergedFits DEF ReadFits, WriteFits, RowFits
    <3>6. Agreement(k[2], t) \in DOMAIN r.writes
      BY <1>7, <3>2, <3>5 DEF WriteFits, OnTheWay
    <3>7. CASE Agreement(k[2], t) \in new
      BY <1>2, <3>7 DEF Existing
    <3>8. CASE Agreement(k[2], t) \notin new
      <4>1. Agreement(k[2], t) \in DOMAIN r.reads
        BY <3>6, <3>8 DEF new, Inserts
      <4>2. ReadFits(r, Agreement(k[2], t))
        BY <4>1, <1>1 DEF RequestFits
      <4>3. Existing(Agreement(k[2], t))
        BY <4>2, <2>3 DEF ReadFits, Agreement
      <4> QED  BY <4>3, <2>3, AgreementStays
    <3> QED  BY <3>7, <3>8
  <2> QED  BY <2>4, <2>5
<1>8. ASSUME NEW c \in DOMAIN db', c[1] = "child", NEW u, u = db'[c].user_id
      PROVE  /\ Existing(Agreement(u, "guardian_consent"))'
             /\ \E l \in DOMAIN db' : Registers(l, db'[l], c, db'[c])
  <2>1. Existing(Account(u))'
    <3>1. RowFits(c, db'[c]) /\ Needs(db'[c]) \ {Account(0)} \subseteq DOMAIN db'
      BY <1>3
    <3>2. db'[c].refs = Own(u) /\ u \in Guardians
      BY <3>1, <1>8, TablesAre DEF RowFits, RefsFit, Child
    <3>3. Account(u) \in Needs(db'[c])
      BY <3>2 DEF Needs, Own
    <3>4. Account(u) # Account(0)
      BY <3>2, FamilyAssumption DEF Account
    <3> QED  BY <3>1, <3>3, <3>4 DEF Existing
  <2>2. Account(u) \in DOMAIN db /\ Account(u) \notin gone
    BY <2>1, <1>2, <1>3 DEF Existing, Account
  <2>3. CASE c \in new
    <3>1. WriteFits(r, c) /\ db'[c] = r.writes[c]
      BY <1>1, <1>3, <1>4, <2>3 DEF RequestFits
    <3>2. Existing(Agreement(u, "guardian_consent"))
      BY <1>8, <2>2, <3>1 DEF WriteFits, ConsentOf, Existing
    <3>3. PICK l \in DOMAIN r.writes : Registers(l, r.writes[l], c, r.writes[c])
      BY <1>8, <3>1 DEF WriteFits
    <3>4. l \in new
      <4>1. l \in DOMAIN r.reads => l[1] \in Updated
        BY <1>1 DEF RequestFits, ReadFits
      <4> QED  BY <3>3, <4>1 DEF Registers, Updated, new, Inserts
    <3>5. l \in DOMAIN db' /\ db'[l] = r.writes[l]
      BY <1>2, <3>4
    <3> QED  BY <2>1, <3>1, <3>2, <3>3, <3>5, AgreementStays
  <2>4. CASE c \notin new
    <3>1. c \in DOMAIN db /\ c \notin gone /\ db'[c] = db[c]
      BY <1>3, <1>8, <2>4 DEF Updated
    <3>2. /\ Existing(Agreement(u, "guardian_consent"))
          /\ \E l \in DOMAIN db : Registers(l, db[l], c, db[c])
      BY <1>1, <1>8, <3>1 DEF DbFits, Of
    <3>3. PICK l \in DOMAIN db : Registers(l, db[l], c, db[c])
      BY <3>2
    <3>4. RowFits(l, db[l]) /\ l \notin r.deletes /\ l[1] = "access_log"
      BY <1>1, <3>3 DEF DbFits, RequestFits, Registers
    <3>5. PICK d \in Keys : d[1] = "child" /\ db[l].refs = Own(u) \cup {d}
      <4>1. db[l].actor = u
        BY <1>8, <3>1, <3>3 DEF Registers
      <4> QED  BY <3>4, <4>1 DEF RowFits, RefsFit
    <3>6. d = c
      BY <3>3, <3>5, <1>8 DEF Registers, Own, Account
    <3>7. l \notin gone
      BY <1>1, <2>2, <3>1, <3>4, <3>5, <3>6, CascadeIs DEF Own, gone
    <3>8. l \in DOMAIN db' /\ l \notin new
      BY <1>2, <3>7
    <3>9. db'[l] = db[l]
      BY <1>3, <3>4, <3>8 DEF Updated
    <3> QED  BY <2>1, <3>1, <3>2, <3>3, <3>8, <3>9, AgreementStays
  <2> QED  BY <2>3, <2>4
<1> QED  BY <1>6, <1>7, <1>8 DEF DbFits, Of

LEMMA CommitKeeps ==
    ASSUME FamilyInv, NEW w \in Workers, Commit(w)
    PROVE  FamilyInv'
<1>1. DbFits'
    BY CommitKeepsDb
<1>2. mix' \in Mixes /\ NumbersFit' /\ last' = last
    BY DEF FamilyInv, Commit, NumbersFit
<1>3. ASSUME NEW v \in Workers
      PROVE  RequestFits(req[v])'
  <2>1. CASE req'[v] = NoRequest
    BY <2>1 DEF RequestFits, NoRequest, Nothing
  <2>2. CASE req'[v] # NoRequest
    <3> DEFINE r == req[v]
    <3>1. req'[v] = req[v] /\ RequestFits(r)
      BY <2>2 DEF Commit, FamilyInv
    <3>2. \A u : Existing(Account(u))' => Existing(Account(u))
      <4>1. \A n \in Inserts(req[w]) : n[1] # "user"
        BY CommitFits
      <4>2. DOMAIN db' = (DOMAIN db \ Cascade(req[w].deletes)) \cup Inserts(req[w])
        BY CommitRows
      <4> QED  BY <4>1, <4>2 DEF Existing, Account
    <3>3. ASSUME NEW k \in DOMAIN r.reads
          PROVE  ReadFits(r, k)'
      <4>1. ReadFits(r, k)
        BY <3>1 DEF RequestFits
      <4>2. ASSUME k[1] = "agreement", Existing(Account(k[2]))'
            PROVE  Existing(k)'
        <5>1. k = Agreement(k[2], k[3])
          BY <4>1, <4>2, KeysAre DEF ReadFits, RowFits, Agreement, Serials
        <5>2. Existing(k)
          BY <3>2, <4>1, <4>2 DEF ReadFits
        <5> QED  BY <4>2, <5>1, <5>2, AgreementStays
      <4> QED  BY <3>1, <4>1, <4>2 DEF ReadFits
    <3>4. ASSUME NEW k \in DOMAIN r.writes
          PROVE  WriteFits(r, k)'
      <4>1. WriteFits(r, k)
        BY <3>1 DEF RequestFits
      <4>2. ASSUME NEW u, ConsentOf(u)
            PROVE  ConsentOf(u)'
        BY <3>2, <4>2, AgreementStays DEF ConsentOf
      <4>3. NumberFits(k)'
        BY <1>2, <4>1 DEF WriteFits, NumberFits
      <4> QED  BY <3>1, <4>1, <4>2, <4>3 DEF WriteFits
    <3> QED  BY <3>1, <3>3, <3>4 DEF RequestFits
  <2> QED  BY <2>1, <2>2
<1> QED  BY <1>1, <1>2, <1>3 DEF FamilyInv

-----------------------------------------------------------------------------
(* The first step of a request.                                            *)

Grows == /\ last' \in [Serials -> Nat]
         /\ \A t \in Serials : last[t] <= last'[t]

LEMMA StartKeeps ==
    ASSUME FamilyInv, NEW w \in Workers, NEW op, NEW writes, NEW deletes,
           Start(w, op, writes, deletes), Grows,
           \A k \in DOMAIN writes :
               /\ RowFits(k, writes[k])
               /\ k[1] \in Serials => k[2] <= last'[k[1]]
               /\ k \in DOMAIN db /\ k \notin deletes =>
                     k[1] \in Updated /\ writes[k].refs = db[k].refs
               /\ k[1] = "user" =>
                     /\ k \in DOMAIN db
                     /\ OnTheWay(writes[k]) /\ writes[k].onboarding # db[k].onboarding =>
                            \A t \in REQUIRED_TYPES : Agreement(k[2], t) \in DOMAIN writes
               /\ k[1] = "child" =>
                     /\ Existing(Agreement(writes[k].user_id, "guardian_consent"))
                     /\ \E l \in DOMAIN writes : Registers(l, writes[l], k, writes[k]),
           \A k \in deletes : k[1] \in {"user", "child", "tag"},
           writes = Nothing \/ \A k \in deletes : k[1] = "tag"
    PROVE  FamilyInv'
<1> DEFINE reads == (DOMAIN writes \cap DOMAIN db) \ deletes
           new == [reads |-> [k \in reads |-> db[k]], writes |-> writes, deletes |-> deletes]
<1>1. /\ db' = db /\ mix' = mix
      /\ \A v \in Workers : req'[v] = req[v] \/ req'[v] = new
      /\ \A t \in Serials : last'[t] <= MaxRows[t]
  <2>1. req' = [req EXCEPT ![w] = new]
    BY DEF Start
  <2> HIDE DEF new
  <2>2. \A v \in Workers : req'[v] = req[v] \/ req'[v] = new
    BY <2>1
  <2> QED  BY <2>2 DEF Start
<1>2. mix \in Mixes /\ DbFits
    BY DEF FamilyInv
<1>3. NumbersFit'
    BY <1>1 DEF NumbersFit, Grows
<1>4. \A k : k \in Keys /\ NumberFits(k) => NumberFits(k)'
  <2>1. ASSUME NEW k \in Keys, k[1] \in Serials PROVE k[2] \in Nat
    <3>1. k[2] \in Numbers
      BY <2>1, KeysAre DEF Serials
    <3> QED  BY <3>1, FamilyAssumption DEF Numbers
  <2>2. \A t \in Serials : last[t] \in Nat /\ last'[t] \in Nat /\ last[t] <= last'[t]
    BY DEF Grows, FamilyInv, NumbersFit
  <2> QED  BY <2>1, <2>2 DEF NumberFits
<1>5. DbFits'
  <2>1. \A k \in DOMAIN db : NumberFits(k)'
    BY <1>2, <1>4 DEF DbFits, RowFits
  <2> QED  BY <1>1, <1>2, <2>1 DEF DbFits, Of, Existing
<1>6. ASSUME NEW v \in Workers, req'[v] = req[v]
      PROVE  RequestFits(req[v])'
  <2>1. RequestFits(req[v])
    BY DEF FamilyInv
  <2>2. \A k \in DOMAIN req[v].reads : ReadFits(req[v], k)'
    BY <1>1, <1>6, <2>1 DEF RequestFits, ReadFits, Existing
  <2>3. \A k \in DOMAIN req[v].writes : WriteFits(req[v], k)'
    <3>1. \A k \in DOMAIN req[v].writes : WriteFits(req[v], k) /\ NumberFits(k)'
      BY <1>4, <2>1 DEF RequestFits, WriteFits, RowFits
    <3> QED  BY <1>1, <1>6, <3>1 DEF WriteFits, ConsentOf, Existing
  <2> QED  BY <1>6, <2>1, <2>2, <2>3 DEF RequestFits
<1>7. ASSUME NEW v \in Workers, NEW r, r = new, req'[v] = r
      PROVE  RequestFits(req[v])'
  <2>1. r.reads = [k \in reads |-> db[k]] /\ r.writes = writes /\ r.deletes = deletes
    BY <1>7
  <2> HIDE DEF new
  <2>2. \A k \in DOMAIN r.reads : ReadFits(r, k)'
    BY <1>1, <1>2, <2>1 DEF ReadFits, DbFits, Existing
  <2>3. \A k \in DOMAIN r.writes : WriteFits(r, k)'
    <3>1. ASSUME NEW k \in DOMAIN writes
          PROVE  /\ RowFits(k, writes[k]) /\ NumberFits(k)'
                 /\ k[1] = "user" =>
                       /\ k \in reads
                       /\ OnTheWay(writes[k]) /\ writes[k].onboarding # db[k].onboarding =>
                              \A t \in REQUIRED_TYPES : Agreement(k[2], t) \in DOMAIN writes
                 /\ k[1] = "child" =>
                       /\ ConsentOf(writes[k].user_id)'
                       /\ \E l \in DOMAIN writes : Registers(l, writes[l], k, writes[k])
      <4>1. NumberFits(k)'
        BY DEF NumberFits
      <4>2. k[1] = "user" => k \in reads
        <5>1. writes # Nothing
          BY DEF Nothing
        <5> QED  BY <5>1
      <4> QED  BY <1>1, <4>1, <4>2 DEF ConsentOf, Existing
    <3> QED  BY <2>1, <3>1 DEF WriteFits
  <2>4. RequestFits(r)'
    BY <2>1, <2>2, <2>3 DEF RequestFits
  <2> QED  BY <1>7, <2>4
<1> QED  BY <1>1, <1>2, <1>3, <1>5, <1>6, <1>7 DEF FamilyInv

(* Where every numbered row that is new has the next number, it is the     *)
(* only one of its table.                                                  *)
LEMMA StartNumbers ==
    ASSUME FamilyInv, NEW w \in Workers, NEW op, NEW writes, NEW deletes,
           Start(w, op, writes, deletes),
           \A k \in DOMAIN writes : k[1] \in Serials => k = NewKey(k[1])
    PROVE  /\ Grows
           /\ \A t \in Serials : /\ last[t] \in Nat /\ NewKey(t) \notin DOMAIN db
                                 /\ NewKey(t) \in DOMAIN writes => last'[t] = last[t] + 1
                                 /\ NewKey(t) \in DOMAIN writes =>
                                        NewKey(t) \in Keys /\ last[t] + 1 \in Numbers
<1> DEFINE reads == (DOMAIN writes \cap DOMAIN db) \ deletes
           fresh(t) == {k \in DOMAIN writes \ reads : k[1] = t}
<1>1. last' = [t \in Serials |-> last[t] + Cardinality(fresh(t))]
    BY DEF Start
<1>2. last \in [Serials -> Nat] /\ \A t \in Serials : last'[t] <= MaxRows[t]
    BY DEF FamilyInv, NumbersFit, Start
<1>3. ASSUME NEW t \in Serials
      PROVE  NewKey(t) \notin DOMAIN db /\ NewKey(t)[1] = t
  <2>1. NewKey(t)[1] = t /\ NewKey(t)[2] = last[t] + 1
    BY DEF NewKey
  <2>2. \A k \in DOMAIN db : NumberFits(k)
    BY DEF FamilyInv, DbFits
  <2> QED  BY <1>2, <2>1, <2>2 DEF NumberFits
<1>4. ASSUME NEW t \in Serials
      PROVE  fresh(t) = IF NewKey(t) \in DOMAIN writes THEN {NewKey(t)} ELSE {}
    BY <1>3
<1>5. ASSUME NEW t \in Serials
      PROVE  Cardinality(fresh(t)) = IF NewKey(t) \in DOMAIN writes THEN 1 ELSE 0
    BY <1>4, FS_EmptySet, FS_Singleton
<1> HIDE DEF fresh
<1>6. \A t \in Serials : last'[t] = last[t] + (IF NewKey(t) \in DOMAIN writes THEN 1 ELSE 0)
    BY <1>1, <1>5
<1>7. Grows
    BY <1>1, <1>2, <1>5, <1>6 DEF Grows
<1>8. ASSUME NEW t \in Serials, NewKey(t) \in DOMAIN writes
      PROVE  NewKey(t) \in Keys /\ last[t] + 1 \in Numbers
  <2>1. last[t] + 1 \in 1..MaxRows[t]
    BY <1>2, <1>6, <1>8, FamilyAssumption
  <2>2. last[t] + 1 \in Numbers
    BY <2>1 DEF Numbers
  <2> QED  BY <2>2 DEF NewKey, Keys
<1> QED  BY <1>2, <1>3, <1>6, <1>7, <1>8

-----------------------------------------------------------------------------
(* The operations: consents.                                               *)

LEMMA RowIs == \A k, row : DOMAIN Row(k, row) = {k} /\ Row(k, row)[k] = row
BY DEF Row

LEMMA WithDomain == \A f, g : DOMAIN With(f, g) = DOMAIN f \cup DOMAIN g
BY DEF With

LEMMA WithIs ==
    \A f, g : /\ \A k \in DOMAIN f : With(f, g)[k] = f[k]
              /\ \A k \in DOMAIN g : k \notin DOMAIN f => With(f, g)[k] = g[k]
BY DEF With

LEMMA UserFits ==
    ASSUME NEW u \in Guardians
    PROVE  /\ Account(u) \in Keys /\ Account(u)[1] = "user" /\ Account(u)[2] = u
           /\ \A row \in User : RowFits(Account(u), row) /\ row.refs = {}
<1>1. Account(u) \in Keys /\ Account(u)[1] = "user" /\ Account(u)[2] = u
    BY DEF Account, Keys
<1>2. ASSUME NEW row \in User PROVE RowFits(Account(u), row) /\ row.refs = {}
  <2>1. row.refs = {}
    BY DEF User
  <2> HIDE DEF User
  <2> QED  BY <1>1, <2>1, TablesAre DEF RowFits, RefsFit
<1> QED  BY <1>1, <1>2

LEMMA AccountRow ==
    ASSUME FamilyInv, NEW u, Authenticated(u)
    PROVE  Account(u) \in DOMAIN db /\ db[Account(u)] \in User
<1>1. Account(u) \in DOMAIN db /\ Account(u)[1] = "user"
    BY DEF Authenticated, Existing, Account
<1> QED  BY <1>1, TablesAre DEF FamilyInv, DbFits, RowFits

LEMMA AdvanceOnboardingKeeps ==
    ASSUME FamilyInv, NEW w \in Workers, NEW u \in Guardians, advance_onboarding(w, u)
    PROVE  FamilyInv'
<1> DEFINE k == Account(u)
           row == [db[k] EXCEPT !.onboarding = "COMPLETED"]
           writes == Row(k, row)
<1>1. Start(w, "complete_onboarding", writes, {}) /\ Authenticated(u)
    BY DEF advance_onboarding
<1>2. k \in DOMAIN db /\ db[k] \in User
    BY <1>1, AccountRow
<1>3. row \in User /\ row.onboarding = "COMPLETED"
    BY <1>2 DEF User
<1>4. k[1] = "user" /\ RowFits(k, row) /\ row.refs = {} /\ db[k].refs = {}
    BY <1>2, <1>3, UserFits
<1> HIDE DEF k, row
<1>5. DOMAIN writes = {k} /\ writes[k] = row
    BY RowIs
<1> HIDE DEF writes
<1>6. Grows
    BY <1>1, <1>4, <1>5, StartNumbers DEF Serials
<1>7. ~OnTheWay(row)
    BY <1>3 DEF OnTheWay
<1> QED  BY <1>1, <1>2, <1>4, <1>5, <1>6, <1>7, StartKeeps DEF Serials, Updated

LEMMA WithdrawKeeps ==
    ASSUME FamilyInv, NEW w \in Workers, NEW u \in Guardians, withdraw(w, u)
    PROVE  FamilyInv'
<1> DEFINE k == Account(u)
           row == [db[k] EXCEPT !.is_active = FALSE]
           writes == Row(k, row)
<1>1. Start(w, "withdraw", writes, {}) /\ Authenticated(u)
    BY DEF withdraw
<1>2. k \in DOMAIN db /\ db[k] \in User
    BY <1>1, AccountRow
<1>3. row \in User /\ row.onboarding = db[k].onboarding
    BY <1>2 DEF User
<1>4. k[1] = "user" /\ RowFits(k, row) /\ row.refs = {} /\ db[k].refs = {}
    BY <1>2, <1>3, UserFits
<1> HIDE DEF k, row
<1>5. DOMAIN writes = {k} /\ writes[k] = row
    BY RowIs
<1> HIDE DEF writes
<1>6. Grows
    BY <1>1, <1>4, <1>5, StartNumbers DEF Serials
<1> QED  BY <1>1, <1>2, <1>3, <1>4, <1>5, <1>6, StartKeeps DEF Serials, Updated

LEMMA AgreementFits ==
    ASSUME NEW u \in Guardians, NEW t \in TermsType, NEW row \in TermsAgreement, row.refs = Own(u),
           t \in REQUIRED_TYPES => row.agreed /\ ~row.revoked
    PROVE  RowFits(Agreement(u, t), row)
<1> DEFINE k == Agreement(u, t)
<1>1. k \in Keys /\ k[1] = "agreement" /\ k[2] = u /\ k[3] = t
    BY DEF Agreement, Keys
<1> HIDE DEF k
<1>2. \A r \in Own(u) : Rank(r) < Rank(k)
    BY <1>1 DEF Own, Account, Rank
<1>3. RowFits(k, row)
    BY <1>1, <1>2, TablesAre DEF RowFits, RefsFit
<1> QED  BY <1>3 DEF k

LEMMA OwnIsKey == \A u \in Guardians : Own(u) \in Refs
BY UserFits DEF Own, Refs

LEMMA RevokeKeeps ==
    ASSUME FamilyInv, NEW w \in Workers, NEW u \in Guardians, NEW t \in TermsType,
           revoke_agreement(w, u, t)
    PROVE  FamilyInv'
<1> DEFINE k == Agreement(u, t)
           row == [db[k] EXCEPT !.revoked = TRUE]
           writes == Row(k, row)
<1>1. Start(w, "revoke_agreement", writes, {}) /\ k \in DOMAIN db /\ t \notin REQUIRED_TYPES
    BY DEF revoke_agreement, revocable, REQUIRED_TYPES, Existing
<1>2. k[1] = "agreement" /\ k[2] = u
    BY DEF Agreement
<1>3. db[k] \in TermsAgreement /\ db[k].refs = Own(u)
    BY <1>1, <1>2, TablesAre DEF FamilyInv, DbFits, RowFits, RefsFit
<1>4. row \in TermsAgreement /\ row.refs = Own(u)
    BY <1>3 DEF TermsAgreement
<1>5. RowFits(k, row)
    BY <1>1, <1>4, AgreementFits
<1> HIDE DEF k, row
<1>6. DOMAIN writes = {k} /\ writes[k] = row
    BY RowIs
<1> HIDE DEF writes
<1>7. Grows
    BY <1>1, <1>2, <1>6, StartNumbers DEF Serials
<1> QED  BY <1>1, <1>2, <1>3, <1>4, <1>5, <1>6, <1>7, StartKeeps DEF Serials, Updated

LEMMA SubmitAgreementsKeeps ==
    ASSUME FamilyInv, NEW w \in Workers, NEW u \in Guardians, NEW answer \in Answered,
           submit_agreements(w, u, answer)
    PROVE  FamilyInv'
<1> DEFINE a == Account(u)
           row == [db[a] EXCEPT !.onboarding = IF @ = "PENDING" THEN "TERMS_AGREED" ELSE @]
           stored == _store_agreements(u, answer)
           writes == With(stored, Row(a, row))
<1>1. Start(w, "submit_agreements", writes, {}) /\ Authenticated(u) /\ _validate_agreements(answer)
    BY DEF submit_agreements
<1>2. a \in DOMAIN db /\ db[a] \in User
    BY <1>1, AccountRow
<1>3. row \in User
    BY <1>2 DEF User
<1>4. a[1] = "user" /\ a[2] = u /\ RowFits(a, row) /\ row.refs = {} /\ db[a].refs = {}
    BY <1>2, <1>3, UserFits
<1>5. DOMAIN answer \subseteq TermsType /\ \A t \in DOMAIN answer : answer[t] \in BOOLEAN
  <2>1. PICK T \in SUBSET (TermsType \ REQUIRED_TYPES) : \E optional \in [T -> BOOLEAN] :
            answer = With([t \in REQUIRED_TYPES |-> TRUE], optional)
    BY DEF Answered
  <2>2. PICK optional \in [T -> BOOLEAN] :
            answer = With([t \in REQUIRED_TYPES |-> TRUE], optional)
    BY <2>1
  <2> DEFINE required == [t \in REQUIRED_TYPES |-> TRUE]
  <2>3. DOMAIN required = REQUIRED_TYPES /\ answer = With(required, optional)
    BY <2>2
  <2>4. \A t \in REQUIRED_TYPES : required[t] \in BOOLEAN
    OBVIOUS
  <2> HIDE DEF required
  <2>5. DOMAIN optional = T
    OBVIOUS
  <2>6. DOMAIN answer = REQUIRED_TYPES \cup T
    BY <2>3, <2>5, WithDomain
  <2>7. ASSUME NEW t \in DOMAIN answer PROVE answer[t] \in BOOLEAN
    <3>1. CASE t \in REQUIRED_TYPES
      <4>1. answer[t] = required[t]
        BY <2>3, <3>1, WithIs
      <4> QED  BY <2>4, <3>1, <4>1
    <3>2. CASE t \notin REQUIRED_TYPES
      <4>1. answer[t] = optional[t] /\ t \in T
        BY <2>3, <2>5, <2>6, <2>7, <3>2, WithIs
      <4> QED  BY <4>1
    <3> QED  BY <3>1, <3>2
  <2> QED  BY <2>6, <2>7 DEF TermsType
<1>6. /\ \A k \in DOMAIN stored : \E t \in DOMAIN answer : k = Agreement(u, t)
      /\ \A t \in DOMAIN answer :
            /\ Agreement(u, t) \in DOMAIN stored
            /\ stored[Agreement(u, t)] = [refs |-> Own(u), agreed |-> answer[t], revoked |-> ~answer[t]]
  <2>1. \A t : Agreement(u, t)[3] = t
    BY DEF Agreement
  <2> QED  BY <2>1 DEF _store_agreements
<1>7. ASSUME NEW k \in DOMAIN stored
      PROVE  /\ RowFits(k, stored[k]) /\ stored[k].refs = Own(u)
             /\ k[1] = "agreement" /\ k[2] = u
  <2>1. PICK t \in DOMAIN answer : k = Agreement(u, t)
    BY <1>6
  <2>2. stored[k] = [refs |-> Own(u), agreed |-> answer[t], revoked |-> ~answer[t]]
    BY <1>6, <2>1
  <2>3. stored[k] \in TermsAgreement /\ stored[k].refs = Own(u)
    BY <1>5, <2>2, OwnIsKey DEF TermsAgreement
  <2>4. t \in REQUIRED_TYPES => stored[k].agreed /\ ~stored[k].revoked
    <3>1. ASSUME t \in REQUIRED_TYPES PROVE answer[t] = TRUE
      BY <1>1, <1>5, <3>1 DEF _validate_agreements
    <3>2. stored[k].agreed = answer[t] /\ stored[k].revoked = ~answer[t]
      BY <2>2
    <3> HIDE DEF stored
    <3> QED  BY <3>1, <3>2
  <2>5. RowFits(k, stored[k])
    BY <1>5, <2>1, <2>3, <2>4, AgreementFits
  <2> QED  BY <2>1, <2>3, <2>5 DEF Agreement
<1>8. \A k \in DOMAIN stored : k \in DOMAIN db => db[k].refs = Own(u)
    BY <1>7 DEF FamilyInv, DbFits, RowFits, RefsFit
<1>9. \A t \in REQUIRED_TYPES : Agreement(u, t) \in DOMAIN stored
    BY <1>1, <1>6 DEF _validate_agreements
<1> HIDE DEF a, row, stored
<1>10. /\ DOMAIN writes = DOMAIN stored \cup {a}
       /\ \A k \in DOMAIN stored : writes[k] = stored[k]
       /\ a \notin DOMAIN stored /\ writes[a] = row
  <2>1. a \notin DOMAIN stored
    BY <1>4, <1>7
  <2>2. DOMAIN writes = DOMAIN stored \cup {a}
    BY WithDomain DEF Row
  <2>3. writes[a] = row
    BY <2>1 DEF With, Row
  <2>4. \A k \in DOMAIN stored : writes[k] = stored[k]
    BY WithIs
  <2> QED  BY <2>1, <2>2, <2>3, <2>4
<1> HIDE DEF writes
<1>11. Grows
    BY <1>1, <1>4, <1>7, <1>10, StartNumbers DEF Serials
<1>12. ASSUME NEW k \in DOMAIN writes
       PROVE  /\ RowFits(k, writes[k])
              /\ k[1] \notin Serials
              /\ k \in DOMAIN db => k[1] \in Updated /\ writes[k].refs = db[k].refs
              /\ k[1] = "user" => k \in DOMAIN db /\ \A t \in REQUIRED_TYPES : Agreement(k[2], t) \in DOMAIN writes
              /\ k[1] # "child"
  <2>1. CASE k = a
    BY <1>2, <1>4, <1>9, <1>10, <2>1 DEF Serials, Updated
  <2>2. CASE k \in DOMAIN stored
    BY <1>7, <1>8, <1>10, <2>2 DEF Serials, Updated
  <2> QED  BY <1>10, <2>1, <2>2
<1> QED  BY <1>1, <1>11, <1>12, StartKeeps

-----------------------------------------------------------------------------
(* Children.                                                               *)

LEMMA NewKeyIs == \A t : NewKey(t)[1] = t /\ NewKey(t)[2] = last[t] + 1
BY DEF NewKey

LEMMA NothingIs == DOMAIN Nothing = {}
BY DEF Nothing

LEMMA LogFits ==
    ASSUME FamilyInv, NEW u \in Guardians, NEW child \in Keys, child[1] = "child",
           NewKey("access_log") \in Keys, NEW action \in {"VIEW", "EDIT"}
    PROVE  RowFits(NewKey("access_log"),
                   [refs |-> Own(u) \cup {child}, actor |-> u, action |-> action])
<1> DEFINE k == NewKey("access_log")
           row == [refs |-> Own(u) \cup {child}, actor |-> u, action |-> action]
<1>1. k[1] = "access_log"
    BY NewKeyIs
<1>2. row \in AccessLog
    BY OwnIsKey DEF AccessLog, Refs
<1>3. row.refs = Own(row.actor) \cup {child}
    OBVIOUS
<1>4. row.refs = Own(u) \cup {child}
    OBVIOUS
<1> HIDE DEF row, k
<1>5. \A r \in row.refs : Rank(r) < Rank(k)
    BY <1>1, <1>4 DEF Own, Account, Rank
<1>6. RowFits(k, row)
    BY <1>1, <1>2, <1>3, <1>5, TablesAre DEF RowFits, RefsFit, k
<1> QED  BY <1>6 DEF k, row

LEMMA GetChildKeeps ==
    ASSUME FamilyInv, NEW w \in Workers, NEW u \in Guardians, NEW child,
           child \in ChildrenOf(u), get_child(w, u, child)
    PROVE  FamilyInv'
<1> DEFINE k == NewKey("access_log")
           row == [refs |-> Own(u) \cup {child}, actor |-> u, action |-> "VIEW"]
           writes == Row(k, row)
<1>1. Start(w, "get_child", writes, {})
    BY DEF get_child, log
<1>2. child \in Keys /\ child[1] = "child"
    BY DEF ChildrenOf, Of, FamilyInv, DbFits, RowFits
<1>3. DOMAIN writes = {k} /\ writes[k] = row
    BY RowIs
<1>4. k[1] = "access_log" /\ k[2] = last["access_log"] + 1
    BY NewKeyIs
<1> HIDE DEF writes
<1>5. /\ Grows /\ k \in Keys /\ k \notin DOMAIN db
      /\ k[2] <= last'["access_log"]
    BY <1>1, <1>3, <1>4, StartNumbers DEF Serials, Grows
<1>6. RowFits(k, row)
    BY <1>2, <1>5, LogFits
<1> HIDE DEF k, row
<1> QED  BY <1>1, <1>3, <1>4, <1>5, <1>6, StartKeeps

LEMMA DeleteChildKeeps ==
    ASSUME FamilyInv, NEW w \in Workers, NEW u \in Guardians, NEW child,
           child \in ChildrenOf(u), delete_child(w, u, child)
    PROVE  FamilyInv'
<1>1. Start(w, "delete_child", Nothing, {child})
    BY DEF delete_child
<1>2. child[1] = "child"
    BY DEF ChildrenOf, Of
<1>3. Grows
    BY <1>1, NothingIs, StartNumbers
<1> QED  BY <1>1, <1>2, <1>3, NothingIs, StartKeeps

LEMMA CreateChildKeeps ==
    ASSUME FamilyInv, NEW w \in Workers, NEW u \in Guardians, NEW months_old \in Months,
           NEW has \in Infos, create_child(w, u, months_old, has)
    PROVE  FamilyInv'
<1> DEFINE c == NewKey("child")
           child == [refs |-> Own(u), user_id |-> u, months_old |-> months_old]
           s == <<"sensitive", c[2]>>
           info == [refs |-> {c}, has |-> has]
           sensitive == IF has = {} THEN Nothing ELSE Row(s, info)
           l == NewKey("access_log")
           entry == [refs |-> Own(u) \cup {c}, actor |-> u, action |-> "EDIT"]
           rest == With(sensitive, Row(l, entry))
           writes == With(Row(c, child), rest)
<1>1. Start(w, "create_child", writes, {}) /\ Existing(Agreement(u, "guardian_consent"))
    BY DEF create_child, log, _assert_guardian_consent, Agreed
<1>2. /\ c[1] = "child" /\ c[2] = last["child"] + 1
      /\ l[1] = "access_log" /\ l[2] = last["access_log"] + 1
      /\ s[1] = "sensitive" /\ s[2] = c[2]
    BY NewKeyIs
<1>3. child.refs = Own(u) /\ child.user_id = u /\ info.refs = {c}
      /\ entry.refs = Own(u) \cup {c} /\ entry.actor = u /\ entry.action = "EDIT"
    OBVIOUS
<1>4. child \in [refs : {Own(u)}, user_id : Guardians, months_old : Months]
    OBVIOUS
<1> HIDE DEF c, child, s, info, l, entry
<1>5. DOMAIN sensitive \subseteq {s} /\ \A k \in DOMAIN sensitive : sensitive[k] = info
  <2>1. sensitive = Nothing \/ sensitive = Row(s, info)
    OBVIOUS
  <2> HIDE DEF sensitive
  <2>2. DOMAIN sensitive \subseteq {s}
    BY <2>1, NothingIs DEF Row
  <2>3. \A k \in DOMAIN sensitive : sensitive[k] = info
    BY <2>1, NothingIs DEF Row
  <2> QED  BY <2>2, <2>3
<1> HIDE DEF sensitive
<1>6. /\ DOMAIN rest = DOMAIN sensitive \cup {l}
      /\ \A k \in DOMAIN sensitive : rest[k] = info
      /\ rest[l] = entry
  <2>1. l \notin DOMAIN sensitive
    BY <1>2, <1>5
  <2>2. DOMAIN rest = DOMAIN sensitive \cup {l}
    BY WithDomain DEF Row
  <2>3. rest[l] = entry
    BY <2>1 DEF With, Row
  <2>4. \A k \in DOMAIN sensitive : rest[k] = info
    BY <1>5, WithIs
  <2> QED  BY <2>2, <2>3, <2>4
<1> HIDE DEF rest
<1>7. /\ DOMAIN writes = {c, l} \cup DOMAIN sensitive
      /\ writes[c] = child /\ writes[l] = entry
      /\ \A k \in DOMAIN sensitive : writes[k] = info
  <2>1. \A k \in DOMAIN rest : k # c
    BY <1>2, <1>5, <1>6
  <2>2. DOMAIN writes = {c} \cup DOMAIN rest
    BY WithDomain DEF Row
  <2>3. writes[c] = child
    BY DEF With, Row
  <2>4. \A k \in DOMAIN rest : writes[k] = rest[k]
    BY <2>1 DEF With, Row
  <2> QED  BY <1>6, <2>2, <2>3, <2>4
<1> HIDE DEF writes
<1>8. /\ Grows /\ c \in Keys /\ c \notin DOMAIN db /\ l \in Keys /\ l \notin DOMAIN db
      /\ c[2] \in Numbers /\ c[2] <= last'["child"] /\ l[2] <= last'["access_log"]
  <2>1. c = NewKey("child") /\ l = NewKey("access_log")
    BY DEF c, l
  <2>2. \A k \in DOMAIN writes : k[1] \in Serials => k = NewKey(k[1])
    BY <1>2, <1>5, <1>7, <2>1 DEF Serials
  <2> QED  BY <1>1, <1>2, <1>7, <2>1, <2>2, StartNumbers DEF Serials, Grows
<1>9. RowFits(c, child)
  <2>1. child \in Child
    BY <1>4, OwnIsKey DEF Child
  <2>2. \A r \in child.refs : Rank(r) < Rank(c)
    BY <1>2, <1>3 DEF Own, Account, Rank
  <2> QED  BY <1>2, <1>3, <1>8, <2>1, <2>2, TablesAre DEF RowFits, RefsFit
<1>10. RowFits(l, entry)
    BY <1>2, <1>8, LogFits DEF l, entry
<1>11. RowFits(s, info) /\ s \notin DOMAIN db
  <2>1. s \in Keys
    BY <1>2, <1>8 DEF s, Keys
  <2>2. info \in ChildSensitiveInfo
    BY <1>8, FamilyAssumption DEF info, ChildSensitiveInfo, Refs
  <2>3. c = <<"child", s[2]>>
    BY <1>2 DEF c, NewKey
  <2>4. \A r \in info.refs : Rank(r) < Rank(s)
    BY <1>2, <1>3 DEF Rank
  <2>5. RowFits(s, info)
    BY <1>2, <1>3, <2>1, <2>2, <2>3, <2>4, TablesAre DEF RowFits, RefsFit
  <2>6. ASSUME s \in DOMAIN db PROVE FALSE
    <3>1. db[s].refs = {c} /\ Needs(db[s]) \ {Account(0)} \subseteq DOMAIN db
      BY <1>2, <2>3, <2>6 DEF FamilyInv, DbFits, RowFits, RefsFit
    <3>2. c \in Needs(db[s]) /\ c # Account(0)
      BY <1>2, <3>1 DEF Needs, Account
    <3> QED  BY <1>8, <3>1, <3>2
  <2> QED  BY <2>5, <2>6
<1>12. Registers(l, entry, c, child)
    BY <1>2, <1>3 DEF Registers
<1>13. ASSUME NEW k \in DOMAIN writes
       PROVE  /\ RowFits(k, writes[k])
              /\ k[1] \in Serials => k[2] <= last'[k[1]]
              /\ k \notin DOMAIN db
              /\ k[1] # "user"
              /\ k[1] = "child" =>
                    /\ Existing(Agreement(writes[k].user_id, "guardian_consent"))
                    /\ \E n \in DOMAIN writes : Registers(n, writes[n], k, writes[k])
  <2>1. CASE k = c
    BY <1>1, <1>2, <1>3, <1>7, <1>8, <1>9, <1>12, <2>1
  <2>2. CASE k = l
    BY <1>2, <1>7, <1>8, <1>10, <2>2
  <2>3. CASE k \in DOMAIN sensitive
    BY <1>2, <1>5, <1>7, <1>11, <2>3 DEF Serials
  <2> QED  BY <1>7, <2>1, <2>2, <2>3
<1> QED  BY <1>1, <1>8, <1>13, StartKeeps

-----------------------------------------------------------------------------
(* Profile, parenting values and shifts.                                   *)

LEMMA OwnRowFits ==
    ASSUME NEW u \in Guardians, NEW k \in Keys, k[2] = u,
           k[1] \in {"profile", "values", "schedule", "notification", "tag"},
           NEW row \in Table[k[1]], row.refs = Own(u)
    PROVE  RowFits(k, row)
<1>1. \A r \in row.refs : Rank(r) < Rank(k)
    BY DEF Own, Account, Rank
<1> QED  BY <1>1 DEF RowFits, RefsFit

(* An own row that is there refers to its owner.                           *)
LEMMA OwnRowRead ==
    ASSUME FamilyInv, NEW k \in DOMAIN db,
           k[1] \in {"profile", "values", "schedule", "notification"}
    PROVE  db[k] \in Table[k[1]] /\ db[k].refs = Own(k[2])
BY DEF FamilyInv, DbFits, RowFits, RefsFit

LEMMA UpsertProfileKeeps ==
    ASSUME FamilyInv, NEW w \in Workers, NEW u \in Guardians, NEW residence_h3 \in Cells,
           NEW tags \in TagSets, upsert_profile(w, u, residence_h3, tags)
    PROVE  FamilyInv'
<1> DEFINE p == <<"profile", u>>
           profile == [refs |-> Own(u), residence_h3 |-> residence_h3]
           stored == replace_tags(u, tags)
           deletes == {"tag"} \X {u} \X Tags
           writes == With(stored, Row(p, profile))
<1>1. Start(w, "upsert_profile", writes, deletes)
    BY DEF upsert_profile
<1>2. p \in Keys /\ p[1] = "profile" /\ p[2] = u
    BY DEF Keys
<1>3. profile \in GuardianProfile /\ profile.refs = Own(u)
    BY OwnIsKey DEF GuardianProfile
<1>4. RowFits(p, profile)
  <2> HIDE DEF p, profile
  <2> QED  BY <1>2, <1>3, TablesAre, OwnRowFits
<1>5. p \in DOMAIN db => db[p].refs = Own(u)
    BY <1>2, OwnRowRead
<1>6. \A k \in deletes : k[1] = "tag"
    OBVIOUS
<1>7. ASSUME NEW k \in DOMAIN stored
      PROVE  RowFits(k, stored[k]) /\ k[1] = "tag" /\ k \in deletes
  <2>1. k \in {"tag"} \X {u} \X tags /\ stored[k] = [refs |-> Own(u)] /\ tags \subseteq Tags
    BY FamilyAssumption DEF replace_tags
  <2>2. k \in Keys /\ k[1] = "tag" /\ k[2] = u /\ k \in deletes
    BY <2>1 DEF Keys
  <2>3. stored[k] \in GuardianTag /\ stored[k].refs = Own(u)
    BY <2>1, OwnIsKey DEF GuardianTag
  <2> QED  BY <2>2, <2>3, TablesAre, OwnRowFits
<1> HIDE DEF p, profile, stored, deletes
<1>8. /\ DOMAIN writes = DOMAIN stored \cup {p}
      /\ \A k \in DOMAIN stored : writes[k] = stored[k]
      /\ p \notin DOMAIN stored /\ writes[p] = profile
  <2>1. p \notin DOMAIN stored
    BY <1>2, <1>7
  <2>2. DOMAIN writes = DOMAIN stored \cup {p}
    BY WithDomain DEF Row
  <2>3. writes[p] = profile
    BY <2>1 DEF With, Row
  <2>4. \A k \in DOMAIN stored : writes[k] = stored[k]
    BY WithIs
  <2> QED  BY <2>1, <2>2, <2>3, <2>4
<1> HIDE DEF writes
<1>9. ASSUME NEW k \in DOMAIN writes
      PROVE  /\ RowFits(k, writes[k]) /\ k[1] \in {"tag", "profile"}
             /\ k \in DOMAIN db /\ k \notin deletes => k[1] \in Updated /\ writes[k].refs = db[k].refs
  <2>1. CASE k = p
    BY <1>2, <1>3, <1>4, <1>5, <1>8, <2>1 DEF Updated
  <2>2. CASE k \in DOMAIN stored
    BY <1>7, <1>8, <2>2
  <2> QED  BY <1>8, <2>1, <2>2
<1>10. Grows
    BY <1>1, <1>9, StartNumbers DEF Serials
<1> QED  BY <1>1, <1>6, <1>9, <1>10, StartKeeps DEF Serials

LEMMA ScoresAre ==
    ASSUME NEW answers \in Answers
    PROVE  _score_answers(answers)[1] \in 4..20 /\ _score_answers(answers)[2] \in 4..20
<1>1. answers \in [1..8 -> 1..5]
    BY FamilyAssumption
<1>2. \A i \in 1..8 : answers[i] \in 1..5
    BY <1>1
<1>3. /\ answers[1] \in 1..5 /\ answers[2] \in 1..5 /\ answers[3] \in 1..5 /\ answers[4] \in 1..5
      /\ answers[5] \in 1..5 /\ answers[6] \in 1..5 /\ answers[7] \in 1..5 /\ answers[8] \in 1..5
    BY <1>2
<1> QED  BY <1>3 DEF _score_answers

LEMMA LabelIs ==
    ASSUME NEW warmth \in 4..20, NEW control \in 4..20
    PROVE  classify_type(warmth, control) \in ParentingTypeLabel
BY DEF classify_type, ParentingTypeLabel, Midpoint

LEMMA DiagnosedIs ==
    ASSUME NEW u \in Guardians, NEW answers \in Answers, NEW narrative \in BOOLEAN
    PROVE  LET row == Diagnosed(u, _score_answers(answers), narrative)
           IN  row \in ParentingValuesProfile /\ row.refs = Own(u)
<1> DEFINE scores == _score_answers(answers)
<1>1. scores[1] \in 4..20 /\ scores[2] \in 4..20
    BY ScoresAre
<1>2. classify_type(scores[1], scores[2]) \in ParentingTypeLabel
    BY <1>1, LabelIs
<1> HIDE DEF scores
<1>3. Diagnosed(u, scores, narrative) \in ParentingValuesProfile
    BY <1>1, <1>2, OwnIsKey DEF Diagnosed, ParentingValuesProfile
<1>4. Diagnosed(u, scores, narrative).refs = Own(u)
    BY DEF Diagnosed
<1> QED  BY <1>3, <1>4 DEF scores

LEMMA HistoryFits ==
    ASSUME NEW u \in Guardians, NEW row \in ParentingValuesProfile,
           NEW k \in Keys, k[1] = "values_history", NEW source \in {"QUESTIONNAIRE", "NARRATIVE"}
    PROVE  RowFits(k, HistoryRow(u, row, source)) /\ HistoryRow(u, row, source).refs = Own(u)
<1> DEFINE entry == HistoryRow(u, row, source)
<1>1. row.warmth \in 4..20 /\ row.control \in 4..20 /\ row.type_label \in ParentingTypeLabel
    BY DEF ParentingValuesProfile
<1>2. entry \in ParentingValuesHistory
    BY <1>1, OwnIsKey DEF HistoryRow, ParentingValuesHistory
<1>3. entry.refs = Own(u) /\ entry.user_id = u
    BY DEF HistoryRow
<1> HIDE DEF entry
<1>4. \A r \in entry.refs : Rank(r) < Rank(k)
    BY <1>3 DEF Own, Account, Rank
<1>5. RowFits(k, entry)
    BY <1>2, <1>3, <1>4, TablesAre DEF RowFits, RefsFit
<1> QED  BY <1>3, <1>5 DEF entry

(* The profile, and an entry of its history in the same transaction.       *)
LEMMA ValuesKeeps ==
    ASSUME FamilyInv, NEW w \in Workers, NEW u \in Guardians, NEW op,
           NEW row \in ParentingValuesProfile, row.refs = Own(u),
           NEW said \in ParentingValuesProfile, NEW source \in {"QUESTIONNAIRE", "NARRATIVE"},
           Start(w, op, With(Row(Values(u), row), add_history(u, said, source)), {})
    PROVE  FamilyInv'
<1> DEFINE v == Values(u)
           h == NewKey("values_history")
           entry == HistoryRow(u, said, source)
           writes == With(Row(v, row), Row(h, entry))
<1>1. Start(w, op, writes, {})
    BY DEF add_history
<1>2. v \in Keys /\ v[1] = "values" /\ v[2] = u
    BY DEF Values, Keys
<1>3. h[1] = "values_history" /\ h[2] = last["values_history"] + 1
    BY NewKeyIs
<1> HIDE DEF v, h, entry
<1>4. DOMAIN writes = {v, h} /\ writes[v] = row /\ writes[h] = entry
  <2>1. v # h
    BY <1>2, <1>3
  <2> QED  BY <2>1 DEF With, Row
<1> HIDE DEF writes
<1>5. /\ Grows /\ h \in Keys /\ h \notin DOMAIN db /\ h[2] <= last'["values_history"]
  <2>1. \A k \in DOMAIN writes : k[1] \in Serials => k = NewKey(k[1])
    BY <1>2, <1>3, <1>4 DEF h, Serials
  <2>2. h = NewKey("values_history")
    BY DEF h
  <2> QED  BY <1>1, <1>3, <1>4, <2>1, <2>2, StartNumbers DEF Serials, Grows
<1>6. RowFits(h, entry)
    BY <1>3, <1>5, HistoryFits DEF entry
<1>7. RowFits(v, row)
    BY <1>2, TablesAre, OwnRowFits
<1>8. v \in DOMAIN db => db[v].refs = Own(u)
    BY <1>2, OwnRowRead
<1> QED  BY <1>1, <1>2, <1>3, <1>4, <1>5, <1>6, <1>7, <1>8, StartKeeps DEF Serials, Updated

LEMMA QuestionnaireKeeps ==
    ASSUME FamilyInv, NEW w \in Workers, NEW u \in Guardians, NEW answers \in Answers,
           submit_questionnaire(w, u, answers)
    PROVE  FamilyInv'
<1> DEFINE known == Existing(Values(u))
           narrative == known /\ db[Values(u)].narrative
           row == Diagnosed(u, _score_answers(answers), narrative)
<1>1. Start(w, "submit_questionnaire",
            With(Row(Values(u), row), add_history(u, row, "QUESTIONNAIRE")), {})
    BY DEF submit_questionnaire
<1>2. narrative \in BOOLEAN
    OBVIOUS
<1>3. row \in ParentingValuesProfile /\ row.refs = Own(u)
    BY <1>2, DiagnosedIs
<1> HIDE DEF row
<1> QED  BY <1>1, <1>3, ValuesKeeps

LEMMA NarrativeKeeps ==
    ASSUME FamilyInv, NEW w \in Workers, NEW u \in Guardians, submit_narrative(w, u)
    PROVE  FamilyInv'
<1> DEFINE v == Values(u)
           row == [db[v] EXCEPT !.narrative = TRUE]
<1>1. /\ Start(w, "submit_narrative", With(Row(v, row), add_history(u, db[v], "NARRATIVE")), {})
      /\ v \in DOMAIN db
    BY DEF submit_narrative, Existing
<1>2. v[1] = "values" /\ v[2] = u
    BY DEF Values
<1>3. db[v] \in ParentingValuesProfile /\ db[v].refs = Own(u)
    BY <1>1, <1>2, OwnRowRead, TablesAre
<1>4. row \in ParentingValuesProfile /\ row.refs = Own(u)
    BY <1>3 DEF ParentingValuesProfile
<1> HIDE DEF row
<1> QED  BY <1>1, <1>3, <1>4, ValuesKeeps

LEMMA MasksAre ==
    ASSUME NEW template \in ShiftTemplate
    PROVE  /\ template_masks(template)[1] \in SUBSET FULL_AVAILABLE_MASK
           /\ template_masks(template)[2] \in SUBSET FULL_AVAILABLE_MASK
BY DEF ShiftTemplate, template_masks, _range_mask

LEMMA ShiftRowIs ==
    ASSUME FamilyInv, NEW u \in Guardians, NEW d \in Days
    PROVE  /\ Shift(u, d) \in Keys /\ Shift(u, d)[1] = "schedule" /\ Shift(u, d)[2] = u
           /\ _get_or_create(u, d) \in WorkSchedule
           /\ _get_or_create(u, d).refs = Own(u)
           /\ Shift(u, d) \in DOMAIN db => db[Shift(u, d)].refs = Own(u)
<1> DEFINE k == Shift(u, d)
           new == [refs |-> Own(u), slot_bitmask |-> FULL_AVAILABLE_MASK, shift_template |-> "OFF"]
<1>1. k \in Keys /\ k[1] = "schedule" /\ k[2] = u
    BY DEF Shift, Keys
<1>2. new \in WorkSchedule /\ new.refs = Own(u)
    BY OwnIsKey DEF WorkSchedule, ShiftTemplate
<1> HIDE DEF k, new
<1>3. k \in DOMAIN db => db[k] \in WorkSchedule /\ db[k].refs = Own(u)
    BY <1>1, OwnRowRead, TablesAre
<1>4. _get_or_create(u, d) = IF k \in DOMAIN db THEN db[k] ELSE new
    BY DEF _get_or_create, Existing, k, new
<1> QED  BY <1>1, <1>2, <1>3, <1>4 DEF k

LEMMA RegisterShiftKeeps ==
    ASSUME FamilyInv, NEW w \in Workers, NEW u \in Guardians, NEW d \in Days,
           NEW template \in ShiftTemplate, register_shift(w, u, d, template)
    PROVE  FamilyInv'
<1> DEFINE masks == template_masks(template)
           today == [_get_or_create(u, d) EXCEPT !.slot_bitmask = masks[1],
                                                 !.shift_template = template]
           next == _get_or_create(u, d + 1)
           both == masks[2] # FULL_AVAILABLE_MASK
           cut == [next EXCEPT !.slot_bitmask = NextMask(next, masks[2])]
           k == Shift(u, d)
           n == Shift(u, d + 1)
           rest == IF both THEN Row(n, cut) ELSE Nothing
           writes == With(Row(k, today), rest)
<1>1. Start(w, "register_shift", writes, {}) /\ (both => d + 1 \in Days)
    BY DEF register_shift
<1>2. masks[1] \in SUBSET FULL_AVAILABLE_MASK /\ masks[2] \in SUBSET FULL_AVAILABLE_MASK
    BY MasksAre
<1>3. /\ k \in Keys /\ k[1] = "schedule" /\ k[2] = u
      /\ today \in WorkSchedule /\ today.refs = Own(u)
      /\ k \in DOMAIN db => db[k].refs = Own(u)
  <2>1. /\ k \in Keys /\ k[1] = "schedule" /\ k[2] = u
        /\ _get_or_create(u, d) \in WorkSchedule /\ _get_or_create(u, d).refs = Own(u)
        /\ k \in DOMAIN db => db[k].refs = Own(u)
    BY ShiftRowIs
  <2> HIDE DEF masks, k
  <2>2. today \in WorkSchedule /\ today.refs = Own(u)
    BY <1>2, <2>1 DEF WorkSchedule
  <2> QED  BY <2>1, <2>2
<1>4. ASSUME both
      PROVE  /\ n \in Keys /\ n[1] = "schedule" /\ n[2] = u /\ n # k
             /\ cut \in WorkSchedule /\ cut.refs = Own(u)
             /\ n \in DOMAIN db => db[n].refs = Own(u)
  <2>1. d + 1 \in Days /\ d + 1 # d
    BY <1>1, <1>4 DEF Days
  <2>2. /\ n \in Keys /\ n[1] = "schedule" /\ n[2] = u
        /\ next \in WorkSchedule /\ next.refs = Own(u)
        /\ n \in DOMAIN db => db[n].refs = Own(u)
    BY <2>1, ShiftRowIs
  <2>3. n # k
    BY <2>1 DEF Shift
  <2> HIDE DEF masks, k, n, next
  <2>4. next.slot_bitmask \in SUBSET FULL_AVAILABLE_MASK
    BY <2>2 DEF WorkSchedule
  <2>5. NextMask(next, masks[2]) \in SUBSET FULL_AVAILABLE_MASK
    BY <2>4 DEF NextMask
  <2>6. cut \in WorkSchedule /\ cut.refs = Own(u)
    BY <2>2, <2>5 DEF WorkSchedule
  <2> QED  BY <2>2, <2>3, <2>6
<1> HIDE DEF today, cut, k, n
<1>5. /\ DOMAIN rest \subseteq {n}
      /\ \A m \in DOMAIN rest : both /\ rest[m] = cut
  <2>1. CASE both
    BY <2>1 DEF Row
  <2>2. CASE ~both
    BY <2>2, NothingIs
  <2> QED  BY <2>1, <2>2
<1> HIDE DEF rest
<1>6. DOMAIN writes = {k} \cup DOMAIN rest
  <2>1. DOMAIN Row(k, today) = {k}
    BY RowIs, Zenon
  <2> QED  BY <2>1, WithDomain, Zenon
<1>7. writes[k] = today /\ \A m \in DOMAIN rest : m # k => writes[m] = rest[m]
  <2>1. writes[k] = today
    BY DEF With, Row
  <2>2. \A m \in DOMAIN rest : m # k => writes[m] = rest[m]
    BY DEF With, Row
  <2> QED  BY <2>1, <2>2
<1> HIDE DEF writes, both
<1>8. ASSUME NEW m \in DOMAIN writes
      PROVE  /\ RowFits(m, writes[m]) /\ m[1] = "schedule"
             /\ m \in DOMAIN db => writes[m].refs = db[m].refs
  <2>1. CASE m = k
    BY <1>3, <1>7, <2>1, OwnRowFits, TablesAre
  <2>2. CASE m # k
    <3>1. m = n /\ both /\ writes[m] = cut
      BY <1>5, <1>6, <1>7, <2>2
    <3> QED  BY <1>4, <3>1, OwnRowFits, TablesAre
  <2> QED  BY <2>1, <2>2
<1>9. Grows
    BY <1>1, <1>8, StartNumbers DEF Serials
<1> QED  BY <1>1, <1>8, <1>9, StartKeeps DEF Serials, Updated

-----------------------------------------------------------------------------
(* The operations: trust scores, what follows a session, messages, leaving. *)

(* Rows whose references are bound by their rank only.                     *)
LEMMA LooseFits ==
    ASSUME NEW k \in Keys, NEW row \in Table[k[1]],
           k[1] \in {"weights", "weights_history", "event", "evaluation", "message"},
           \A r \in row.refs : r[1] \in {"user", "session", "relationship"}
    PROVE  RowFits(k, row)
<1>1. Rank(k) = 3
    BY DEF Rank
<1>2. \A r \in row.refs : Rank(r) < 3
    BY DEF Rank
<1> QED  BY <1>1, <1>2 DEF RowFits, RefsFit

LEMMA GetOrCreateKeeps ==
    ASSUME FamilyInv, NEW w \in Workers, get_or_create(w)
    PROVE  FamilyInv'
<1> DEFINE k == <<"weights">>
           row == WeightsRow(DEFAULT_WEIGHTS)
           writes == Row(k, row)
<1>1. Start(w, "get_or_create", writes, {}) /\ k \notin DOMAIN db
    BY DEF get_or_create, Existing
<1>2. k \in Keys /\ k[1] = "weights"
    BY DEF Keys
<1>3. row \in TrustWeights /\ row.refs = {}
    BY DEF WeightsRow, DEFAULT_WEIGHTS, TrustWeights
<1>4. DOMAIN writes = {k} /\ writes[k] = row
    BY RowIs
<1> HIDE DEF writes, row, k
<1>5. RowFits(k, row)
    BY <1>2, <1>3, LooseFits, TablesAre
<1>6. Grows
    BY <1>1, <1>2, <1>4, StartNumbers DEF Serials
<1> QED  BY <1>1, <1>2, <1>4, <1>5, <1>6, StartKeeps DEF Serials

LEMMA UpdateWeightsKeeps ==
    ASSUME FamilyInv, NEW w \in Workers, NEW u \in Guardians, NEW ws \in Weights,
           update_weights(w, u, ws)
    PROVE  FamilyInv'
<1> DEFINE k == <<"weights">>
           h == NewKey("weights_history")
           row == WeightsRow(ws)
           entry == [db[k] EXCEPT !.refs = Own(u)]
           writes == With(Row(k, row), Row(h, entry))
<1>1. Start(w, "update_weights", writes, {}) /\ k \in DOMAIN db
    BY DEF update_weights, Existing
<1>2. k \in Keys /\ k[1] = "weights"
    BY DEF Keys
<1>3. h[1] = "weights_history" /\ h[2] = last["weights_history"] + 1
    BY NewKeyIs
<1>4. row \in TrustWeights /\ row.refs = {}
  <2>1. ws \in [1..4 -> Int]
    BY FamilyAssumption
  <2> QED  BY <2>1 DEF WeightsRow, TrustWeights
<1>5. db[k] \in TrustWeights /\ db[k].refs = {}
  <2> HIDE DEF k
  <2>1. db[k] \in Table[k[1]]
    BY <1>1 DEF FamilyInv, DbFits, RowFits
  <2>2. db[k] \in TrustWeights
    BY <1>2, <2>1, TablesAre
  <2> QED  BY <2>2 DEF TrustWeights
<1>6. entry \in TrustWeightHistory /\ entry.refs = Own(u)
  <2> HIDE DEF k
  <2> QED  BY <1>5, OwnIsKey DEF TrustWeights, TrustWeightHistory
<1> HIDE DEF row, k, h, entry
<1>7. DOMAIN writes = {k, h} /\ writes[k] = row /\ writes[h] = entry
  <2>1. k # h
    BY <1>2, <1>3
  <2> QED  BY <2>1 DEF With, Row
<1> HIDE DEF writes
<1>8. /\ Grows /\ h \in Keys /\ h \notin DOMAIN db /\ h[2] <= last'["weights_history"]
  <2>1. \A n \in DOMAIN writes : n[1] \in Serials => n = NewKey(n[1])
    BY <1>2, <1>3, <1>7 DEF h, Serials
  <2>2. h = NewKey("weights_history")
    BY DEF h
  <2> QED  BY <1>1, <1>3, <1>7, <2>1, <2>2, StartNumbers DEF Serials, Grows
<1>9. RowFits(k, row)
    BY <1>2, <1>4, LooseFits, TablesAre
<1>10. RowFits(h, entry)
    BY <1>3, <1>6, <1>8, LooseFits, TablesAre DEF Own, Account
<1> QED  BY <1>1, <1>2, <1>3, <1>4, <1>5, <1>7, <1>8, <1>9, <1>10, StartKeeps
         DEF Serials, Updated

(* A session that is there refers to the account of the two and a child.   *)
LEMMA SessionRead ==
    ASSUME FamilyInv, NEW k \in Of("session")
    PROVE  /\ k[2] \in Numbers /\ k = Session(k[2]) /\ k \in Keys
           /\ db[k].requester \in Guardians /\ db[k].provider \in Guardians
<1>1. k \in Keys /\ k[1] = "session" /\ db[k] \in Table[k[1]]
    BY DEF Of, FamilyInv, DbFits, RowFits
<1>2. db[k] \in CareSession
    BY <1>1, TablesAre
<1> QED  BY <1>1, <1>2, KeysAre DEF CareSession, Session, Serials

LEMMA UpsertLogKeeps ==
    ASSUME FamilyInv, NEW w \in Workers, NEW u \in Guardians, NEW s \in Numbers,
           Session(s) \in Of("session"), NEW note \in BOOLEAN, upsert_log(w, u, s, note)
    PROVE  FamilyInv'
<1> DEFINE k == <<"care_log", s>>
           row == [refs |-> {Session(s)}, allergy_note |-> note]
           writes == Row(k, row)
<1>1. Start(w, "upsert_log", writes, {})
    BY DEF upsert_log
<1>2. k \in Keys /\ k[1] = "care_log" /\ k[2] = s
    BY DEF Keys
<1>3. row \in CareLog /\ row.refs = {Session(s)}
    BY SessionRead DEF CareLog, Refs
<1>4. DOMAIN writes = {k} /\ writes[k] = row
    BY RowIs
<1> HIDE DEF writes, row, k
<1>5. RowFits(k, row)
  <2>1. Rank(Session(s)) < Rank(k)
    BY <1>2 DEF Session, Rank
  <2> QED  BY <1>2, <1>3, <2>1, TablesAre DEF RowFits, RefsFit
<1>6. k \in DOMAIN db => db[k].refs = {Session(s)}
    BY <1>2 DEF FamilyInv, DbFits, RowFits, RefsFit
<1>7. Grows
    BY <1>1, <1>2, <1>4, StartNumbers DEF Serials
<1>8. ASSUME NEW n \in DOMAIN writes
      PROVE  /\ RowFits(n, writes[n]) /\ n[1] = "care_log"
             /\ n \in DOMAIN db => writes[n].refs = db[n].refs
    BY <1>2, <1>3, <1>4, <1>5, <1>6
<1> QED  BY <1>1, <1>7, <1>8, StartKeeps DEF Serials, Updated

LEMMA SubmitEvaluationKeeps ==
    ASSUME FamilyInv, NEW w \in Workers, NEW u \in Guardians, NEW s \in Numbers,
           Session(s) \in Of("session"), NEW rating \in Ratings,
           submit_evaluation(w, u, s, rating)
    PROVE  FamilyInv'
<1> DEFINE other == IF u = db[Session(s)].requester THEN db[Session(s)].provider
                                                    ELSE db[Session(s)].requester
           k == <<"evaluation", s, u>>
           row == [refs |-> {Session(s)} \cup Own(u) \cup Own(other),
                   evaluatee |-> other, rating |-> rating]
           writes == Row(k, row)
<1>1. Start(w, "submit_evaluation", writes, {}) /\ k \notin DOMAIN db
    BY DEF submit_evaluation, Existing
<1>2. k \in Keys /\ k[1] = "evaluation"
    BY DEF Keys
<1>3. other \in Guardians
    BY SessionRead
<1> HIDE DEF other
<1>4. row \in CareEvaluation /\ row.refs = {Session(s)} \cup Own(u) \cup Own(other)
  <2>1. {Session(s)} \cup Own(u) \cup Own(other) \in Refs
    BY <1>3, SessionRead, OwnIsKey DEF Refs
  <2> QED  BY <1>3, <2>1 DEF CareEvaluation
<1>5. DOMAIN writes = {k} /\ writes[k] = row
    BY RowIs
<1> HIDE DEF writes, row, k
<1>6. \A r \in row.refs : r[1] \in {"user", "session"}
    BY <1>4 DEF Session, Own, Account
<1>7. RowFits(k, row)
    BY <1>2, <1>4, <1>6, LooseFits, TablesAre
<1>8. Grows
    BY <1>1, <1>2, <1>5, StartNumbers DEF Serials
<1> QED  BY <1>1, <1>2, <1>5, <1>7, <1>8, StartKeeps DEF Serials

LEMMA SendMessageKeeps ==
    ASSUME FamilyInv, NEW w \in Workers, NEW u \in Guardians,
           NEW content \in {"text", "phone"}, send_message(w, u, content)
    PROVE  FamilyInv'
<1> DEFINE k == NewKey("message")
           row == [refs |-> Own(u) \cup {<<"relationship">>}, content |-> mask_pii(content),
                   pii_masked |-> mask_pii(content) # content]
           writes == Row(k, row)
<1>1. Start(w, "send_message", writes, {})
    BY DEF send_message
<1>2. row \in ChatMessage /\ row.refs = Own(u) \cup {<<"relationship">>}
  <2>1. <<"relationship">> \in Keys
    BY DEF Keys
  <2>2. mask_pii(content) \in {"text", "masked"}
    BY DEF mask_pii
  <2> QED  BY <2>1, <2>2, OwnIsKey DEF ChatMessage, Refs
<1>3. k[1] = "message" /\ k[2] = last["message"] + 1
    BY NewKeyIs
<1>4. DOMAIN writes = {k} /\ writes[k] = row
    BY RowIs
<1> HIDE DEF writes, row
<1>5. /\ Grows /\ k \in Keys /\ k \notin DOMAIN db /\ k[2] <= last'["message"]
    BY <1>1, <1>3, <1>4, StartNumbers DEF Serials, Grows
<1>6. \A r \in row.refs : r[1] \in {"user", "relationship"}
    BY <1>2 DEF Own, Account
<1> HIDE DEF k
<1>7. RowFits(k, row)
    BY <1>2, <1>3, <1>5, <1>6, LooseFits, TablesAre
<1> QED  BY <1>1, <1>3, <1>4, <1>5, <1>7, StartKeeps

LEMMA MarkReadKeeps ==
    ASSUME FamilyInv, NEW w \in Workers, NEW u \in Guardians, mark_read(w, u)
    PROVE  FamilyInv'
<1> DEFINE k == <<"notification", u>>
           row == [db[k] EXCEPT !.read = TRUE]
           writes == Row(k, row)
<1>1. Start(w, "mark_read", writes, {}) /\ k \in DOMAIN db
    BY DEF mark_read, Existing
<1>2. k \in Keys /\ k[1] = "notification" /\ k[2] = u
    BY DEF Keys
<1> HIDE DEF k
<1>3. db[k] \in Notification /\ db[k].refs = Own(u)
    BY <1>1, <1>2, OwnRowRead, TablesAre
<1>4. row \in Notification /\ row.refs = Own(u)
    BY <1>3 DEF Notification
<1>5. DOMAIN writes = {k} /\ writes[k] = row
    BY RowIs
<1> HIDE DEF writes, row
<1>6. RowFits(k, row)
    BY <1>2, <1>4, OwnRowFits, TablesAre
<1>7. Grows
    BY <1>1, <1>2, <1>5, StartNumbers DEF Serials
<1> QED  BY <1>1, <1>2, <1>3, <1>4, <1>5, <1>6, <1>7, StartKeeps DEF Serials, Updated

LEMMA PurgeKeeps ==
    ASSUME FamilyInv, NEW w \in Workers, purge_deactivated(w)
    PROVE  FamilyInv'
<1>1. PICK S : /\ \A k \in S : k[1] = "user"
               /\ Start(w, "purge", Nothing, S)
    BY DEF purge_deactivated, Of
<1>2. Grows
    BY <1>1, NothingIs, StartNumbers
<1> QED  BY <1>1, <1>2, NothingIs, StartKeeps

LEMMA RolledBackKeeps ==
    ASSUME FamilyInv, NEW w \in Workers, RolledBack(w)
    PROVE  FamilyInv'
<1>1. /\ db' = db /\ last' = last /\ mix' = mix
      /\ \A v \in Workers : req'[v] = req[v] \/ req'[v] = NoRequest
    BY DEF RolledBack
<1>2. DbFits' /\ NumbersFit' /\ (mix \in Mixes)'
    BY <1>1 DEF FamilyInv, DbFits, NumbersFit, RowFits, NumberFits, Existing, Of
<1>3. ASSUME NEW v \in Workers PROVE RequestFits(req[v])'
  <2>1. CASE req'[v] = NoRequest
    BY <2>1, NothingIs DEF NoRequest, RequestFits
  <2>2. CASE req'[v] = req[v]
    BY <1>1, <2>2 DEF FamilyInv, RequestFits, ReadFits, WriteFits, RowFits, NumberFits,
                      ConsentOf, Existing
  <2> QED  BY <1>1, <2>1, <2>2
<1> QED  BY <1>2, <1>3 DEF FamilyInv

-----------------------------------------------------------------------------
(* The arithmetic of scores.                                               *)

LEMMA ClampIs ==
    ASSUME NEW v \in Int
    PROVE  _clamp(v) \in 0..100
<1>1. Min({100, v}) \in {100, v} /\ Min({100, v}) <= 100
    BY DEF Min
<1> DEFINE m == Min({100, v})
<1>2. m \in Int /\ m <= 100
    BY <1>1
<1> HIDE DEF m
<1>3. Max({0, m}) \in {0, m} /\ Max({0, m}) >= 0
    BY <1>2 DEF Max
<1>4. _clamp(v) = Max({0, m})
    BY DEF _clamp, m
<1> QED  BY <1>2, <1>3, <1>4

LEMMA DivIs ==
    ASSUME NEW a \in Int, NEW b \in Nat \ {0}
    PROVE  a \div b \in Int /\ b * (a \div b) <= a /\ a < b * (a \div b) + b
OBVIOUS

LEMMA PartIs ==
    ASSUME NEW n \in Nat, NEW m \in Nat \ {0}, n <= m
    PROVE  (100 * n) \div m \in 0..100
OBVIOUS

LEMMA TotalIs ==
    ASSUME NEW S, IsFiniteSet(S), NEW low \in Nat, NEW high \in Nat, low <= high,
           NEW f, DOMAIN f = S, \A x \in S : f[x] \in low..high
    PROVE  /\ Total(f) \in Nat
           /\ low * Cardinality(S) <= Total(f) /\ Total(f) <= high * Cardinality(S)
<1> DEFINE all == UNION {{x} \X (1..f[x]) : x \in S}
<1>1. all \subseteq S \X (1..high) /\ S \X (1..low) \subseteq all
    OBVIOUS
<1>2. ASSUME NEW n \in Nat
      PROVE  IsFiniteSet(S \X (1..n)) /\ Cardinality(S \X (1..n)) = Cardinality(S) * n
  <2>1. IsFiniteSet(1..n) /\ Cardinality(1..n) = n
    BY FS_Interval
  <2> QED  BY <2>1, FS_Product
<1>3. Total(f) = Cardinality(all)
    BY DEF Total
<1> HIDE DEF all
<1>4. /\ IsFiniteSet(S \X (1..high)) /\ Cardinality(S \X (1..high)) = Cardinality(S) * high
      /\ Cardinality(S \X (1..low)) = Cardinality(S) * low
    BY <1>2
<1>5. IsFiniteSet(all) /\ Cardinality(all) <= Cardinality(S \X (1..high))
  <2>1. all \in SUBSET (S \X (1..high))
    BY <1>1
  <2> QED  BY <1>4, <2>1, FS_Subset
<1>6. Cardinality(S \X (1..low)) <= Cardinality(all)
  <2>1. S \X (1..low) \in SUBSET all
    BY <1>1
  <2> QED  BY <1>5, <2>1, FS_Subset
<1>7. Cardinality(S) \in Nat /\ Cardinality(all) \in Nat
    BY <1>5, FS_CardinalityType
<1> HIDE DEF all
<1>8. low * Cardinality(S) = Cardinality(S) * low /\ high * Cardinality(S) = Cardinality(S) * high
    BY <1>7
<1> QED  BY <1>3, <1>4, <1>5, <1>6, <1>7, <1>8

LEMMA ComplementaryIs ==
    ASSUME NEW a \in SUBSET FULL_AVAILABLE_MASK, NEW b \in SUBSET FULL_AVAILABLE_MASK
    PROVE  complementary_score(a, b) \in 0..100
<1>1. IsFiniteSet(FULL_AVAILABLE_MASK)
  <2>1. IsFiniteSet(0..47)
    <3>1. 0 \in Int /\ 47 \in Int
      OBVIOUS
    <3> QED  BY <3>1, FS_Interval, Zenon
  <2> QED  BY <2>1 DEF FULL_AVAILABLE_MASK, SLOT_COUNT
<1>2. a \ b \in SUBSET FULL_AVAILABLE_MASK /\ b \ a \in SUBSET FULL_AVAILABLE_MASK
    OBVIOUS
<1>3. Cardinality(b \ a) \in Nat /\ Cardinality(a \ b) \in Nat
    BY <1>1, <1>2, FS_Subset, FS_CardinalityType
<1>4. (100 * (Cardinality(b \ a) + Cardinality(a \ b))) \div SLOT_COUNT \in Int
    BY <1>3 DEF SLOT_COUNT
<1>5. complementary_score(a, b)
          = _clamp((100 * (Cardinality(b \ a) + Cardinality(a \ b))) \div SLOT_COUNT)
    BY DEF complementary_score, complementary_slot_counts
<1> QED  BY <1>4, <1>5, ClampIs

LEMMA SimilarityIs ==
    ASSUME NEW a, NEW b
    PROVE  values_similarity(a, b) \in 0..100
<1> DEFINE square(n) == n * n
           squares == square(a.warmth - b.warmth) + square(a.control - b.control)
           below == {p \in 1..100 : 512 * square(p) <= 10000 * squares}
<1>1. IsFiniteSet(1..100)
  <2>1. 1 \in Int /\ 100 \in Int
    OBVIOUS
  <2> QED  BY <2>1, FS_Interval, Zenon
<1>2. values_similarity(a, b) = _clamp(100 - Cardinality(below))
    BY DEF values_similarity
<1> HIDE DEF squares
<1>3. below \in SUBSET (1..100)
    OBVIOUS
<1> HIDE DEF below
<1>4. Cardinality(below) \in Nat
    BY <1>1, <1>3, FS_Subset, FS_CardinalityType
<1> QED  BY <1>2, <1>4, ClampIs

LEMMA AgeIs ==
    ASSUME NEW a \in Int, NEW b \in Int
    PROVE  age_similarity(a, b) \in 0..100
<1>1. 100 - (IF a > b THEN a - b ELSE b - a) \div MAX_AGE_DIFF_MONTHS \in Int
    BY DEF MAX_AGE_DIFF_MONTHS
<1> QED  BY <1>1, ClampIs DEF age_similarity

(* A weighted mean of what lies between nought and a hundred.              *)
LEMMA MeanIs ==
    ASSUME NEW ws, \A i \in 1..4 : ws[i] \in Int,
           NEW rating \in 0..100, NEW no_show \in 0..100, NEW journal \in 0..100
    PROVE  /\ calculate_score(ws, rating, no_show, journal) \in Int
           /\ (\A i \in 1..4 : ws[i] >= 0) /\ ws[1] + ws[2] + ws[3] + ws[4] = 100
                  => calculate_score(ws, rating, no_show, journal) \in 0..100
<1> DEFINE c == 100 - no_show
           p == ws[1] * rating
           q == ws[2] * 100
           r == ws[3] * c
           s == ws[4] * journal
<1>1. c \in 0..100
    OBVIOUS
<1>2. ASSUME NEW w \in Int, NEW x \in 0..100
      PROVE  w * x \in Int /\ (w >= 0 => 0 <= w * x /\ w * x <= w * 100)
  <2>1. ASSUME w >= 0 PROVE w * (100 - x) >= 0 /\ w * x >= 0
    BY <2>1
  <2>2. w * (100 - x) = w * 100 - w * x
    OBVIOUS
  <2> QED  BY <2>1, <2>2
<1>3. calculate_score(ws, rating, no_show, journal) = (p + q + r + s) \div 100
    BY DEF calculate_score, RESPONSE_RATE_STUB
<1>4. ws[1] \in Int /\ ws[2] \in Int /\ ws[3] \in Int /\ ws[4] \in Int
    OBVIOUS
<1> HIDE DEF c
<1>5. /\ p \in Int /\ (ws[1] >= 0 => 0 <= p /\ p <= ws[1] * 100)
      /\ r \in Int /\ (ws[3] >= 0 => 0 <= r /\ r <= ws[3] * 100)
      /\ s \in Int /\ (ws[4] >= 0 => 0 <= s /\ s <= ws[4] * 100)
    BY <1>1, <1>2, <1>4
<1>6. q \in Int
    BY <1>4
<1> HIDE DEF p, r, s
<1>7. ASSUME \A i \in 1..4 : ws[i] >= 0, ws[1] + ws[2] + ws[3] + ws[4] = 100
      PROVE  0 <= p + q + r + s /\ p + q + r + s <= 10000
    BY <1>4, <1>5, <1>7
<1> HIDE DEF q
<1> QED  BY <1>3, <1>5, <1>6, <1>7

LEMMA NumbersFinite == IsFiniteSet(Numbers)
<1>1. \A t \in Serials : MaxRows[t] \in Nat
    BY FamilyAssumption
<1> DEFINE m == MaxRows["child"] + MaxRows["access_log"] + MaxRows["values_history"]
                + MaxRows["weights_history"] + MaxRows["event"] + MaxRows["message"]
<1>2. m \in Nat /\ \A t \in Serials : MaxRows[t] <= m
    BY <1>1 DEF Serials
<1> HIDE DEF m
<1>3. Numbers \in SUBSET Nat /\ \A n \in Numbers : n <= m
    BY <1>1, <1>2 DEF Numbers
<1> QED  BY <1>2, <1>3, FS_BoundedSetOfNaturals

(* The children, sessions and evaluations are finitely many.               *)
LEMMA RowsFinite ==
    ASSUME FamilyInv
    PROVE  IsFiniteSet(Of("child")) /\ IsFiniteSet(Of("session")) /\ IsFiniteSet(Of("evaluation"))
<1>1. \A k \in DOMAIN db : k \in Keys
    BY DEF FamilyInv, DbFits, RowFits
<1>2. ASSUME NEW t \in {"child", "session"} PROVE IsFiniteSet(Of(t))
  <2>1. IsFiniteSet({t} \X Numbers)
    BY NumbersFinite, FS_Singleton, FS_Product
  <2>2. Of(t) \in SUBSET ({t} \X Numbers)
    <3>1. ASSUME NEW k \in Of(t) PROVE k \in {t} \X Numbers
      <4>1. k \in Keys /\ k[1] = t
        BY <1>1 DEF Of
      <4> QED  BY <1>2, <4>1, KeysAre DEF Serials
    <3> QED  BY <3>1
  <2> QED  BY <2>1, <2>2, FS_Subset
<1>3. IsFiniteSet(Of("evaluation"))
  <2> DEFINE pairs == Numbers \X Guardians
             keys == {"evaluation"} \X Numbers \X Guardians
             f == [p \in pairs |-> <<"evaluation", p[1], p[2]>>]
  <2>1. IsFiniteSet(pairs)
    BY NumbersFinite, FamilyAssumption, FS_Product
  <2>2. f \in Surjection(pairs, keys)
    <3>1. f \in [pairs -> keys]
      OBVIOUS
    <3>2. ASSUME NEW k \in keys PROVE \E p \in pairs : f[p] = k
      <4>1. <<k[2], k[3]>> \in pairs /\ f[<<k[2], k[3]>>] = k
        OBVIOUS
      <4> QED  BY <4>1
    <3> QED  BY <3>1, <3>2 DEF Surjection
  <2>3. IsFiniteSet(keys)
    BY <2>1, <2>2, FS_Surjection
  <2>4. Of("evaluation") \in SUBSET keys
    <3>1. ASSUME NEW k \in Of("evaluation") PROVE k \in keys
      <4>1. k \in Keys /\ k[1] = "evaluation"
        BY <1>1 DEF Of
      <4> QED  BY <4>1, KeysAre DEF Serials
    <3> QED  BY <3>1
  <2> QED  BY <2>3, <2>4, FS_Subset
<1> QED  BY <1>2, <1>3

LEMMA RatingIs ==
    ASSUME FamilyInv, NEW u \in Guardians
    PROVE  rating_norm(list_ratings_for_evaluatee(u)) \in 0..100
<1> DEFINE S == {e \in Of("evaluation") : db[e].evaluatee = u}
           f == [k \in S |-> db[k].rating]
           n == Cardinality(S)
<1>1. IsFiniteSet(S)
    BY RowsFinite, FS_Subset
<1>2. \A k \in S : f[k] \in 1..5
  <2>1. ASSUME NEW k \in Of("evaluation") PROVE db[k].rating \in 1..5
    <3>1. db[k] \in Table[k[1]] /\ k[1] = "evaluation"
      BY DEF Of, FamilyInv, DbFits, RowFits
    <3>2. db[k] \in CareEvaluation
      BY <3>1, TablesAre
    <3>3. db[k].rating \in Ratings
      BY <3>2 DEF CareEvaluation
    <3>4. Ratings \subseteq 1..5
      BY FamilyAssumption
    <3> QED  BY <3>3, <3>4
  <2> QED  BY <2>1
<1>3. DOMAIN f = S
    OBVIOUS
<1>4. list_ratings_for_evaluatee(u) = f
    BY DEF list_ratings_for_evaluatee
<1> HIDE DEF f
<1>5. n \in Nat /\ Total(f) \in Nat /\ n <= Total(f) /\ Total(f) <= 5 * n
  <2>1. n \in Nat
    BY <1>1, FS_CardinalityType
  <2>2. 1 * n <= Total(f) /\ Total(f) <= 5 * n /\ Total(f) \in Nat
    BY <1>1, <1>2, <1>3, TotalIs
  <2> QED  BY <2>1, <2>2
<1>6. rating_norm(f) = IF n = 0 THEN NEUTRAL_RATING ELSE (100 * (Total(f) - n)) \div (4 * n)
    BY <1>3 DEF rating_norm
<1> HIDE DEF n
<1>7. CASE n = 0
    BY <1>4, <1>6, <1>7 DEF NEUTRAL_RATING
<1>8. CASE n # 0
  <2>1. Total(f) - n \in Nat /\ Total(f) - n <= 4 * n /\ 4 * n \in Nat \ {0}
    BY <1>5, <1>8
  <2>2. (100 * (Total(f) - n)) \div (4 * n) \in 0..100
    BY <2>1, PartIs
  <2> QED  BY <1>4, <1>6, <1>8, <2>2
<1> QED  BY <1>7, <1>8

LEMMA JournalIs ==
    ASSUME FamilyInv, NEW u
    PROVE  journal_completion_rate(u) \in 0..100
<1> DEFINE completed == {k \in Of("session") : db[k].provider = u /\ db[k].checked_out}
           logged == {k \in completed : Existing(<<"care_log", k[2]>>)}
<1>1. IsFiniteSet(completed)
    BY RowsFinite, FS_Subset
<1>2. journal_completion_rate(u)
          = _journal_completion_rate(Cardinality(completed), Cardinality(logged))
    BY DEF journal_completion_rate, Sessions
<1>3. logged \in SUBSET completed
    OBVIOUS
<1> HIDE DEF completed, logged
<1>4. /\ Cardinality(completed) \in Nat /\ Cardinality(logged) \in Nat
      /\ Cardinality(logged) <= Cardinality(completed)
    BY <1>1, <1>3, FS_Subset, FS_CardinalityType
<1>5. _journal_completion_rate(Cardinality(completed), Cardinality(logged)) \in 0..100
    BY <1>4, PartIs DEF _journal_completion_rate
<1> QED  BY <1>2, <1>5

LEMMA NoShowIs ==
    ASSUME FamilyInv, NEW u \in Guardians
    PROVE  no_show_rate(u) \in 0..100
<1> DEFINE resolved == {k \in Of("session") : /\ u \in {db[k].requester, db[k].provider}
                                              /\ db[k].checked_out \/ db[k].status = "NO_SHOW"}
           at_fault == {k \in Of("session") : db[k].status = "NO_SHOW" /\ db[k].at_fault = u}
<1>1. IsFiniteSet(resolved)
    BY RowsFinite, FS_Subset
<1>2. no_show_rate(u) = _no_show_rate(Cardinality(resolved), Cardinality(at_fault))
    BY DEF no_show_rate, Sessions
<1>3. at_fault \in SUBSET resolved
  <2>1. \A k \in Of("session") : db[k].at_fault \in {0, db[k].requester, db[k].provider}
    BY DEF Of, FamilyInv, DbFits, RowFits, RefsFit
  <2> QED  BY <2>1, FamilyAssumption
<1> HIDE DEF resolved, at_fault
<1>4. /\ Cardinality(resolved) \in Nat /\ Cardinality(at_fault) \in Nat
      /\ Cardinality(at_fault) <= Cardinality(resolved)
    BY <1>1, <1>3, FS_Subset, FS_CardinalityType
<1>5. _no_show_rate(Cardinality(resolved), Cardinality(at_fault)) \in 0..100
    BY <1>4, PartIs DEF _no_show_rate
<1> QED  BY <1>2, <1>5

(* A trust score is a number, between nought and a hundred when the        *)
(* weights are not negative and sum to a hundred.                          *)
LEMMA TrustIs ==
    ASSUME FamilyInv, NEW u \in Guardians, Existing(<<"weights">>)
    PROVE  LET ws == WeightsOf(db[<<"weights">>])
           IN  /\ trust_score(u) \in Int
               /\ (\A i \in 1..4 : ws[i] >= 0) /\ ws[1] + ws[2] + ws[3] + ws[4] = 100
                      => trust_score(u) \in 0..100
<1> DEFINE row == db[<<"weights">>]
           rating == rating_norm(list_ratings_for_evaluatee(u))
           no_show == no_show_rate(u)
           journal == journal_completion_rate(u)
<1>1. row \in TrustWeights
  <2>1. <<"weights">>[1] = "weights"
    OBVIOUS
  <2>2. row \in Table["weights"]
    BY <2>1 DEF Existing, FamilyInv, DbFits, RowFits
  <2> QED  BY <2>2, TablesAre
<1>2. rating \in 0..100 /\ 100 - no_show \in 0..100 /\ journal \in 0..100
    BY RatingIs, NoShowIs, JournalIs
<1>3. trust_score(u) = calculate_score(WeightsOf(row), rating, no_show, journal)
    BY DEF trust_score
<1> HIDE DEF row, rating, no_show, journal
<1> DEFINE ws == WeightsOf(row)
<1>4. \A i \in 1..4 : ws[i] \in Int
  <2> HIDE DEF row
  <2>1. row.w1 \in Int /\ row.w2 \in Int /\ row.w3 \in Int /\ row.w4 \in Int
    BY <1>1 DEF TrustWeights
  <2> QED  BY <2>1 DEF WeightsOf
<1>5. trust_score(u) = calculate_score(ws, rating, no_show, journal)
    BY <1>3
<1>6. no_show \in 0..100
    BY NoShowIs DEF no_show
<1> HIDE DEF ws
<1>7. /\ calculate_score(ws, rating, no_show, journal) \in Int
      /\ (\A i \in 1..4 : ws[i] >= 0) /\ ws[1] + ws[2] + ws[3] + ws[4] = 100
             => calculate_score(ws, rating, no_show, journal) \in 0..100
    BY <1>2, <1>4, <1>6, MeanIs, Zenon
<1> QED  BY <1>5, <1>7, Zenon DEF row, ws

(* The profile of a candidate and of who asks have cells with a distance.  *)
LEMMA MetresIs ==
    ASSUME FamilyInv, NEW u \in Guardians, NEW v \in Guardians,
           Existing(<<"profile", u>>), Existing(<<"profile", v>>)
    PROVE  Metres(u, v) \in Nat
<1>1. ASSUME NEW a \in Guardians, Existing(<<"profile", a>>)
      PROVE  db[<<"profile", a>>].residence_h3 \in Cells
  <2>1. <<"profile", a>>[1] = "profile"
    OBVIOUS
  <2>2. db[<<"profile", a>>] \in Table["profile"]
    BY <1>1, <2>1 DEF Existing, FamilyInv, DbFits, RowFits
  <2>3. db[<<"profile", a>>] \in GuardianProfile
    BY <2>2, TablesAre
  <2> QED  BY <2>3 DEF GuardianProfile
<1> QED  BY <1>1, FamilyAssumption DEF Metres

LEMMA AverageIs ==
    ASSUME FamilyInv, NEW u
    PROVE  AverageMonths(u) \in Int
<1> DEFINE f == [c \in ChildrenOf(u) |-> db[c].months_old]
           n == Cardinality(ChildrenOf(u))
<1>1. IsFiniteSet(ChildrenOf(u))
    BY RowsFinite, FS_Subset DEF ChildrenOf
<1>2. \A c \in ChildrenOf(u) : f[c] \in 0..216
  <2>1. ASSUME NEW k \in Of("child") PROVE db[k].months_old \in 0..216
    <3>1. db[k] \in Table[k[1]] /\ k[1] = "child"
      BY DEF Of, FamilyInv, DbFits, RowFits
    <3>2. db[k] \in Child
      BY <3>1, TablesAre
    <3> QED  BY <3>2, FamilyAssumption DEF Child
  <2> QED  BY <2>1 DEF ChildrenOf
<1>3. DOMAIN f = ChildrenOf(u)
    OBVIOUS
<1>4. AverageMonths(u) = _avg_months_old(f)
    BY DEF AverageMonths
<1> HIDE DEF f
<1>5. Total(f) \in Nat
  <2> DEFINE S == ChildrenOf(u)
             low == 0
             high == 216
  <2>1. low \in Nat /\ high \in Nat /\ low <= high
    OBVIOUS
  <2>2. IsFiniteSet(S) /\ DOMAIN f = S /\ \A c \in S : f[c] \in low..high
    BY <1>1, <1>2, <1>3
  <2> HIDE DEF S, low, high
  <2> QED  BY <2>1, <2>2, TotalIs
<1>6. n \in Nat /\ (n = 0 <=> ChildrenOf(u) = {})
    BY <1>1, FS_CardinalityType, FS_EmptySet
<1>7. _avg_months_old(f) = IF ChildrenOf(u) = {} THEN -1 ELSE (100 * Total(f)) \div n
    BY <1>3 DEF _avg_months_old
<1> HIDE DEF n
<1>8. CASE ChildrenOf(u) = {}
    BY <1>4, <1>7, <1>8
<1>9. CASE ChildrenOf(u) # {}
  <2>1. (100 * Total(f)) \div n \in Int
    BY <1>5, <1>6, <1>9
  <2> QED  BY <1>4, <1>7, <1>9, <2>1
<1> QED  BY <1>8, <1>9

LEMMA MaskIs ==
    ASSUME FamilyInv, NEW u \in Guardians, NEW d \in Days
    PROVE  mask_of(u, d) \in SUBSET FULL_AVAILABLE_MASK
<1>1. _get_or_create(u, d) \in WorkSchedule
    BY ShiftRowIs
<1> HIDE DEF _get_or_create
<1> QED  BY <1>1 DEF WorkSchedule, mask_of

LEMMA ScoreIs ==
    ASSUME FamilyInv, NEW u \in Guardians, NEW d \in Days, Existing(<<"profile", u>>),
           NEW v \in Candidates(u), trust_score(v) \in Int
    PROVE  LET score == MatchCandidate(u, v, d).total_score
           IN  /\ score \in Int
               /\ trust_score(v) \in 0..100 => score \in 0..100
<1> DEFINE a == values_similarity(db[Values(u)], db[Values(v)])
           b == complementary_score(mask_of(u, d), mask_of(v, d))
           c == distance_score(Metres(u, v))
           e == age_similarity(AverageMonths(u), AverageMonths(v))
           t == trust_score(v)
<1>1. v \in Guardians /\ Existing(<<"profile", v>>)
    BY DEF Candidates
<1>2. a \in 0..100
    BY SimilarityIs
<1>3. b \in 0..100
    BY <1>1, MaskIs, ComplementaryIs
<1>4. c \in 0..100
  <2>1. Metres(u, v) \in Nat
    BY <1>1, MetresIs
  <2>2. 100 - (100 * Metres(u, v)) \div MAX_DISTANCE_M \in Int
    BY <2>1 DEF MAX_DISTANCE_M
  <2> QED  BY <2>2, ClampIs DEF distance_score
<1>5. e \in 0..100
    BY AverageIs, AgeIs
<1>6. MatchCandidate(u, v, d).total_score = total_score(a, b, c, e, t)
    BY DEF MatchCandidate
<1>7. t \in Int
    OBVIOUS
<1> HIDE DEF a, b, c, e, t
<1>8. total_score(a, b, c, e, t) = (35 * a + 35 * b + 10 * c + 10 * e + 10 * t) \div 100
    BY DEF total_score
<1>9. (35 * a + 35 * b + 10 * c + 10 * e + 10 * t) \div 100 \in Int
    BY <1>2, <1>3, <1>4, <1>5, <1>7
<1>10. t \in 0..100 => (35 * a + 35 * b + 10 * c + 10 * e + 10 * t) \div 100 \in 0..100
    BY <1>2, <1>3, <1>4, <1>5
<1> QED  BY <1>6, <1>8, <1>9, <1>10 DEF t

-----------------------------------------------------------------------------
(* The operations: the ranking of candidates.                              *)

(* The places of finitely many, by score and then by number: nobody shares *)
(* a place with another.                                                   *)
LEMMA PlacesAre ==
    ASSUME NEW shown \in SUBSET Nat, IsFiniteSet(shown), NEW score,
           \A v \in shown : score[v] \in Int
    PROVE  /\ Cardinality(shown) \in Nat
           /\ \A v \in shown : /\ Cardinality(Before(shown, score, v)) \in Nat
                               /\ Cardinality(Before(shown, score, v)) + 1 <= Cardinality(shown)
           /\ \A v, x \in shown :
                  v # x => Cardinality(Before(shown, score, v)) # Cardinality(Before(shown, score, x))
<1> DEFINE B(v) == Before(shown, score, v)
<1>1. ASSUME NEW v \in shown
      PROVE  /\ B(v) \in SUBSET shown /\ IsFiniteSet(B(v)) /\ v \notin B(v)
             /\ Cardinality(B(v)) \in Nat
             /\ IsFiniteSet(B(v) \cup {v}) /\ Cardinality(B(v) \cup {v}) = Cardinality(B(v)) + 1
  <2>1. B(v) \in SUBSET shown /\ v \notin B(v)
    BY DEF Before
  <2> HIDE DEF B
  <2>2. IsFiniteSet(B(v))
    BY <2>1, FS_Subset
  <2>3. IsFiniteSet(B(v) \cup {v}) /\ Cardinality(B(v) \cup {v}) = Cardinality(B(v)) + 1
    BY <2>1, <2>2, FS_AddElement
  <2> QED  BY <2>1, <2>2, <2>3, FS_CardinalityType
<1>2. ASSUME NEW v \in shown PROVE Cardinality(B(v)) + 1 <= Cardinality(shown)
  <2>1. B(v) \cup {v} \in SUBSET shown
    BY <1>1
  <2>2. Cardinality(B(v) \cup {v}) = Cardinality(B(v)) + 1
    BY <1>1
  <2> HIDE DEF B
  <2>3. Cardinality(B(v) \cup {v}) <= Cardinality(shown)
    BY <2>1, FS_Subset
  <2> QED  BY <2>2, <2>3
<1>3. ASSUME NEW v \in shown, NEW x \in shown, v \in B(x)
      PROVE  Cardinality(B(v)) < Cardinality(B(x))
  <2>1. B(v) \cup {v} \in SUBSET B(x)
    <3>1. score[v] > score[x] \/ (score[v] = score[x] /\ v < x)
      BY <1>3 DEF Before
    <3>2. ASSUME NEW a \in B(v) PROVE a \in B(x)
      <4>1. a \in shown /\ (score[a] > score[v] \/ (score[a] = score[v] /\ a < v))
        BY DEF Before
      <4>2. score[a] > score[x] \/ (score[a] = score[x] /\ a < x)
        BY <3>1, <4>1
      <4> QED  BY <4>1, <4>2 DEF Before
    <3> QED  BY <1>3, <3>2
  <2>2. Cardinality(B(v) \cup {v}) <= Cardinality(B(x))
    <3>1. IsFiniteSet(B(x))
      BY <1>1
    <3> HIDE DEF B
    <3> QED  BY <2>1, <3>1, FS_Subset
  <2>3. /\ Cardinality(B(v) \cup {v}) = Cardinality(B(v)) + 1
        /\ Cardinality(B(v)) \in Nat /\ Cardinality(B(x)) \in Nat
    BY <1>1
  <2> HIDE DEF B
  <2> QED  BY <2>2, <2>3
<1>4. ASSUME NEW v \in shown, NEW x \in shown, v # x
      PROVE  v \in B(x) \/ x \in B(v)
  <2>1. score[v] \in Int /\ score[x] \in Int /\ v \in Nat /\ x \in Nat
    OBVIOUS
  <2> QED  BY <1>4, <2>1 DEF Before
<1>5. \A v, x \in shown : v # x => Cardinality(B(v)) # Cardinality(B(x))
  <2>1. ASSUME NEW v \in shown, NEW x \in shown, v # x
        PROVE  Cardinality(B(v)) # Cardinality(B(x))
    <3>1. Cardinality(B(v)) \in Nat /\ Cardinality(B(x)) \in Nat
      BY <1>1
    <3>2. Cardinality(B(v)) < Cardinality(B(x)) \/ Cardinality(B(x)) < Cardinality(B(v))
      BY <1>3, <1>4, <2>1
    <3> HIDE DEF B
    <3> QED  BY <3>1, <3>2
  <2> QED  BY <2>1
<1>6. Cardinality(shown) \in Nat
    BY FS_CardinalityType
<1> QED  BY <1>1, <1>2, <1>5, <1>6

LEMMA FindCandidatesKeeps ==
    ASSUME FamilyInv, NEW w \in Workers, NEW u \in Guardians, NEW d \in Days,
           find_candidates(w, u, d)
    PROVE  FamilyInv'
<1> DEFINE shown == Candidates(u)
           score == [v \in shown |-> MatchCandidate(u, v, d).total_score]
           place(v) == 1 + Cardinality(Before(shown, score, v))
           key(v) == <<"event", last["event"] + place(v)>>
           event(v) == [refs |-> Own(u), target |-> v, total_score |-> score[v]]
           keys == {key(v) : v \in shown}
           writes == [k \in keys |-> event(CHOOSE v \in shown : key(v) = k)]
<1>1. /\ Start(w, "find_candidates", writes, {})
      /\ Existing(<<"profile", u>>) /\ Existing(<<"weights">>)
    BY DEF find_candidates
<1>2. shown \in SUBSET Guardians /\ shown \in SUBSET Nat /\ IsFiniteSet(shown)
  <2>1. shown \in SUBSET Guardians
    BY DEF Candidates
  <2> HIDE DEF shown
  <2> QED  BY <2>1, FamilyAssumption, FS_Subset
<1>3. \A v \in shown : score[v] \in Int
  <2>1. ASSUME NEW v \in shown PROVE MatchCandidate(u, v, d).total_score \in Int
    <3>1. v \in Guardians
      BY <1>2
    <3>2. trust_score(v) \in Int
      BY <1>1, <3>1, TrustIs
    <3> QED  BY <1>1, <3>2, ScoreIs
  <2> HIDE DEF shown
  <2> QED  BY <2>1
<1> DEFINE n == Cardinality(shown)
<1> HIDE DEF shown, score
<1>4. /\ n \in Nat
      /\ \A v \in shown : place(v) \in 1..n
      /\ \A v, x \in shown : v # x => place(v) # place(x)
    BY <1>2, <1>3, PlacesAre
<1> HIDE DEF n, place
<1>5. last["event"] \in Nat
    BY DEF FamilyInv, NumbersFit, Serials
<1>6. ASSUME NEW k \in keys
      PROVE  /\ k[1] = "event" /\ k \notin DOMAIN db
             /\ k[2] \in Nat /\ last["event"] + 1 <= k[2] /\ k[2] <= last["event"] + n
             /\ k = <<"event", k[2]>>
  <2>1. PICK v \in shown : k = key(v)
    OBVIOUS
  <2>2. /\ k[1] = "event" /\ k[2] = last["event"] + place(v) /\ k = <<"event", k[2]>>
    BY <2>1
  <2>3. place(v) \in 1..n
    BY <1>4
  <2>4. k[2] > last["event"]
    BY <1>4, <1>5, <2>2, <2>3
  <2>5. k \notin DOMAIN db
    <3>1. \A x \in DOMAIN db : x[1] \in Serials => x[2] <= last[x[1]]
      BY DEF FamilyInv, DbFits, NumberFits
    <3>2. k[1] = "event" /\ k[2] > last["event"] /\ k[2] \in Int
      BY <1>4, <1>5, <2>2, <2>3, <2>4
    <3> HIDE DEF key, keys
    <3> QED  BY <1>5, <3>1, <3>2 DEF Serials
  <2> QED  BY <1>4, <1>5, <2>2, <2>3, <2>4, <2>5
<1>7. IsFiniteSet(keys) /\ Cardinality(keys) = n
  <2> DEFINE g == [v \in shown |-> key(v)]
  <2>1. g \in Surjection(shown, keys)
    BY DEF Surjection
  <2>2. g \in Injection(shown, keys)
    <3>1. ASSUME NEW v \in shown, NEW x \in shown, key(v) = key(x) PROVE v = x
      <4>1. last["event"] + place(v) = last["event"] + place(x)
        BY <3>1
      <4>2. place(v) = place(x)
        BY <1>4, <1>5, <4>1
      <4> QED  BY <1>4, <4>2
    <3>2. g \in [shown -> keys]
      OBVIOUS
    <3> HIDE DEF key, keys
    <3> QED  BY <3>1, <3>2 DEF Injection, IsInjective
  <2> HIDE DEF g, keys
  <2> QED  BY <1>2, <2>1, <2>2, FS_Surjection DEF n
<1>8. DOMAIN writes = keys
    OBVIOUS
<1>9. ASSUME NEW k \in keys
      PROVE  \E v \in shown : writes[k] = event(v)
  <2>1. \E v \in shown : key(v) = k
    OBVIOUS
  <2> HIDE DEF key, event
  <2>2. (CHOOSE v \in shown : key(v) = k) \in shown
    BY <2>1
  <2>3. writes[k] = event(CHOOSE v \in shown : key(v) = k)
    OBVIOUS
  <2> QED  BY <2>2, <2>3
<1> HIDE DEF writes, key, keys
<1>10. /\ \A t \in Serials : last'[t] = last[t] + (IF t = "event" THEN n ELSE 0)
       /\ \A t \in Serials : last'[t] <= MaxRows[t]
  <2> DEFINE reads == (DOMAIN writes \cap DOMAIN db) \ {}
             fresh(t) == {k \in DOMAIN writes \ reads : k[1] = t}
  <2>1. /\ last' = [t \in Serials |-> last[t] + Cardinality(fresh(t))]
        /\ \A t \in Serials : last'[t] <= MaxRows[t]
    BY <1>1 DEF Start
  <2>2. ASSUME NEW t \in Serials PROVE fresh(t) = IF t = "event" THEN keys ELSE {}
    BY <1>6, <1>8
  <2>3. \A t \in Serials : Cardinality(fresh(t)) = IF t = "event" THEN n ELSE 0
    BY <1>7, <2>2, FS_EmptySet
  <2> HIDE DEF fresh
  <2> QED  BY <2>1, <2>3
<1>11. Grows
  <2>1. last \in [Serials -> Nat] /\ last' = [t \in Serials |-> last'[t]]
    BY <1>1 DEF FamilyInv, NumbersFit, Start
  <2> QED  BY <1>4, <1>10, <2>1 DEF Grows
<1>12. ASSUME NEW k \in keys
       PROVE  /\ RowFits(k, writes[k]) /\ k[1] = "event" /\ k \notin DOMAIN db
              /\ k[2] <= last'["event"]
  <2>1. PICK v \in shown : writes[k] = event(v)
    BY <1>9
  <2>2. event(v) \in HypothesisEvent /\ event(v).refs = Own(u)
    BY <1>2, <1>3, OwnIsKey DEF HypothesisEvent
  <2> HIDE DEF event
  <2>3. k[2] \in 1..MaxRows["event"] /\ k[2] <= last'["event"]
    <3>1. last'["event"] = last["event"] + n /\ last'["event"] <= MaxRows["event"]
      BY <1>10 DEF Serials
    <3>2. /\ k[2] \in Nat /\ last["event"] + 1 <= k[2] /\ k[2] <= last["event"] + n
      BY <1>6
    <3>3. MaxRows["event"] \in Nat
      BY FamilyAssumption DEF Serials
    <3> QED  BY <1>4, <1>5, <3>1, <3>2, <3>3
  <2>4. k \in Keys
    <3>1. k[2] \in Numbers
      BY <2>3 DEF Numbers, Serials
    <3> QED  BY <1>6, <3>1 DEF Keys, Serials
  <2>5. RowFits(k, writes[k])
    BY <1>6, <2>1, <2>2, <2>4, LooseFits, TablesAre DEF Own, Account
  <2> QED  BY <1>6, <2>3, <2>5
<1> QED  BY <1>1, <1>8, <1>11, <1>12, StartKeeps

-----------------------------------------------------------------------------
(* What there is at first.                                                 *)

LEMMA AccountsLeftFit ==
    ASSUME NEW m \in Mixes, NEW k \in DOMAIN AccountsLeft(m)
    PROVE  LET row == AccountsLeft(m)[k]
           IN  /\ k[1] = "user" /\ k[2] \in m.users /\ k = Account(k[2])
               /\ RowFits(k, row) /\ row.refs = {}
               /\ OnTheWay(row) => k[2] \notin m.guests
<1> DEFINE row == AccountsLeft(m)[k]
<1>1. PICK u \in m.users : k = Account(u)
    BY DEF AccountsLeft
<1>2. u \in Guardians
    BY FamilyAssumption DEF Mix
<1>3. k[1] = "user" /\ k[2] = u
    BY <1>1 DEF Account
<1>4. row = [refs |-> {}, is_active |-> TRUE,
             onboarding |-> IF k[2] \in m.guests THEN "PENDING" ELSE "PROFILE_REQUIRED"]
    BY DEF AccountsLeft
<1>5. row \in User /\ row.refs = {} /\ (OnTheWay(row) => k[2] \notin m.guests)
    BY <1>4 DEF User, OnTheWay
<1> HIDE DEF row
<1>6. RowFits(k, row)
    BY <1>1, <1>2, <1>5, UserFits
<1> QED  BY <1>1, <1>3, <1>5, <1>6 DEF row

LEMMA SignupTermsFit ==
    ASSUME NEW m \in Mixes, NEW k \in DOMAIN SignupTerms(m)
    PROVE  LET row == SignupTerms(m)[k]
           IN  /\ k[1] = "agreement" /\ k[2] \in m.users /\ k[3] \in REQUIRED_TYPES
               /\ RowFits(k, row) /\ row.refs = Own(k[2])
<1> DEFINE row == SignupTerms(m)[k]
<1>1. PICK u \in m.users \ m.guests, t \in REQUIRED_TYPES : k = Agreement(u, t)
    BY DEF SignupTerms
<1>2. u \in Guardians /\ t \in TermsType
    BY FamilyAssumption DEF Mix, TermsType
<1>3. k[1] = "agreement" /\ k[2] = u /\ k[3] = t
    BY <1>1 DEF Agreement
<1>4. row = [refs |-> Own(k[2]), agreed |-> TRUE, revoked |-> FALSE]
    BY DEF SignupTerms
<1>5. row \in TermsAgreement /\ row.refs = Own(u) /\ row.agreed /\ ~row.revoked
    BY <1>2, <1>3, <1>4, OwnIsKey DEF TermsAgreement
<1> HIDE DEF row
<1>6. RowFits(k, row)
    BY <1>1, <1>2, <1>5, AgreementFits
<1> QED  BY <1>1, <1>3, <1>5, <1>6 DEF row

(* The settled are numbered from one.                                      *)
LEMMA SettledAre ==
    ASSUME NEW m \in Mixes
    PROVE  /\ m.settled \subseteq m.users \ m.guests /\ m.settled \subseteq Guardians
           /\ \A u \in m.settled : u \in Numbers /\ u <= Cardinality(m.settled)
           /\ Cardinality(m.settled) \in Nat /\ Cardinality(m.settled) <= MaxRows["values_history"]
<1>1. m.settled \subseteq m.users \ m.guests /\ m.settled \subseteq Guardians
    BY FamilyAssumption DEF Mix
<1>2. PICK n \in 0..MaxRows["values_history"] : m.settled = 1..n
    BY FamilyAssumption
<1>3. "values_history" \in Serials /\ MaxRows["values_history"] \in Nat
    BY FamilyAssumption DEF Serials
<1>4. n \in Nat /\ n <= MaxRows["values_history"]
    BY <1>2, <1>3
<1>5. Cardinality(m.settled) = n
    BY <1>2, <1>4, FS_Interval
<1>6. ASSUME NEW u \in m.settled PROVE u \in Numbers /\ u <= n
  <2>1. u \in 1..MaxRows["values_history"] /\ u <= n
    BY <1>2, <1>3, <1>4
  <2> QED  BY <1>3, <2>1 DEF Numbers
<1> QED  BY <1>1, <1>4, <1>5, <1>6

LEMMA ProfilesLeftFit ==
    ASSUME NEW m \in Mixes, NEW home \in [m.settled -> [cell : Cells, answers : Answers]],
           NEW k \in DOMAIN ProfilesLeft(home)
    PROVE  LET row == ProfilesLeft(home)[k]
           IN  /\ k[1] \in {"profile", "values", "values_history", "tag"} /\ k[2] \in m.settled
               /\ RowFits(k, row) /\ row.refs = Own(k[2])
<1> DEFINE row == ProfilesLeft(home)[k]
           u == k[2]
           said == Diagnosed(u, _score_answers(home[u].answers), FALSE)
<1>1. k[1] \in {"profile", "values", "values_history", "tag"} /\ u \in m.settled
    BY DEF ProfilesLeft
<1>2. row = CASE k[1] = "profile" -> [refs |-> Own(u), residence_h3 |-> home[u].cell]
              [] k[1] = "values"  -> said
              [] k[1] = "values_history" -> HistoryRow(u, said, "QUESTIONNAIRE")
              [] k[1] = "tag"     -> [refs |-> Own(u)]
    BY DEF ProfilesLeft
<1>3. u \in Guardians /\ u \in Numbers
    BY <1>1, SettledAre
<1>4. k \in Keys
  <2>1. DOMAIN ProfilesLeft(home) = ({"profile", "values", "values_history"} \X m.settled)
                                        \cup ({"tag"} \X m.settled \X Tags)
    BY DEF ProfilesLeft
  <2>2. ASSUME NEW n \in m.settled PROVE n \in Guardians /\ n \in Numbers
    BY SettledAre
  <2> QED  BY <2>1, <2>2 DEF Keys, Serials
<1>5. home[u].cell \in Cells /\ home[u].answers \in Answers
    BY <1>1
<1>6. said \in ParentingValuesProfile /\ said.refs = Own(u)
    BY <1>3, <1>5, DiagnosedIs
<1> HIDE DEF row, u, said
<1>7. CASE k[1] = "values_history"
  <2>1. row = HistoryRow(u, said, "QUESTIONNAIRE")
    BY <1>2, <1>7
  <2> QED  BY <1>1, <1>3, <1>4, <1>6, <1>7, <2>1, HistoryFits DEF row, u
<1>8. CASE k[1] \in {"profile", "values", "tag"}
  <2>1. row \in Table[k[1]] /\ row.refs = Own(u)
    <3>1. CASE k[1] = "profile"
      BY <1>2, <1>3, <1>5, <3>1, OwnIsKey, TablesAre DEF GuardianProfile
    <3>2. CASE k[1] = "values"
      BY <1>2, <1>6, <3>2, TablesAre
    <3>3. CASE k[1] = "tag"
      BY <1>2, <1>3, <3>3, OwnIsKey, TablesAre DEF GuardianTag
    <3> QED  BY <1>8, <3>1, <3>2, <3>3
  <2> QED  BY <1>1, <1>3, <1>4, <1>8, <2>1, OwnRowFits DEF row, u
<1> QED  BY <1>1, <1>7, <1>8

(* The tables of what care sessions have left, with the keys in them.      *)
LEMMA CareKeysAre ==
    ASSUME NEW m \in Mixes, m.past # <<>>, NEW k \in CareKeys(m.past)
    PROVE  /\ k \in Keys
           /\ \/ k[1] \in {"child", "access_log"} /\ k = <<k[1], 1>>
              \/ k[1] = "agreement" /\ k = Agreement(Requester, "guardian_consent")
              \/ k[1] = "relationship"
              \/ k[1] = "notification" /\ k[2] = Provider
              \/ k[1] = "account" /\ k[2] \in {Requester, Provider}
              \/ k[1] \in {"session", "hold"} /\ k[2] \in DOMAIN m.past /\ k = <<k[1], k[2]>>
              \/ /\ k[1] = "entry" /\ k[2] \in DOMAIN m.past
                 /\ m.past[k[2]] \in {"done", "requester_absent"}
                 /\ k[3] \in {Requester, Provider}
<1>1. Requester \in Guardians /\ Provider \in Guardians
    BY FamilyAssumption
<1>2. 1 \in Numbers
  <2>1. 1 \in 1..MaxRows["child"] /\ "child" \in Serials
    BY FamilyAssumption DEF Serials
  <2> QED  BY <2>1 DEF Numbers
<1>3. ASSUME NEW s \in DOMAIN m.past PROVE s \in Numbers
  <2>1. m.past \in Seq(Past)
    BY FamilyAssumption DEF Mix
  <2>2. PICK t \in Serials : Len(m.past) <= MaxRows[t]
    BY FamilyAssumption
  <2>3. MaxRows[t] \in Nat
    BY FamilyAssumption
  <2>4. s \in 1..MaxRows[t]
    BY <2>1, <2>2, <2>3
  <2> QED  BY <2>4 DEF Numbers
<1>4. "guardian_consent" \in TermsType
    BY DEF TermsType
<1> DEFINE paid == {s \in DOMAIN m.past : m.past[s] \in {"done", "requester_absent"}}
<1>5. \/ k \in {<<"child", 1>>, <<"access_log", 1>>, Agreement(Requester, "guardian_consent"),
                <<"relationship">>, <<"notification", Provider>>}
      \/ k \in {"account"} \X {Requester, Provider}
      \/ k \in {"session", "hold"} \X DOMAIN m.past
      \/ k \in {"entry"} \X paid \X {Requester, Provider}
    BY DEF CareKeys
<1>6. CASE k \in {<<"child", 1>>, <<"access_log", 1>>}
    BY <1>2, <1>6 DEF Keys, Serials
<1>7. CASE k = Agreement(Requester, "guardian_consent")
    BY <1>1, <1>4, <1>7 DEF Keys, Agreement
<1>8. CASE k \in {<<"relationship">>, <<"notification", Provider>>}
    BY <1>1, <1>8 DEF Keys
<1>9. CASE k \in {"account"} \X {Requester, Provider}
    BY <1>1, <1>9 DEF Keys
<1>10. CASE k \in {"session", "hold"} \X DOMAIN m.past
    BY <1>3, <1>10 DEF Keys
<1>11. CASE k \in {"entry"} \X paid \X {Requester, Provider}
    BY <1>1, <1>3, <1>11 DEF Keys
<1> QED  BY <1>5, <1>6, <1>7, <1>8, <1>9, <1>10, <1>11

LEMMA CareLeftFit ==
    ASSUME NEW m \in Mixes, m.past # <<>>, NEW k \in CareKeys(m.past)
    PROVE  LET row == CareLeft(m.past)[k]
           IN  /\ RowFits(k, row)
               /\ row.refs \subseteq Own(Requester) \cup Own(Provider) \cup CareKeys(m.past)
               /\ k[1] = "child" => row.user_id = Requester
               /\ k[1] = "access_log" =>
                      /\ row.actor = Requester /\ row.action = "EDIT"
                      /\ <<"child", 1>> \in row.refs
<1> DEFINE row == CareLeft(m.past)[k]
           c == <<"child", 1>>
<1>1. Requester \in Guardians /\ Provider \in Guardians
    BY FamilyAssumption
<1>2. /\ Own(Requester) \in Refs /\ Own(Provider) \in Refs
      /\ \A r \in Own(Requester) \cup Own(Provider) : r[1] = "user"
    BY <1>1, OwnIsKey DEF Own, Account
<1>3. c \in CareKeys(m.past) /\ c \in Keys /\ c[1] = "child" /\ c[2] = 1
  <2>1. c \in CareKeys(m.past)
    BY DEF CareKeys
  <2> QED  BY <2>1, CareKeysAre
<1>4. k \in Keys
    BY CareKeysAre
<1>5. row = CASE k[1] = "child" ->
                     [refs |-> Own(Requester), user_id |-> Requester,
                      months_old |-> CHOOSE n \in Months : TRUE]
              [] k[1] = "access_log" ->
                     [refs |-> Own(Requester) \cup {c}, actor |-> Requester, action |-> "EDIT"]
              [] k[1] = "agreement" ->
                     [refs |-> Own(Requester), agreed |-> TRUE, revoked |-> FALSE]
              [] k[1] = "relationship" -> [refs |-> Own(Requester) \cup Own(Provider)]
              [] k[1] = "notification" -> [refs |-> Own(Provider), read |-> FALSE]
              [] k[1] = "account" -> AccountLeft(m.past, k[2])
              [] k[1] = "session" -> SessionLeft(m.past[k[2]])
              [] k[1] = "hold"    -> HoldLeft(k[2], m.past[k[2]])
              [] k[1] = "entry"   -> EntryLeft(k[3])
    BY DEF CareLeft
<1> DEFINE Fits == /\ RowFits(k, row)
                   /\ row.refs \subseteq Own(Requester) \cup Own(Provider) \cup CareKeys(m.past)
                   /\ k[1] = "child" => row.user_id = Requester
                   /\ k[1] = "access_log" =>
                          /\ row.actor = Requester /\ row.action = "EDIT"
                          /\ <<"child", 1>> \in row.refs
<1>6. m.past \in Seq(Past)
    BY FamilyAssumption DEF Mix
<1> SUFFICES Fits
    OBVIOUS
<1> HIDE DEF row, c
<1>7. CASE k[1] = "child"
  <2>1. row = [refs |-> Own(Requester), user_id |-> Requester,
               months_old |-> CHOOSE n \in Months : TRUE]
    BY <1>5, <1>7
  <2>2. (CHOOSE n \in Months : TRUE) \in Months
    BY FamilyAssumption
  <2>3. row \in Child /\ row.refs = Own(Requester) /\ row.user_id = Requester
    BY <1>1, <1>2, <2>1, <2>2 DEF Child
  <2>4. \A r \in row.refs : Rank(r) < Rank(k)
    BY <1>2, <1>7, <2>3 DEF Rank
  <2>5. RowFits(k, row)
    BY <1>4, <1>7, <2>3, <2>4, TablesAre DEF RowFits, RefsFit
  <2> QED  BY <1>7, <2>3, <2>5
<1>8. CASE k[1] = "access_log"
  <2>1. row = [refs |-> Own(Requester) \cup {c}, actor |-> Requester, action |-> "EDIT"]
    BY <1>5, <1>8
  <2>2. row \in AccessLog /\ row.refs = Own(Requester) \cup {c}
        /\ row.actor = Requester /\ row.action = "EDIT"
    BY <1>1, <1>2, <1>3, <2>1 DEF AccessLog, Refs
  <2>3. \A r \in row.refs : Rank(r) < Rank(k)
    BY <1>2, <1>3, <1>8, <2>2 DEF Rank
  <2>4. RowFits(k, row)
    BY <1>3, <1>4, <1>8, <2>2, <2>3, TablesAre DEF RowFits, RefsFit
  <2> QED  BY <1>3, <1>8, <2>2, <2>4 DEF c
<1>9. CASE k[1] = "agreement"
  <2>1. row = [refs |-> Own(Requester), agreed |-> TRUE, revoked |-> FALSE]
    BY <1>5, <1>9
  <2>2. row \in TermsAgreement /\ row.refs = Own(Requester) /\ row.agreed /\ ~row.revoked
    BY <1>2, <2>1 DEF TermsAgreement
  <2>3. k = Agreement(Requester, "guardian_consent") /\ "guardian_consent" \in TermsType
    BY <1>9, CareKeysAre DEF TermsType
  <2>4. RowFits(k, row)
    BY <1>1, <2>2, <2>3, AgreementFits
  <2> QED  BY <1>9, <2>2, <2>4
<1>10. CASE k[1] = "notification"
  <2>1. row = [refs |-> Own(Provider), read |-> FALSE] /\ k[2] = Provider
    BY <1>5, <1>10, CareKeysAre
  <2>2. row \in Notification /\ row.refs = Own(Provider)
    BY <1>2, <2>1 DEF Notification
  <2>3. RowFits(k, row)
    BY <1>1, <1>4, <1>10, <2>1, <2>2, OwnRowFits, TablesAre
  <2> QED  BY <1>10, <2>2, <2>3
(* The others: references by rank, and what holds of sessions.             *)
<1>11. ASSUME row \in Table[k[1]], k[1] \in {"relationship", "account", "session", "hold", "entry"},
              row.refs \subseteq Own(Requester) \cup Own(Provider) \cup CareKeys(m.past),
              \A r \in row.refs : Rank(r) < Rank(k),
              k[1] = "session" => /\ <<"child", row.child>> \in row.refs
                                  /\ row.at_fault \in {0, row.requester, row.provider}
       PROVE  Fits
    BY <1>4, <1>11 DEF RowFits, RefsFit
<1>12. CASE k[1] = "relationship"
  <2>1. row = [refs |-> Own(Requester) \cup Own(Provider)]
    BY <1>5, <1>12
  <2>2. row \in TrustRelationship /\ row.refs = Own(Requester) \cup Own(Provider)
    BY <1>2, <2>1 DEF TrustRelationship, Refs
  <2>3. \A r \in row.refs : Rank(r) < Rank(k)
    BY <1>2, <1>12, <2>2 DEF Rank
  <2> QED  BY <1>11, <1>12, <2>2, <2>3, TablesAre
<1>13. CASE k[1] = "account"
  <2>1. row = AccountLeft(m.past, k[2]) /\ k[2] \in {Requester, Provider}
    BY <1>5, <1>13, CareKeysAre
  <2>2. Cardinality({s \in DOMAIN m.past : m.past[s] = "open"}) \in Int
    <3> DEFINE open == {s \in DOMAIN m.past : m.past[s] = "open"}
    <3>1. IsFiniteSet(1..Len(m.past)) /\ DOMAIN m.past = 1..Len(m.past)
      BY <1>6, FS_Interval
    <3>2. open \in SUBSET (1..Len(m.past))
      BY <3>1
    <3> HIDE DEF open
    <3>3. IsFiniteSet(open)
      BY <3>1, <3>2, FS_Subset
    <3>4. Cardinality(open) \in Int
      BY <3>3, FS_CardinalityType
    <3> QED  BY <3>4 DEF open
  <2>3. row \in PointAccount /\ row.refs = Own(k[2])
    BY <1>2, <2>1, <2>2 DEF PointAccount, AccountLeft
  <2>4. row.refs \subseteq Own(Requester) \cup Own(Provider)
    BY <2>1, <2>3
  <2>5. \A r \in row.refs : Rank(r) < Rank(k)
    BY <1>2, <1>13, <2>4 DEF Rank
  <2> QED  BY <1>11, <1>13, <2>3, <2>4, <2>5, TablesAre
<1>14. CASE k[1] = "session"
  <2>1. row = SessionLeft(m.past[k[2]])
    BY <1>5, <1>14
  <2>2. row.refs = Own(Requester) \cup Own(Provider) \cup {c}
    BY <2>1 DEF SessionLeft, c
  <2>3. row.child = 1 /\ row.at_fault \in {0, row.requester, row.provider}
    BY <2>1 DEF SessionLeft
  <2>4. row \in CareSession
    <3>1. row.refs \in Refs
      BY <1>2, <1>3, <2>2 DEF Refs
    <3>2. 1 \in Numbers
      BY <1>3, KeysAre DEF Serials
    <3> QED  BY <1>1, <2>1, <3>1, <3>2 DEF CareSession, SessionLeft
  <2>5. \A r \in row.refs : Rank(r) < Rank(k)
    BY <1>2, <1>3, <1>14, <2>2 DEF Rank
  <2> QED  BY <1>3, <1>11, <1>14, <2>2, <2>3, <2>4, <2>5, TablesAre DEF c
<1>15. CASE k[1] = "hold"
  <2>1. row = HoldLeft(k[2], m.past[k[2]]) /\ k[2] \in DOMAIN m.past
    BY <1>5, <1>15, CareKeysAre
  <2>2. row.refs = {Session(k[2])} \cup Own(Requester) \cup Own(Provider)
    BY <2>1 DEF HoldLeft
  <2>3. Session(k[2]) \in CareKeys(m.past) /\ Session(k[2])[1] = "session"
    BY <2>1 DEF Session, CareKeys
  <2>4. row \in PointHold
    <3>1. row.refs \in Refs
      BY <1>2, <2>2, <2>3, CareKeysAre DEF Refs
    <3>2. m.past[k[2]] \in Past
      BY <1>6, <2>1
    <3>3. row.status \in {"HELD", "SETTLED", "RELEASED", "FORFEITED"}
      BY <2>1, <3>2 DEF HoldLeft, Past
    <3> QED  BY <1>1, <2>1, <3>1, <3>3 DEF PointHold, HoldLeft
  <2>5. \A r \in row.refs : Rank(r) < Rank(k)
    BY <1>2, <1>15, <2>2, <2>3 DEF Rank
  <2> QED  BY <1>11, <1>15, <2>2, <2>3, <2>4, <2>5, TablesAre
<1>16. CASE k[1] = "entry"
  <2>1. row = EntryLeft(k[3])
    BY <1>5, <1>16
  <2>2. row \in PointEntry /\ row.refs = Own(Requester) \cup Own(Provider)
    BY <1>2, <2>1 DEF PointEntry, EntryLeft, Refs
  <2>3. \A r \in row.refs : Rank(r) < Rank(k)
    BY <1>2, <1>16, <2>2 DEF Rank
  <2> QED  BY <1>11, <1>16, <2>2, <2>3, TablesAre
<1> QED  BY <1>7, <1>8, <1>9, <1>10, <1>12, <1>13, <1>14, <1>15, <1>16, CareKeysAre

LEMMA RequestsAtFirst ==
    ASSUME NEW r, r = NoRequest
    PROVE  RequestFits(r)
BY NothingIs DEF NoRequest, RequestFits

LEMMA InitFits ==
    ASSUME Init
    PROVE  FamilyInv
<1> DEFINE care == IF mix.past = <<>> THEN Nothing ELSE CareLeft(mix.past)
<1>1. mix \in Mixes /\ last = NumbersLeft(mix) /\ req = [w \in Workers |-> NoRequest]
    BY DEF Init
<1>2. PICK home \in [mix.settled -> [cell : Cells, answers : Answers]] :
          db = With(AccountsLeft(mix), With(SignupTerms(mix), With(ProfilesLeft(home), care)))
    BY DEF Init
<1> DEFINE A == AccountsLeft(mix)
           S == SignupTerms(mix)
           P == ProfilesLeft(home)
<1>3. \A w \in Workers : RequestFits(req[w])
    BY <1>1, RequestsAtFirst
<1>4. ASSUME NEW k \in DOMAIN care
      PROVE  /\ mix.past # <<>> /\ k \in CareKeys(mix.past) /\ care[k] = CareLeft(mix.past)[k]
    BY NothingIs DEF CareLeft
<1>5. DOMAIN A = {Account(u) : u \in mix.users}
    BY DEF AccountsLeft
<1>6. DOMAIN S = {Agreement(u, t) : u \in mix.users \ mix.guests, t \in REQUIRED_TYPES}
    BY DEF SignupTerms
<1>7. mix.past # <<>> => DOMAIN care = CareKeys(mix.past) /\ {Requester, Provider} \subseteq mix.users
  <2>1. ASSUME mix.past # <<>> PROVE DOMAIN care = CareKeys(mix.past)
    BY <2>1 DEF CareLeft
  <2>2. mix.past # <<>> => {Requester, Provider} \subseteq mix.users
    BY <1>1, FamilyAssumption
  <2> QED  BY <2>1, <2>2
<1> HIDE DEF care, A, S, P
<1>8. /\ DOMAIN db = DOMAIN A \cup DOMAIN S \cup DOMAIN P \cup DOMAIN care
      /\ \A k \in DOMAIN db : \/ k \in DOMAIN A /\ db[k] = A[k]
                              \/ k \in DOMAIN S /\ db[k] = S[k]
                              \/ k \in DOMAIN P /\ db[k] = P[k]
                              \/ k \in DOMAIN care /\ db[k] = care[k]
  <2> DEFINE PC == With(P, care)
             SPC == With(S, PC)
  <2>1. db = With(A, SPC)
    BY <1>2 DEF A, S, P, care
  <2>2. /\ DOMAIN PC = DOMAIN P \cup DOMAIN care
        /\ \A k \in DOMAIN PC : PC[k] = IF k \in DOMAIN P THEN P[k] ELSE care[k]
    BY DEF With
  <2> HIDE DEF PC
  <2>3. /\ DOMAIN SPC = DOMAIN S \cup DOMAIN PC
        /\ \A k \in DOMAIN SPC : SPC[k] = IF k \in DOMAIN S THEN S[k] ELSE PC[k]
    BY DEF With
  <2> HIDE DEF SPC
  <2>4. /\ DOMAIN db = DOMAIN A \cup DOMAIN SPC
        /\ \A k \in DOMAIN db : db[k] = IF k \in DOMAIN A THEN A[k] ELSE SPC[k]
    BY <2>1 DEF With
  <2> QED  BY <2>2, <2>3, <2>4
(* What of each part lies in the database, row by row.                     *)
<1>9. ASSUME NEW k \in DOMAIN db
      PROVE  \/ /\ k[1] = "user" /\ k[2] \in mix.users /\ RowFits(k, db[k]) /\ db[k].refs = {}
                /\ OnTheWay(db[k]) => k[2] \notin mix.guests
             \/ /\ k[1] = "agreement" /\ k[2] \in mix.users
                /\ RowFits(k, db[k]) /\ db[k].refs = Own(k[2])
             \/ /\ k[1] \in {"profile", "values", "values_history", "tag"} /\ k[2] \in mix.settled
                /\ RowFits(k, db[k]) /\ db[k].refs = Own(k[2])
             \/ k \in DOMAIN care /\ db[k] = care[k]
  <2>1. CASE k \in DOMAIN A /\ db[k] = A[k]
    BY <1>1, <2>1, AccountsLeftFit DEF A
  <2>2. CASE k \in DOMAIN S /\ db[k] = S[k]
    BY <1>1, <2>2, SignupTermsFit DEF S
  <2>3. CASE k \in DOMAIN P /\ db[k] = P[k]
    BY <1>1, <2>3, ProfilesLeftFit DEF P
  <2> QED  BY <1>8, <2>1, <2>2, <2>3
<1>10. \A u \in mix.users : Account(u) \in DOMAIN db
    BY <1>5, <1>8
<1>11. ASSUME NEW k \in DOMAIN care
       PROVE  /\ RowFits(k, care[k]) /\ care[k].refs \subseteq DOMAIN db
              /\ k[1] = "child" => k = <<"child", 1>> /\ care[k].user_id = Requester
              /\ k[1] = "access_log" =>
                     /\ k = <<"access_log", 1>> /\ care[k].actor = Requester
                     /\ care[k].action = "EDIT" /\ <<"child", 1>> \in care[k].refs
              /\ k[1] \notin {"user", "event", "values_history", "weights_history", "message"}
  <2>1. mix.past # <<>> /\ k \in CareKeys(mix.past) /\ care[k] = CareLeft(mix.past)[k]
    BY <1>4
  <2>2. /\ RowFits(k, care[k])
        /\ care[k].refs \subseteq Own(Requester) \cup Own(Provider) \cup CareKeys(mix.past)
        /\ k[1] = "child" => care[k].user_id = Requester
        /\ k[1] = "access_log" => /\ care[k].actor = Requester /\ care[k].action = "EDIT"
                                  /\ <<"child", 1>> \in care[k].refs
    BY <1>1, <2>1, CareLeftFit
  <2>3. Own(Requester) \cup Own(Provider) \cup CareKeys(mix.past) \subseteq DOMAIN db
    BY <1>7, <1>8, <1>10, <2>1 DEF Own
  <2>4. /\ k[1] \in {"child", "access_log"} => k = <<k[1], 1>>
        /\ k[1] \notin {"user", "event", "values_history", "weights_history", "message"}
    BY <1>1, <2>1, CareKeysAre
  <2> QED  BY <2>2, <2>3, <2>4
<1>12. /\ \A t \in Serials : last[t] \in Nat /\ last[t] <= MaxRows[t]
       /\ last \in [Serials -> Nat]
       /\ last["values_history"] = Cardinality(mix.settled)
       /\ mix.past # <<>> => last["child"] = 1 /\ last["access_log"] = 1
  <2>1. \A t \in Serials : MaxRows[t] \in Nat
    BY FamilyAssumption
  <2>2. Cardinality(mix.settled) \in Nat /\ Cardinality(mix.settled) <= MaxRows["values_history"]
    BY <1>1, SettledAre
  <2>3. mix.past # <<>> => MaxRows["child"] >= 1 /\ MaxRows["access_log"] >= 1
    BY <1>1, FamilyAssumption
  <2>4. last = [t \in Serials |->
                  CASE t = "values_history" -> Cardinality(mix.settled)
                    [] t \in {"child", "access_log"} -> IF mix.past = <<>> THEN 0 ELSE 1
                    [] OTHER -> 0]
    BY <1>1 DEF NumbersLeft
  <2>5. /\ \A t \in Serials : last[t] = CASE t = "values_history" -> Cardinality(mix.settled)
                                         [] t \in {"child", "access_log"} ->
                                                IF mix.past = <<>> THEN 0 ELSE 1
                                         [] OTHER -> 0
        /\ last = [t \in Serials |-> last[t]]
    BY <2>4
  <2>6. \A t \in Serials : last[t] \in Nat /\ last[t] <= MaxRows[t]
    BY <2>1, <2>2, <2>3, <2>5
  <2> QED  BY <2>5, <2>6 DEF Serials
<1>13. ASSUME NEW k \in DOMAIN db
       PROVE  RowFits(k, db[k]) /\ NumberFits(k) /\ Needs(db[k]) \ {Account(0)} \subseteq DOMAIN db
  <2>1. RowFits(k, db[k]) /\ db[k].refs \subseteq DOMAIN db /\ k[1] # "event"
    <3>1. mix.settled \subseteq mix.users
      BY <1>1, SettledAre
    <3> QED  BY <1>9, <1>10, <1>11, <3>1 DEF Own
  <2>2. NumberFits(k)
    <3>1. CASE k[1] = "values_history"
      <4>1. k[2] \in mix.settled
        BY <1>9, <1>11, <3>1
      <4> QED  BY <1>1, <1>12, <3>1, <4>1, SettledAre DEF NumberFits
    <3>2. CASE k[1] \in {"child", "access_log"}
      <4>1. k \in DOMAIN care
        BY <1>9, <3>2
      <4>2. k[2] = 1 /\ mix.past # <<>>
        BY <1>4, <1>11, <3>2, <4>1
      <4> QED  BY <1>12, <3>2, <4>2 DEF NumberFits
    <3>3. k[1] \notin {"event", "weights_history", "message"}
      BY <1>9, <1>11
    <3> QED  BY <3>1, <3>2, <3>3 DEF NumberFits, Serials
  <2>3. Needs(db[k]) = db[k].refs
    BY <2>1, NeedsAre DEF RowFits
  <2> QED  BY <2>1, <2>2, <2>3
<1>14. ASSUME NEW k \in Of("user"), OnTheWay(db[k]), NEW t \in REQUIRED_TYPES
       PROVE  Existing(Agreement(k[2], t))
  <2>1. k \in DOMAIN db /\ k[1] = "user"
    BY DEF Of
  <2>2. k[2] \in mix.users \ mix.guests
    BY <1>9, <1>11, <1>14, <2>1
  <2> QED  BY <1>6, <1>8, <2>2 DEF Existing
<1>15. ASSUME NEW c \in Of("child")
       PROVE  /\ Existing(Agreement(db[c].user_id, "guardian_consent"))
              /\ \E l \in DOMAIN db : Registers(l, db[l], c, db[c])
  <2>1. c \in DOMAIN care /\ db[c] = care[c] /\ c = <<"child", 1>> /\ care[c].user_id = Requester
    BY <1>9, <1>11 DEF Of
  <2>2. Agreement(Requester, "guardian_consent") \in DOMAIN db
    BY <1>4, <1>7, <1>8, <2>1 DEF CareKeys
  <2> DEFINE l == <<"access_log", 1>>
  <2>3. l \in DOMAIN db /\ l[1] = "access_log"
    BY <1>4, <1>7, <1>8, <2>1 DEF CareKeys
  <2> HIDE DEF l
  <2>4. l \in DOMAIN care /\ db[l] = care[l]
    BY <1>9, <2>3
  <2>5. Registers(l, db[l], c, db[c])
    BY <1>11, <2>1, <2>3, <2>4 DEF Registers
  <2> QED  BY <2>1, <2>2, <2>3, <2>5 DEF Existing
<1>16. DbFits
    BY <1>13, <1>14, <1>15 DEF DbFits
<1> QED  BY <1>1, <1>3, <1>12, <1>16 DEF FamilyInv, NumbersFit

-----------------------------------------------------------------------------
(* The theorems.                                                           *)

LEMMA ConsentingKeeps ==
    ASSUME FamilyInv, NEW w \in Workers, NEW u \in Guardians, Consenting(w, u)
    PROVE  FamilyInv'
<1>1. CASE \E answer \in Answered : submit_agreements(w, u, answer)
    BY <1>1, SubmitAgreementsKeeps
<1>2. CASE \E t \in TermsType : revoke_agreement(w, u, t)
    BY <1>2, RevokeKeeps
<1>3. CASE advance_onboarding(w, u)
    BY <1>3, AdvanceOnboardingKeeps
<1> QED  BY <1>1, <1>2, <1>3 DEF Consenting

LEMMA ParentingKeeps ==
    ASSUME FamilyInv, NEW w \in Workers, NEW u \in Guardians, Parenting(w, u)
    PROVE  FamilyInv'
<1>1. CASE \E months_old \in Months, has \in Infos : create_child(w, u, months_old, has)
    BY <1>1, CreateChildKeeps
<1>2. CASE \E child \in ChildrenOf(u) : get_child(w, u, child)
    BY <1>2, GetChildKeeps
<1>3. CASE \E child \in ChildrenOf(u) : delete_child(w, u, child)
    BY <1>3, DeleteChildKeeps
<1> QED  BY <1>1, <1>2, <1>3 DEF Parenting

LEMMA DescribingKeeps ==
    ASSUME FamilyInv, NEW w \in Workers, NEW u \in Guardians, Describing(w, u)
    PROVE  FamilyInv'
<1>1. CASE \E residence_h3 \in Cells, tags \in TagSets : upsert_profile(w, u, residence_h3, tags)
    BY <1>1, UpsertProfileKeeps
<1>2. CASE \E answers \in Answers : submit_questionnaire(w, u, answers)
    BY <1>2, QuestionnaireKeeps
<1>3. CASE submit_narrative(w, u)
    BY <1>3, NarrativeKeeps
<1>4. CASE \E d \in Days, template \in ShiftTemplate : register_shift(w, u, d, template)
    BY <1>4, RegisterShiftKeeps
<1> QED  BY <1>1, <1>2, <1>3, <1>4 DEF Describing

LEMMA JudgingKeeps ==
    ASSUME FamilyInv, NEW w \in Workers, NEW u \in Guardians, Judging(w, u)
    PROVE  FamilyInv'
<1>1. CASE \E ws \in Weights : update_weights(w, u, ws)
    BY <1>1, UpdateWeightsKeeps
<1>2. CASE \E d \in Days : find_candidates(w, u, d)
    BY <1>2, FindCandidatesKeeps
<1>3. ASSUME NEW k \in Of("session"),
             \/ \E note \in BOOLEAN : upsert_log(w, u, k[2], note)
             \/ \E rating \in Ratings : submit_evaluation(w, u, k[2], rating)
      PROVE  FamilyInv'
  <2>1. k[2] \in Numbers /\ Session(k[2]) \in Of("session")
    BY SessionRead
  <2> QED  BY <1>3, <2>1, UpsertLogKeeps, SubmitEvaluationKeeps
<1> QED  BY <1>1, <1>2, <1>3 DEF Judging

LEMMA TalkingKeeps ==
    ASSUME FamilyInv, NEW w \in Workers, NEW u \in Guardians, Talking(w, u)
    PROVE  FamilyInv'
<1>1. CASE \E content \in {"text", "phone"} : send_message(w, u, content)
    BY <1>1, SendMessageKeeps
<1>2. CASE mark_read(w, u)
    BY <1>2, MarkReadKeeps
<1>3. CASE withdraw(w, u)
    BY <1>3, WithdrawKeeps
<1> QED  BY <1>1, <1>2, <1>3 DEF Talking

LEMMA StepKeeps ==
    ASSUME FamilyInv, [Next]_vars
    PROVE  FamilyInv'
<1>1. CASE Next
  <2> PICK w \in Workers :
          \/ \E u \in Guardians : \/ Consenting(w, u) \/ Parenting(w, u) \/ Describing(w, u)
                                  \/ Judging(w, u) \/ Talking(w, u)
          \/ get_or_create(w) \/ purge_deactivated(w) \/ Commit(w) \/ RolledBack(w)
    BY <1>1 DEF Next
  <2> QED  BY ConsentingKeeps, ParentingKeeps, DescribingKeeps, JudgingKeeps, TalkingKeeps,
              GetOrCreateKeeps, PurgeKeeps, CommitKeeps, RolledBackKeeps
<1>2. CASE UNCHANGED vars
  <2>1. db' = db /\ last' = last /\ mix' = mix /\ req' = req
    BY <1>2 DEF vars
  <2> QED  BY <2>1 DEF FamilyInv, NumbersFit, DbFits, RowFits, NumberFits, RequestFits, ReadFits,
                        WriteFits, ConsentOf, Existing, Of
<1> QED  BY <1>1, <1>2

(* However requests overlap and fail: every row is a row of its table,     *)
(* numbered and referring as its table does, in the database and in every  *)
(* request in flight, and what a request has read and nobody can take back *)
(* is still so.                                                            *)
THEOREM FamilyInvariantHolds == Spec => []FamilyInv
<1>1. Init => FamilyInv
    BY InitFits
<1>2. FamilyInv /\ [Next]_vars => FamilyInv'
    BY StepKeeps
<1> QED  BY <1>1, <1>2, PTL DEF Spec

(* No row outlives what it refers to, whatever is deleted while it is      *)
(* being added, for any number of guardians, rows and requests.            *)
THEOREM ReferencesAreKept == Spec => []TypeOK
<1>1. FamilyInv => TypeOK
  <2> SUFFICES ASSUME FamilyInv PROVE TypeOK
    OBVIOUS
  <2>1. \A k \in DOMAIN db : k \in Keys /\ db[k] \in Table[k[1]]
                             /\ Needs(db[k]) \ {Account(0)} \subseteq DOMAIN db
    BY DEF FamilyInv, DbFits, RowFits
  <2>2. \A t \in Serials : last[t] \in 0..MaxRows[t]
    BY FamilyAssumption DEF FamilyInv, NumbersFit
  <2>3. \A w \in Workers : \A k \in DOMAIN req[w].writes : req[w].writes[k] \in Table[k[1]]
    BY DEF FamilyInv, RequestFits, WriteFits, RowFits
  <2>4. mix \in Mixes
    BY DEF FamilyInv
  <2> QED  BY <2>1, <2>2, <2>3, <2>4 DEF TypeOK
<1> QED  BY <1>1, FamilyInvariantHolds, PTL

(* Who has gone through the terms holds all the required ones, and no      *)
(* child is registered without its guardian's answer to the consent and    *)
(* without the entry in the access log.                                    *)
THEOREM ConsentsAreKept == Spec => []ConsentStays
<1>1. FamilyInv => ConsentStays
  <2> SUFFICES ASSUME FamilyInv PROVE ConsentStays
    OBVIOUS
  <2>1. ASSUME NEW k \in Of("user"), db[k].onboarding \in {"TERMS_AGREED", "PROFILE_REQUIRED"},
               NEW t \in REQUIRED_TYPES
        PROVE  Agreed(k[2], t)
    <3>1. Existing(Agreement(k[2], t))
      BY <2>1 DEF FamilyInv, DbFits, OnTheWay
    <3>2. Agreement(k[2], t)[1] = "agreement" /\ Agreement(k[2], t)[3] = t
      BY DEF Agreement
    <3>3. db[Agreement(k[2], t)].agreed /\ ~db[Agreement(k[2], t)].revoked
      <4> DEFINE a == Agreement(k[2], t)
      <4> HIDE DEF a
      <4>1. a \in DOMAIN db /\ a[1] = "agreement" /\ a[3] \in REQUIRED_TYPES
        BY <3>1, <3>2 DEF a, Existing
      <4>2. db[a].agreed /\ ~db[a].revoked
        BY <4>1 DEF FamilyInv, DbFits, RowFits
      <4> QED  BY <4>2 DEF a
    <3> QED  BY <3>1, <3>3 DEF Agreed
  <2>2. ASSUME NEW c \in Of("child")
        PROVE  /\ Existing(Agreement(db[c].user_id, "guardian_consent"))
               /\ \E l \in Of("access_log") :
                      /\ db[l].actor = db[c].user_id /\ db[l].action = "EDIT"
                      /\ c \in db[l].refs
    BY DEF FamilyInv, DbFits, Registers, Of
  <2> QED  BY <2>1, <2>2 DEF ConsentStays
<1> QED  BY <1>1, FamilyInvariantHolds, PTL
=============================================================================
