------------------------- MODULE FamilySerialProofs -------------------------
(***************************************************************************)
(* Theorems about Family where requests come one at a time: the shifts, the *)
(* history of parenting values and the scores.                             *)
(***************************************************************************)
EXTENDS FamilyProofs

(* An update of what has been read as it is writes all of the row.         *)
LEMMA MergedWhole ==
    ASSUME NEW k, k[1] \in {"schedule", "values", "weights"},
           NEW row \in Table[k[1]], NEW write \in Table[k[1]]
    PROVE  Merged(row, row, write) = write
<1> DEFINE M == Merged(row, row, write)
<1>1. M = [f \in DOMAIN row |-> write[f]]
    BY DEF Merged
<1> HIDE DEF M
<1>2. CASE k[1] = "schedule"
  <2>1. row \in WorkSchedule /\ write \in WorkSchedule
    BY <1>2, TablesAre
  <2> QED  BY <1>1, <2>1 DEF WorkSchedule, M
<1>3. CASE k[1] = "values"
  <2>1. row \in ParentingValuesProfile /\ write \in ParentingValuesProfile
    BY <1>3, TablesAre
  <2> QED  BY <1>1, <2>1 DEF ParentingValuesProfile, M
<1>4. CASE k[1] = "weights"
  <2>1. row \in TrustWeights /\ write \in TrustWeights
    BY <1>4, TablesAre
  <2> QED  BY <1>1, <2>1 DEF TrustWeights, M
<1> QED  BY <1>2, <1>3, <1>4

-----------------------------------------------------------------------------
(* A request's first step.                                                 *)

LEMMA SerialStart ==
    ASSUME FamilyInv, FamilySerialInv, NEW w \in Workers, NEW op, NEW writes, NEW deletes,
           Start(w, op, writes, deletes),
           mix.serial => /\ \A k \in DOMAIN writes : Sound(k, writes[k])
                         /\ Records(writes)
    PROVE  FamilySerialInv'
<1> DEFINE reads == (DOMAIN writes \cap DOMAIN db) \ deletes
           new == [reads |-> [k \in reads |-> db[k]], writes |-> writes, deletes |-> deletes]
<1>1. db' = db /\ mix' = mix /\ req' = [req EXCEPT ![w] = new] /\ Ready(w)
    BY DEF Start
<1>2. new.reads = [k \in reads |-> db[k]] /\ new.writes = writes /\ new.deletes = deletes
    OBVIOUS
<1> HIDE DEF new
<1> SUFFICES ASSUME mix.serial
             PROVE  /\ (DOMAIN req = Workers)' /\ OneAtATime'
                    /\ (\A k \in DOMAIN db : Sound(k, db[k]))'
                    /\ (\A k \in Of("values") : Recorded(db, k))'
                    /\ \A v \in Workers :
                           /\ UpToDate(req[v])'
                           /\ (\A k \in DOMAIN req[v].writes : Sound(k, req[v].writes[k]))'
                           /\ Records(req[v].writes)'
    BY <1>1 DEF FamilySerialInv
<1>3. \A v \in Workers : IF v = w THEN req'[v] = new ELSE req'[v] = req[v] /\ req[v] = NoRequest
  <2>1. \A v \in Workers : req[v] = NoRequest
    BY <1>1 DEF Ready
  <2>2. \A v \in Workers : v # w => req'[v] = req[v]
    BY <1>1
  <2>3. req'[w] = new
    <3>1. w \in DOMAIN req
      BY DEF FamilySerialInv
    <3> QED  BY <1>1, <3>1
  <2> QED  BY <2>1, <2>2, <2>3
<1>4. (DOMAIN req = Workers)' /\ OneAtATime'
  <2>1. (DOMAIN req = Workers)'
    BY <1>1 DEF FamilySerialInv
  <2> QED  BY <1>3, <2>1 DEF OneAtATime
<1>5. /\ (\A k \in DOMAIN db : Sound(k, db[k]))'
      /\ (\A k \in Of("values") : Recorded(db, k))'
    BY <1>1 DEF FamilySerialInv, Of, Sound, Recorded, Latest, Same
<1>6. ASSUME NEW v \in Workers
      PROVE  /\ UpToDate(req[v])'
             /\ (\A k \in DOMAIN req[v].writes : Sound(k, req[v].writes[k]))'
             /\ Records(req[v].writes)'
  <2>1. CASE v = w
    <3>1. req'[v] = new
      BY <1>3, <2>1
    <3>2. UpToDate(req[v])'
      BY <1>1, <1>2, <3>1 DEF UpToDate
    <3>3. (\A k \in DOMAIN req[v].writes : Sound(k, req[v].writes[k]))'
      BY <1>2, <3>1 DEF Sound
    <3>4. Records(req[v].writes)'
      BY <1>1, <1>2, <3>1 DEF Records, Of, Recorded, Latest, Same
    <3> QED  BY <3>2, <3>3, <3>4
  <2>2. CASE v # w
    <3>1. req'[v] = req[v]
      BY <1>3, <2>2
    <3> QED  BY <1>1, <3>1 DEF FamilySerialInv, UpToDate, Sound, Records, Of, Recorded, Latest, Same
  <2> QED  BY <2>1, <2>2
<1> QED  BY <1>4, <1>5, <1>6

(* Most requests write no shifts, values or weights.                       *)
Loud == {"schedule", "values", "values_history", "weights"}

Quiet(writes) == \A k \in DOMAIN writes : k[1] \notin Loud

LEMMA QuietStart ==
    ASSUME FamilyInv, FamilySerialInv, NEW w \in Workers, NEW op, NEW writes, NEW deletes,
           Start(w, op, writes, deletes), Quiet(writes)
    PROVE  FamilySerialInv'
<1>1. /\ \A k \in DOMAIN writes : Sound(k, writes[k])
      /\ Records(writes)
    BY DEF Quiet, Loud, Sound, Records
<1> QED  BY <1>1, SerialStart

LEMMA QuietRow ==
    ASSUME NEW k, k[1] \notin Loud, NEW row
    PROVE  Quiet(Row(k, row))
BY DEF Quiet, Row

LEMMA QuietWith ==
    ASSUME NEW f, Quiet(f), NEW g, Quiet(g)
    PROVE  Quiet(With(f, g))
BY DEF Quiet, With

LEMMA QuietNothing == Quiet(Nothing)
BY NothingIs DEF Quiet

-----------------------------------------------------------------------------
(* A commit, and a request that ends without one.                          *)

(* A request that ends leaves none in flight.                              *)
LEMMA SerialEnd ==
    ASSUME FamilySerialInv, mix.serial, NEW w \in Workers, req[w] # NoRequest,
           req' = [req EXCEPT ![w] = NoRequest]
    PROVE  /\ (DOMAIN req = Workers)' /\ OneAtATime'
           /\ \A v \in Workers : req'[v] = NoRequest
<1>1. DOMAIN req = Workers /\ OneAtATime
    BY DEF FamilySerialInv
<1>2. \A v \in Workers : req'[v] = NoRequest
    BY <1>1 DEF OneAtATime
<1> QED  BY <1>1, <1>2 DEF OneAtATime

LEMMA SerialRows ==
    ASSUME FamilyInv, FamilySerialInv, mix.serial, NEW w \in Workers, Commit(w),
           NEW r, r = req[w], NEW gone, gone = Cascade(r.deletes)
    PROVE  /\ \A k \in DOMAIN db' : k[1] \in Loud =>
                  IF k \in DOMAIN r.writes THEN db'[k] = r.writes[k]
                  ELSE k \in DOMAIN db /\ k \notin gone /\ db'[k] = db[k]
           /\ \A k \in DOMAIN db : k[1] \in Loud /\ k \notin gone => k \in DOMAIN db'
           /\ \A k \in DOMAIN r.writes : k[1] = "values_history" => k \in DOMAIN db'
<1> DEFINE new == Inserts(r)
<1>1. new = DOMAIN r.writes \ DOMAIN r.reads
    BY DEF Inserts
<1>2. /\ DOMAIN db' = (DOMAIN db \ gone) \cup new
      /\ \A k \in new : db'[k] = r.writes[k]
      /\ \A k \in DOMAIN db \ gone : k \notin new /\ k \in DOMAIN r.reads =>
             db'[k] = Merged(db[k], r.reads[k], r.writes[k])
      /\ \A k \in DOMAIN db \ gone : k \notin new /\ k \notin DOMAIN r.reads =>
             db'[k] = Unlinked(k, gone)
    BY CommitRows
<1> HIDE DEF new
<1>3. /\ \A k \in DOMAIN r.reads : k \in DOMAIN r.writes /\ k[1] \in Updated
      /\ \A k \in DOMAIN r.writes : r.writes[k] \in Table[k[1]]
      /\ \A k \in DOMAIN db : db[k] \in Table[k[1]]
    BY DEF FamilyInv, RequestFits, ReadFits, WriteFits, DbFits, RowFits
<1>4. \A k \in DOMAIN r.reads : r.reads[k] = db[k]
    BY DEF FamilySerialInv, UpToDate
<1>5. ASSUME NEW k \in DOMAIN db', k[1] \in Loud
      PROVE  IF k \in DOMAIN r.writes THEN db'[k] = r.writes[k]
             ELSE k \in DOMAIN db /\ k \notin gone /\ db'[k] = db[k]
  <2>1. CASE k \in new
    BY <1>1, <1>2, <2>1
  <2>2. CASE k \notin new /\ k \in DOMAIN r.reads
    <3>1. k \in DOMAIN db \ gone /\ db'[k] = Merged(db[k], db[k], r.writes[k])
      BY <1>2, <1>4, <2>2
    <3>2. k \in DOMAIN r.writes /\ k[1] \in {"schedule", "values", "weights"}
      BY <1>3, <1>5, <2>2 DEF Loud, Updated
    <3>3. Merged(db[k], db[k], r.writes[k]) = r.writes[k]
      BY <1>3, <3>1, <3>2, MergedWhole
    <3> QED  BY <3>1, <3>2, <3>3
  <2>3. CASE k \notin new /\ k \notin DOMAIN r.reads
    <3>1. k \in DOMAIN db /\ k \notin gone /\ k \notin DOMAIN r.writes
      BY <1>1, <1>2, <2>3
    <3>2. db'[k] = Unlinked(k, gone)
      BY <1>2, <2>3, <3>1
    <3>3. k[1] # "event"
      BY <1>5 DEF Loud
    <3> QED  BY <3>1, <3>2, <3>3 DEF Unlinked
  <2> QED  BY <2>1, <2>2, <2>3
<1>6. \A k \in DOMAIN r.writes : k[1] = "values_history" => k \in new
    BY <1>1, <1>3 DEF Updated
<1> QED  BY <1>2, <1>5, <1>6

LEMMA SerialCommit ==
    ASSUME FamilyInv, FamilySerialInv, NEW w \in Workers, Commit(w)
    PROVE  FamilySerialInv'
<1> DEFINE r == req[w]
           gone == Cascade(r.deletes)
<1>1. mix' = mix /\ req' = [req EXCEPT ![w] = NoRequest] /\ req[w] # NoRequest
    BY DEF Commit
<1> SUFFICES ASSUME mix.serial
             PROVE  /\ (DOMAIN req = Workers)' /\ OneAtATime'
                    /\ (\A k \in DOMAIN db : Sound(k, db[k]))'
                    /\ (\A k \in Of("values") : Recorded(db, k))'
                    /\ \A v \in Workers :
                           /\ UpToDate(req[v])'
                           /\ (\A k \in DOMAIN req[v].writes : Sound(k, req[v].writes[k]))'
                           /\ Records(req[v].writes)'
    BY <1>1 DEF FamilySerialInv
<1>2. /\ (DOMAIN req = Workers)' /\ OneAtATime'
      /\ \A v \in Workers : req'[v] = NoRequest
    BY <1>1, SerialEnd
<1>3. ASSUME NEW v \in Workers
      PROVE  /\ UpToDate(req[v])'
             /\ (\A k \in DOMAIN req[v].writes : Sound(k, req[v].writes[k]))'
             /\ Records(req[v].writes)'
  <2>1. DOMAIN req'[v].reads = {} /\ DOMAIN req'[v].writes = {}
    BY <1>2, NothingIs DEF NoRequest
  <2> QED  BY <2>1 DEF UpToDate, Records
<1>4. /\ DbFits /\ RequestFits(r)
    BY DEF FamilyInv
<1>5. /\ \A k \in DOMAIN db : Sound(k, db[k])
      /\ \A k \in Of("values") : Recorded(db, k)
      /\ \A k \in DOMAIN r.writes : Sound(k, r.writes[k])
      /\ Records(r.writes)
    BY DEF FamilySerialInv
<1>6. /\ \A k \in DOMAIN db' : k[1] \in Loud =>
             IF k \in DOMAIN r.writes THEN db'[k] = r.writes[k]
             ELSE k \in DOMAIN db /\ k \notin gone /\ db'[k] = db[k]
      /\ \A k \in DOMAIN db : k[1] \in Loud /\ k \notin gone => k \in DOMAIN db'
      /\ \A k \in DOMAIN r.writes : k[1] = "values_history" => k \in DOMAIN db'
    BY SerialRows
<1>7. (\A k \in DOMAIN db : Sound(k, db[k]))'
  <2>1. ASSUME NEW k \in DOMAIN db' PROVE Sound(k, db'[k])
    <3>1. CASE k[1] \in Loud
      BY <1>5, <1>6, <3>1
    <3>2. CASE k[1] \notin Loud
      BY <3>2 DEF Sound, Loud
    <3> QED  BY <3>1, <3>2
  <2> QED  BY <2>1 DEF Sound
<1>8. ASSUME NEW h \in DOMAIN db, h[1] = "values_history", NEW k \in DOMAIN db, k[1] = "values",
             db[h].user_id = k[2], k \notin gone
      PROVE  h \notin gone
  <2>1. db[h].refs = Own(k[2]) /\ db[k].refs = Own(k[2])
    BY <1>4, <1>8 DEF DbFits, RowFits, RefsFit
  <2>2. h \notin r.deletes
    BY <1>4, <1>8 DEF RequestFits
  <2>3. h \in gone => Account(k[2]) \in gone
    BY <1>4, <2>1, <2>2, OwnsCascade
  <2>4. Account(k[2]) \in gone => k \in gone
    BY <1>4, <2>1, CascadeIs DEF Own
  <2> QED  BY <1>8, <2>3, <2>4
<1> HIDE DEF gone, r
<1>9. ASSUME NEW k \in DOMAIN db', k[1] = "values"
      PROVE  Recorded(db', k)
  <2>1. "values" \in Loud /\ "values_history" \in Loud
    BY DEF Loud
  <2>2. \A g \in DOMAIN db' : g[1] = "values_history" =>
            IF g \in DOMAIN r.writes THEN db'[g] = r.writes[g]
            ELSE g \in DOMAIN db /\ g \notin gone /\ db'[g] = db[g]
    BY <1>6, <2>1
  <2>3. CASE k \in DOMAIN r.writes
    <3>1. db'[k] = r.writes[k]
      BY <1>6, <1>9, <2>1, <2>3
    <3>2. PICK h \in DOMAIN r.writes : Latest(r.writes, h, k[2]) /\ Same(r.writes[h], r.writes[k])
      BY <1>5, <1>9, <2>3 DEF Records, Recorded
    <3>3. h[1] = "values_history" /\ r.writes[h].user_id = k[2]
      BY <3>2 DEF Latest
    <3>4. h \in DOMAIN db' /\ db'[h] = r.writes[h]
      BY <1>6, <2>2, <3>3
    <3>5. ASSUME NEW g \in DOMAIN db', g[1] = "values_history", db'[g].user_id = k[2]
          PROVE  g[2] <= h[2]
      <4>1. CASE g \in DOMAIN r.writes
        BY <2>2, <3>2, <3>5, <4>1 DEF Latest
      <4>2. CASE g \notin DOMAIN r.writes
        <5>1. g \in DOMAIN db
          BY <2>2, <3>5, <4>2
        <5>2. g[2] < h[2]
          BY <1>5, <3>3, <3>5, <5>1 DEF Records, Of
        <5>3. g[2] \in Nat /\ h[2] \in Nat
          <6>1. g \in Keys /\ h \in Keys
            BY <1>4, <5>1 DEF DbFits, RequestFits, WriteFits, RowFits
          <6>2. g[2] \in Numbers /\ h[2] \in Numbers
            BY <3>3, <3>5, <6>1, KeysAre DEF Serials
          <6>3. \A n \in Numbers : n \in Nat
            BY FamilyAssumption DEF Numbers
          <6> QED  BY <6>2, <6>3
        <5> QED  BY <5>2, <5>3
      <4> QED  BY <4>1, <4>2
    <3>6. Latest(db', h, k[2])
      BY <3>3, <3>4, <3>5 DEF Latest
    <3> QED  BY <3>1, <3>2, <3>4, <3>6 DEF Recorded
  <2>4. CASE k \notin DOMAIN r.writes
    <3>1. k \in DOMAIN db /\ k \notin gone /\ db'[k] = db[k]
      BY <1>6, <1>9, <2>1, <2>4
    <3>2. PICK h \in DOMAIN db : Latest(db, h, k[2]) /\ Same(db[h], db[k])
      BY <1>5, <1>9, <3>1 DEF Recorded, Of
    <3>3. h[1] = "values_history" /\ db[h].user_id = k[2]
      BY <3>2 DEF Latest
    <3>4. h \notin gone /\ h \in DOMAIN db'
      BY <1>6, <1>8, <1>9, <2>1, <3>1, <3>3
    <3>5. h \notin DOMAIN r.writes
      <4>1. ASSUME h \in DOMAIN r.writes PROVE FALSE
        <5>1. h[2] < h[2]
          BY <1>5, <3>3, <4>1 DEF Records, Of
        <5>2. h[2] \in Nat
          <6>1. h \in Keys
            BY <1>4 DEF DbFits, RowFits
          <6>2. h[2] \in Numbers
            BY <3>3, <6>1, KeysAre DEF Serials
          <6> QED  BY <6>2, FamilyAssumption DEF Numbers
        <5> QED  BY <5>1, <5>2
      <4> QED  BY <4>1
    <3>6. db'[h] = db[h]
      BY <2>2, <3>3, <3>4, <3>5
    <3>7. ASSUME NEW g \in DOMAIN db', g[1] = "values_history", db'[g].user_id = k[2]
          PROVE  g[2] <= h[2]
      <4>1. g \notin DOMAIN r.writes
        <5>1. ASSUME g \in DOMAIN r.writes PROVE FALSE
          <6>1. r.writes[g].user_id = k[2]
            BY <2>2, <3>7, <5>1
          <6>2. Values(k[2]) \in DOMAIN r.writes
            BY <1>5, <3>7, <5>1, <6>1 DEF Records
          <6>3. k = Values(k[2])
            <7>1. k \in Keys
              BY <1>4, <3>1 DEF DbFits, RowFits
            <7> QED  BY <1>9, <7>1, KeysAre DEF Values, Serials
          <6> QED  BY <2>4, <6>2, <6>3
        <5> QED  BY <5>1
      <4>2. g \in DOMAIN db /\ db'[g] = db[g]
        BY <2>2, <3>7, <4>1
      <4> QED  BY <3>2, <3>7, <4>2 DEF Latest
    <3>8. Latest(db', h, k[2])
      BY <3>3, <3>6, <3>7 DEF Latest
    <3> QED  BY <3>1, <3>2, <3>4, <3>6, <3>8 DEF Recorded
  <2> QED  BY <2>3, <2>4
<1>10. (\A k \in Of("values") : Recorded(db, k))'
  <2>1. \A k \in DOMAIN db' : k[1] = "values" => Recorded(db', k)
    BY <1>9
  <2> QED  BY <2>1 DEF Of, Recorded, Latest, Same
<1> QED  BY <1>2, <1>3, <1>7, <1>10

LEMMA SerialRolledBack ==
    ASSUME FamilySerialInv, NEW w \in Workers, RolledBack(w)
    PROVE  FamilySerialInv'
<1>1. /\ db' = db /\ mix' = mix
      /\ req' = [req EXCEPT ![w] = NoRequest] /\ req[w] # NoRequest
    BY DEF RolledBack
<1>2. ASSUME mix.serial
      PROVE  /\ (DOMAIN req = Workers)' /\ OneAtATime'
             /\ \A v \in Workers : req'[v] = NoRequest
    BY <1>1, <1>2, SerialEnd
<1>3. ASSUME mix.serial, NEW v \in Workers
      PROVE  /\ UpToDate(req[v])'
             /\ (\A k \in DOMAIN req[v].writes : Sound(k, req[v].writes[k]))'
             /\ Records(req[v].writes)'
  <2>1. DOMAIN req'[v].reads = {} /\ DOMAIN req'[v].writes = {}
    BY <1>2, <1>3, NothingIs DEF NoRequest
  <2> QED  BY <2>1 DEF UpToDate, Records
<1>4. mix.serial => /\ (\A k \in DOMAIN db : Sound(k, db[k]))'
                    /\ (\A k \in Of("values") : Recorded(db, k))'
    BY <1>1 DEF FamilySerialInv, Of, Sound, Recorded, Latest, Same
<1> QED  BY <1>1, <1>2, <1>3, <1>4 DEF FamilySerialInv

-----------------------------------------------------------------------------
(* The operations that write none of these.                                *)

LEMMA ConsentingSerial ==
    ASSUME FamilyInv, FamilySerialInv, NEW w \in Workers, NEW u \in Guardians, Consenting(w, u)
    PROVE  FamilySerialInv'
<1>1. Account(u)[1] \notin Loud /\ \A t : Agreement(u, t)[1] \notin Loud
    BY DEF Account, Agreement, Loud
<1> DEFINE a == Account(u)
           user == [db[a] EXCEPT !.onboarding = IF @ = "PENDING" THEN "TERMS_AGREED" ELSE @]
           done == [db[a] EXCEPT !.onboarding = "COMPLETED"]
           revoked(t) == [db[Agreement(u, t)] EXCEPT !.revoked = TRUE]
<1>2. ASSUME NEW answer \in Answered, submit_agreements(w, u, answer)
      PROVE  FamilySerialInv'
  <2>1. Start(w, "submit_agreements", With(_store_agreements(u, answer), Row(a, user)), {})
    BY <1>2 DEF submit_agreements
  <2> HIDE DEF user, a
  <2>2. Quiet(_store_agreements(u, answer))
    BY <1>1 DEF Quiet, _store_agreements
  <2>3. Quiet(Row(a, user))
    BY <1>1, QuietRow DEF a
  <2> QED  BY <2>1, <2>2, <2>3, QuietWith, QuietStart
<1>3. ASSUME NEW t \in TermsType, revoke_agreement(w, u, t)
      PROVE  FamilySerialInv'
  <2>1. Start(w, "revoke_agreement", Row(Agreement(u, t), revoked(t)), {})
    BY <1>3 DEF revoke_agreement
  <2> HIDE DEF revoked
  <2> QED  BY <1>1, <2>1, QuietRow, QuietStart
<1>4. ASSUME advance_onboarding(w, u)
      PROVE  FamilySerialInv'
  <2>1. Start(w, "complete_onboarding", Row(a, done), {})
    BY <1>4 DEF advance_onboarding
  <2> HIDE DEF done
  <2> QED  BY <1>1, <2>1, QuietRow, QuietStart
<1> QED  BY <1>2, <1>3, <1>4 DEF Consenting

LEMMA ParentingSerial ==
    ASSUME FamilyInv, FamilySerialInv, NEW w \in Workers, NEW u \in Guardians, Parenting(w, u)
    PROVE  FamilySerialInv'
<1>1. ASSUME NEW child, NEW action PROVE Quiet(log(u, child, action))
  <2> DEFINE entry == [refs |-> Own(u) \cup {child}, actor |-> u, action |-> action]
  <2>1. log(u, child, action) = Row(NewKey("access_log"), entry)
    BY DEF log
  <2> HIDE DEF entry
  <2>2. NewKey("access_log")[1] \notin Loud
    BY NewKeyIs DEF Loud
  <2> QED  BY <2>1, <2>2, QuietRow
<1>2. ASSUME NEW months_old \in Months, NEW has \in Infos, create_child(w, u, months_old, has)
      PROVE  FamilySerialInv'
  <2> DEFINE child == NewKey("child")
             s == <<"sensitive", child[2]>>
             info == [refs |-> {child}, has |-> has]
             sensitive == IF has = {} THEN Nothing ELSE Row(s, info)
             row == [refs |-> Own(u), user_id |-> u, months_old |-> months_old]
  <2>1. Start(w, "create_child", With(Row(child, row), With(sensitive, log(u, child, "EDIT"))), {})
    BY <1>2 DEF create_child
  <2>2. child[1] \notin Loud /\ s[1] \notin Loud
    BY NewKeyIs DEF Loud
  <2> HIDE DEF child, s, info, row
  <2>3. Quiet(sensitive)
    BY <2>2, QuietRow, QuietNothing
  <2> HIDE DEF sensitive
  <2>4. Quiet(Row(child, row))
    BY <2>2, QuietRow
  <2>5. Quiet(With(sensitive, log(u, child, "EDIT")))
    BY <1>1, <2>3, QuietWith
  <2> QED  BY <2>1, <2>4, <2>5, QuietWith, QuietStart
<1>3. ASSUME NEW child, get_child(w, u, child)
      PROVE  FamilySerialInv'
  <2>1. Start(w, "get_child", log(u, child, "VIEW"), {})
    BY <1>3 DEF get_child
  <2> QED  BY <1>1, <2>1, QuietStart
<1>4. ASSUME NEW child, delete_child(w, u, child)
      PROVE  FamilySerialInv'
  <2>1. Start(w, "delete_child", Nothing, {child})
    BY <1>4 DEF delete_child
  <2> QED  BY <2>1, QuietNothing, QuietStart
<1> QED  BY <1>2, <1>3, <1>4 DEF Parenting

LEMMA UpsertProfileSerial ==
    ASSUME FamilyInv, FamilySerialInv, NEW w \in Workers, NEW u \in Guardians,
           NEW residence_h3, NEW tags, upsert_profile(w, u, residence_h3, tags)
    PROVE  FamilySerialInv'
<1> DEFINE row == [refs |-> Own(u), residence_h3 |-> residence_h3]
           profile == <<"profile", u>>
           deletes == {"tag"} \X {u} \X Tags
<1>1. Start(w, "upsert_profile", With(replace_tags(u, tags), Row(profile, row)), deletes)
    BY DEF upsert_profile
<1>2. Quiet(replace_tags(u, tags))
    BY DEF replace_tags, Quiet, Loud
<1>3. profile[1] \notin Loud
    BY DEF Loud
<1> HIDE DEF row, deletes, profile
<1> QED  BY <1>1, <1>2, <1>3, QuietRow, QuietWith, QuietStart

LEMMA FindCandidatesSerial ==
    ASSUME FamilyInv, FamilySerialInv, NEW w \in Workers, NEW u \in Guardians, NEW d \in Days,
           find_candidates(w, u, d)
    PROVE  FamilySerialInv'
<1> DEFINE shown == Candidates(u)
           score == [v \in shown |-> MatchCandidate(u, v, d).total_score]
           place(v) == 1 + Cardinality(Before(shown, score, v))
           key(v) == <<"event", last["event"] + place(v)>>
           event(v) == [refs |-> Own(u), target |-> v, total_score |-> score[v]]
           writes == [k \in {key(v) : v \in shown} |-> event(CHOOSE v \in shown : key(v) = k)]
<1>1. Start(w, "find_candidates", writes, {})
    BY DEF find_candidates
<1> HIDE DEF shown, score, place, event
<1>2. \A k \in DOMAIN writes : k[1] = "event"
    OBVIOUS
<1> HIDE DEF writes
<1>3. Quiet(writes)
    BY <1>2 DEF Quiet, Loud
<1> QED  BY <1>1, <1>3, QuietStart

LEMMA TalkingSerial ==
    ASSUME FamilyInv, FamilySerialInv, NEW w \in Workers, NEW u \in Guardians, Talking(w, u)
    PROVE  FamilySerialInv'
<1> DEFINE message == NewKey("message")
           text(content) == [refs |-> Own(u) \cup {<<"relationship">>},
                             content |-> mask_pii(content),
                             pii_masked |-> mask_pii(content) # content]
           notice == <<"notification", u>>
           read == [db[notice] EXCEPT !.read = TRUE]
           gone == [db[Account(u)] EXCEPT !.is_active = FALSE]
<1>1. message[1] \notin Loud /\ notice[1] \notin Loud /\ Account(u)[1] \notin Loud
    BY NewKeyIs DEF Loud, Account
<1>2. ASSUME NEW content, send_message(w, u, content)
      PROVE  FamilySerialInv'
  <2>1. Start(w, "send_message", Row(message, text(content)), {})
    BY <1>2 DEF send_message
  <2> HIDE DEF message, text
  <2> QED  BY <1>1, <2>1, QuietRow, QuietStart
<1>3. ASSUME mark_read(w, u)
      PROVE  FamilySerialInv'
  <2>1. Start(w, "mark_read", Row(notice, read), {})
    BY <1>3 DEF mark_read
  <2> HIDE DEF notice, read
  <2> QED  BY <1>1, <2>1, QuietRow, QuietStart
<1>4. ASSUME withdraw(w, u)
      PROVE  FamilySerialInv'
  <2>1. Start(w, "withdraw", Row(Account(u), gone), {})
    BY <1>4 DEF withdraw
  <2> HIDE DEF gone
  <2> QED  BY <1>1, <2>1, QuietRow, QuietStart
<1> QED  BY <1>2, <1>3, <1>4 DEF Talking

LEMMA AfterCareSerial ==
    ASSUME FamilyInv, FamilySerialInv, NEW w \in Workers, NEW u \in Guardians, NEW s
    PROVE  /\ \A note : upsert_log(w, u, s, note) => FamilySerialInv'
           /\ \A rating : submit_evaluation(w, u, s, rating) => FamilySerialInv'
<1> DEFINE care == <<"care_log", s>>
           said(note) == [refs |-> {Session(s)}, allergy_note |-> note]
           evaluation == <<"evaluation", s, u>>
           other == IF u = db[Session(s)].requester THEN db[Session(s)].provider
                    ELSE db[Session(s)].requester
           rated(rating) == [refs |-> {Session(s)} \cup Own(u) \cup Own(other),
                             evaluatee |-> other, rating |-> rating]
<1>1. care[1] \notin Loud /\ evaluation[1] \notin Loud
    BY DEF Loud
<1>2. ASSUME NEW note, upsert_log(w, u, s, note)
      PROVE  FamilySerialInv'
  <2>1. Start(w, "upsert_log", Row(care, said(note)), {})
    BY <1>2 DEF upsert_log
  <2> HIDE DEF care, said
  <2> QED  BY <1>1, <2>1, QuietRow, QuietStart
<1>3. ASSUME NEW rating, submit_evaluation(w, u, s, rating)
      PROVE  FamilySerialInv'
  <2>1. Start(w, "submit_evaluation", Row(evaluation, rated(rating)), {})
    BY <1>3 DEF submit_evaluation
  <2> HIDE DEF evaluation, rated
  <2> QED  BY <1>1, <2>1, QuietRow, QuietStart
<1> QED  BY <1>2, <1>3

LEMMA PurgeSerial ==
    ASSUME FamilyInv, FamilySerialInv, NEW w \in Workers, purge_deactivated(w)
    PROVE  FamilySerialInv'
<1>1. PICK S : Start(w, "purge", Nothing, S)
    BY DEF purge_deactivated
<1> QED  BY <1>1, QuietNothing, QuietStart

-----------------------------------------------------------------------------
(* Parenting values: the entry comes after those there are.                *)

LEMMA ValuesSerial ==
    ASSUME FamilyInv, FamilySerialInv, NEW w \in Workers, NEW u, NEW op,
           NEW row, mix.serial => row.type_label = classify_type(row.warmth, row.control),
           NEW said, Same(said, row), NEW source,
           Start(w, op, With(Row(Values(u), row), add_history(u, said, source)), {})
    PROVE  FamilySerialInv'
<1> DEFINE v == Values(u)
           h == NewKey("values_history")
           entry == HistoryRow(u, said, source)
           writes == With(Row(v, row), Row(h, entry))
<1>1. Start(w, op, writes, {})
    BY DEF add_history
<1>2. v[1] = "values" /\ v[2] = u
    BY DEF Values
<1>3. h[1] = "values_history" /\ h[2] = last["values_history"] + 1
    BY NewKeyIs
<1>4. entry.user_id = u /\ Same(entry, row)
    BY DEF HistoryRow, Same
<1> HIDE DEF h, entry
<1>5. DOMAIN writes = {v, h} /\ writes[v] = row /\ writes[h] = entry
  <2> HIDE DEF v
  <2>1. v # h
    BY <1>2, <1>3
  <2> QED  BY <2>1 DEF With, Row
<1>6. v = Values(u)
    OBVIOUS
<1> HIDE DEF writes, v
<1>7. mix.serial => \A k \in DOMAIN writes : Sound(k, writes[k])
    BY <1>2, <1>3, <1>5 DEF Sound
<1>8. \A k \in DOMAIN writes : k[1] = "values" => Recorded(writes, k)
  <2>1. \A g \in DOMAIN writes : g[1] = "values_history" => g = h
    BY <1>2, <1>5
  <2>2. h[2] <= h[2]
    BY <1>3 DEF FamilyInv, NumbersFit, Serials
  <2>3. Latest(writes, h, u)
    BY <1>3, <1>4, <1>5, <2>1, <2>2 DEF Latest
  <2>4. Recorded(writes, v)
    BY <1>2, <1>4, <1>5, <2>3 DEF Recorded
  <2> QED  BY <1>3, <1>5, <2>4
<1>9. \A g \in Of("values_history") : g[2] < h[2]
  <2> SUFFICES ASSUME NEW g \in DOMAIN db, g[1] = "values_history" PROVE g[2] < h[2]
    BY DEF Of
  <2>1. g \in Keys /\ g[2] <= last["values_history"]
    BY DEF FamilyInv, DbFits, RowFits, NumberFits, Serials
  <2>2. g[2] \in Numbers
    BY <2>1, KeysAre DEF Serials
  <2>3. g[2] \in Nat
    BY <2>2, FamilyAssumption DEF Numbers
  <2>4. last["values_history"] \in Nat
    BY DEF FamilyInv, NumbersFit, Serials
  <2> QED  BY <1>3, <2>1, <2>3, <2>4
<1>10. Records(writes)
    BY <1>2, <1>4, <1>5, <1>6, <1>8, <1>9 DEF Records
<1> QED  BY <1>1, <1>7, <1>10, SerialStart

LEMMA QuestionnaireSerial ==
    ASSUME FamilyInv, FamilySerialInv, NEW w \in Workers, NEW u \in Guardians, NEW answers,
           submit_questionnaire(w, u, answers)
    PROVE  FamilySerialInv'
<1> DEFINE narrative == Existing(Values(u)) /\ db[Values(u)].narrative
           row == Diagnosed(u, _score_answers(answers), narrative)
<1>1. Start(w, "submit_questionnaire",
            With(Row(Values(u), row), add_history(u, row, "QUESTIONNAIRE")), {})
    BY DEF submit_questionnaire
<1>2. row.type_label = classify_type(row.warmth, row.control)
    BY DEF Diagnosed
<1> HIDE DEF row
<1>3. Same(row, row)
    BY DEF Same
<1> QED  BY <1>1, <1>2, <1>3, ValuesSerial

LEMMA NarrativeSerial ==
    ASSUME FamilyInv, FamilySerialInv, NEW w \in Workers, NEW u \in Guardians,
           submit_narrative(w, u)
    PROVE  FamilySerialInv'
<1> DEFINE v == Values(u)
           row == [db[v] EXCEPT !.narrative = TRUE]
<1>1. /\ Start(w, "submit_narrative", With(Row(v, row), add_history(u, db[v], "NARRATIVE")), {})
      /\ v \in DOMAIN db
    BY DEF submit_narrative, Existing
<1>2. v[1] = "values" /\ v[2] = u
    BY DEF Values
<1>3. db[v] \in ParentingValuesProfile
    BY <1>1, <1>2, OwnRowRead, TablesAre
<1>4. Same(db[v], row)
    BY <1>3 DEF ParentingValuesProfile, Same
<1>5. mix.serial => db[v].type_label = classify_type(db[v].warmth, db[v].control)
    BY <1>1, <1>2 DEF FamilySerialInv, Sound
<1>6. mix.serial => row.type_label = classify_type(row.warmth, row.control)
    BY <1>4, <1>5 DEF Same
<1> HIDE DEF row
<1> QED  BY <1>1, <1>4, <1>6, ValuesSerial

-----------------------------------------------------------------------------
(* Shifts: the next date only loses slots.                                 *)

LEMMA RegisterShiftSerial ==
    ASSUME FamilyInv, FamilySerialInv, NEW w \in Workers, NEW u \in Guardians, NEW d \in Days,
           NEW template \in ShiftTemplate, register_shift(w, u, d, template)
    PROVE  FamilySerialInv'
<1> DEFINE masks == template_masks(template)
           today == [_get_or_create(u, d) EXCEPT !.slot_bitmask = masks[1],
                                                 !.shift_template = template]
           next == _get_or_create(u, d + 1)
           both == masks[2] # FULL_AVAILABLE_MASK
           cut == [next EXCEPT !.slot_bitmask = NextMask(next, masks[2])]
           k == Shift(u, d)
           n == Shift(u, d + 1)
           rest == IF both THEN Row(n, cut) ELSE Nothing
           writes == With(Row(k, today), rest)
<1>1. Start(w, "register_shift", writes, {}) /\ (both => d + 1 \in Days)
    BY DEF register_shift
<1>2. k[1] = "schedule" /\ n[1] = "schedule"
    BY DEF Shift
<1>3. today.slot_bitmask = masks[1] /\ today.shift_template = template
  <2>1. _get_or_create(u, d) \in WorkSchedule
    BY ShiftRowIs
  <2> HIDE DEF masks
  <2> QED  BY <2>1 DEF WorkSchedule
<1>4. mix.serial => Sound(k, today)
    BY <1>2, <1>3 DEF Sound
<1>5. ASSUME both, mix.serial
      PROVE  Sound(n, cut)
  <2>1. d + 1 \in Days
    BY <1>1, <1>5
  <2>2. next \in WorkSchedule
    BY <2>1, ShiftRowIs
  <2>3. next.slot_bitmask \subseteq template_masks(next.shift_template)[1]
    <3>1. CASE n \in DOMAIN db
      <4>1. next = db[n]
        BY <3>1 DEF _get_or_create, Existing
      <4> QED  BY <1>2, <1>5, <3>1, <4>1 DEF FamilySerialInv, Sound
    <3>2. CASE n \notin DOMAIN db
      <4>1. next.slot_bitmask = FULL_AVAILABLE_MASK /\ next.shift_template = "OFF"
        BY <3>2 DEF _get_or_create, Existing
      <4>2. template_masks("OFF")[1] = FULL_AVAILABLE_MASK
        BY DEF template_masks
      <4> QED  BY <4>1, <4>2
    <3> QED  BY <3>1, <3>2
  <2> HIDE DEF next, masks, n
  <2>4. cut.slot_bitmask = NextMask(next, masks[2]) /\ cut.shift_template = next.shift_template
    BY <2>2 DEF WorkSchedule
  <2> HIDE DEF cut
  <2>5. cut.slot_bitmask \subseteq next.slot_bitmask
    BY <2>4 DEF NextMask
  <2>6. cut.slot_bitmask \subseteq template_masks(cut.shift_template)[1]
    BY <2>3, <2>4, <2>5
  <2> QED  BY <1>2, <2>6 DEF Sound
<1> HIDE DEF today, cut, k, n
<1>6. /\ DOMAIN rest \subseteq {n}
      /\ \A m \in DOMAIN rest : both /\ rest[m] = cut
  <2>1. CASE both
    BY <2>1 DEF Row
  <2>2. CASE ~both
    BY <2>2, NothingIs
  <2> QED  BY <2>1, <2>2
<1> HIDE DEF rest
<1>7. /\ DOMAIN writes \subseteq {k, n}
      /\ \A m \in DOMAIN writes : \/ writes[m] = today /\ m = k
                                  \/ writes[m] = cut /\ m = n /\ both
  <2> DEFINE first == Row(k, today)
  <2>1. DOMAIN first = {k} /\ first[k] = today
    BY RowIs
  <2>2. writes = With(first, rest)
    OBVIOUS
  <2> HIDE DEF first, writes
  <2>3. /\ DOMAIN writes = DOMAIN first \cup DOMAIN rest
        /\ \A m \in DOMAIN writes : writes[m] = IF m \in DOMAIN first THEN first[m] ELSE rest[m]
    BY <2>2 DEF With
  <2> QED  BY <1>6, <2>1, <2>3
<1> HIDE DEF writes, both
<1>8. mix.serial => \A m \in DOMAIN writes : Sound(m, writes[m])
    BY <1>4, <1>5, <1>7
<1>9. Records(writes)
    BY <1>2, <1>7 DEF Records
<1> QED  BY <1>1, <1>8, <1>9, SerialStart

-----------------------------------------------------------------------------
(* Weights: those stored sum to one.                                       *)

LEMMA GetOrCreateSerial ==
    ASSUME FamilyInv, FamilySerialInv, NEW w \in Workers, get_or_create(w)
    PROVE  FamilySerialInv'
<1> DEFINE k == <<"weights">>
           row == WeightsRow(DEFAULT_WEIGHTS)
           writes == Row(k, row)
<1>1. Start(w, "get_or_create", writes, {})
    BY DEF get_or_create
<1>2. row.w1 + row.w2 + row.w3 + row.w4 = 100
    BY DEF WeightsRow, DEFAULT_WEIGHTS
<1>3. k[1] = "weights"
    OBVIOUS
<1> HIDE DEF k, row
<1>4. DOMAIN writes = {k} /\ writes[k] = row
    BY RowIs
<1> HIDE DEF writes
<1>5. \A n \in DOMAIN writes : Sound(n, writes[n])
    BY <1>2, <1>3, <1>4 DEF Sound
<1>6. Records(writes)
    BY <1>3, <1>4 DEF Records
<1> QED  BY <1>1, <1>5, <1>6, SerialStart

LEMMA UpdateWeightsSerial ==
    ASSUME FamilyInv, FamilySerialInv, NEW w \in Workers, NEW u \in Guardians, NEW ws,
           update_weights(w, u, ws)
    PROVE  FamilySerialInv'
<1> DEFINE k == <<"weights">>
           h == NewKey("weights_history")
           row == WeightsRow(ws)
           entry == [db[k] EXCEPT !.refs = Own(u)]
           writes == With(Row(k, row), Row(h, entry))
<1>1. Start(w, "update_weights", writes, {})
    BY DEF update_weights
<1>2. k[1] = "weights"
    OBVIOUS
<1>3. h[1] = "weights_history"
    BY NewKeyIs
<1>4. row.w1 + row.w2 + row.w3 + row.w4 = 100
    BY DEF update_weights, SumsToOne, WeightsRow
<1> HIDE DEF row, k, h, entry
<1>5. DOMAIN writes = {k, h} /\ writes[k] = row
    BY DEF With, Row
<1> HIDE DEF writes
<1>6. \A n \in DOMAIN writes : Sound(n, writes[n])
    BY <1>2, <1>3, <1>4, <1>5 DEF Sound
<1>7. Records(writes)
    BY <1>2, <1>3, <1>5 DEF Records
<1> QED  BY <1>1, <1>6, <1>7, SerialStart

-----------------------------------------------------------------------------
(* At first: a profile with values, and one entry of its history.          *)

LEMMA SerialAtFirst ==
    ASSUME Init
    PROVE  FamilySerialInv
<1> DEFINE care == IF mix.past = <<>> THEN Nothing ELSE CareLeft(mix.past)
           A == AccountsLeft(mix)
           S == SignupTerms(mix)
<1>1. mix \in Mixes /\ req = [w \in Workers |-> NoRequest]
    BY DEF Init
<1>2. PICK home \in [mix.settled -> [cell : Cells, answers : Answers]] :
          db = With(A, With(S, With(ProfilesLeft(home), care)))
    BY DEF Init
<1> DEFINE P == ProfilesLeft(home)
           said(u) == Diagnosed(u, _score_answers(home[u].answers), FALSE)
<1>3. \A k \in DOMAIN care : k[1] \notin Loud
  <2>1. \A k \in DOMAIN care : mix.past # <<>> /\ k \in CareKeys(mix.past)
    BY NothingIs DEF CareLeft
  <2> HIDE DEF care
  <2> QED  BY <1>1, <2>1, CareKeysAre DEF Loud
<1>4. \A k \in DOMAIN A : k[1] \notin Loud
    BY <1>1, AccountsLeftFit DEF Loud
<1>5. \A k \in DOMAIN S : k[1] \notin Loud
    BY <1>1, SignupTermsFit DEF Loud
<1>6. /\ \A k \in DOMAIN P : k[1] \in {"profile", "values", "values_history", "tag"}
      /\ \A k \in DOMAIN P : k[1] \in {"values", "values_history"} =>
             k[2] \in mix.settled /\ k = <<k[1], k[2]>>
      /\ \A u \in mix.settled : <<"values_history", u>> \in DOMAIN P
      /\ \A k \in DOMAIN P : k[1] = "values" => P[k] = said(k[2])
      /\ \A k \in DOMAIN P : k[1] = "values_history" =>
             P[k] = HistoryRow(k[2], said(k[2]), "QUESTIONNAIRE")
  <2>1. DOMAIN home = mix.settled
    OBVIOUS
  <2>2. DOMAIN P = ({"profile", "values", "values_history"} \X mix.settled)
                       \cup ({"tag"} \X mix.settled \X Tags)
    BY <2>1 DEF ProfilesLeft
  <2>3. \A k \in DOMAIN P : /\ k[1] = "values" => P[k] = said(k[2])
                            /\ k[1] = "values_history" =>
                                   P[k] = HistoryRow(k[2], said(k[2]), "QUESTIONNAIRE")
    BY DEF ProfilesLeft
  <2> HIDE DEF P, said
  <2> QED  BY <2>2, <2>3
<1> HIDE DEF care, A, S, P
<1>7. /\ DOMAIN db = DOMAIN A \cup DOMAIN S \cup DOMAIN P \cup DOMAIN care
      /\ \A k \in DOMAIN db : \/ k \in DOMAIN A /\ db[k] = A[k]
                              \/ k \in DOMAIN S /\ db[k] = S[k]
                              \/ k \in DOMAIN P /\ db[k] = P[k]
                              \/ k \in DOMAIN care /\ db[k] = care[k]
  <2> DEFINE PC == With(P, care)
             SPC == With(S, PC)
  <2>1. db = With(A, SPC)
    BY <1>2 DEF P
  <2>2. /\ DOMAIN PC = DOMAIN P \cup DOMAIN care
        /\ \A k \in DOMAIN PC : PC[k] = IF k \in DOMAIN P THEN P[k] ELSE care[k]
    BY DEF With
  <2> HIDE DEF PC
  <2>3. /\ DOMAIN SPC = DOMAIN S \cup DOMAIN PC
        /\ \A k \in DOMAIN SPC : SPC[k] = IF k \in DOMAIN S THEN S[k] ELSE PC[k]
    BY DEF With
  <2> HIDE DEF SPC
  <2>4. /\ DOMAIN db = DOMAIN A \cup DOMAIN SPC
        /\ \A k \in DOMAIN db : db[k] = IF k \in DOMAIN A THEN A[k] ELSE SPC[k]
    BY <2>1 DEF With
  <2> QED  BY <2>2, <2>3, <2>4
<1>8. ASSUME NEW k \in DOMAIN db, k[1] \in Loud
      PROVE  /\ k \in DOMAIN P /\ db[k] = P[k] /\ k[1] \in {"values", "values_history"}
             /\ k[2] \in mix.settled
    BY <1>3, <1>4, <1>5, <1>6, <1>7, <1>8 DEF Loud
<1>9. ASSUME NEW u PROVE said(u).type_label = classify_type(said(u).warmth, said(u).control)
    BY DEF Diagnosed
<1>10. ASSUME NEW u
       PROVE  /\ HistoryRow(u, said(u), "QUESTIONNAIRE").user_id = u
              /\ Same(HistoryRow(u, said(u), "QUESTIONNAIRE"), said(u))
    BY DEF HistoryRow, Same
<1> HIDE DEF said
<1>11. "values" \in Loud /\ "values_history" \in Loud /\ "schedule" \in Loud /\ "weights" \in Loud
    BY DEF Loud
<1>12. ASSUME NEW k \in DOMAIN db PROVE Sound(k, db[k])
    BY <1>6, <1>8, <1>9, <1>11 DEF Sound
<1>13. ASSUME NEW k \in DOMAIN db, k[1] = "values" PROVE Recorded(db, k)
  <2> DEFINE u == k[2]
             h == <<"values_history", u>>
  <2>1. u \in mix.settled /\ db[k] = said(u)
    BY <1>6, <1>8, <1>11, <1>13
  <2>2. h[1] = "values_history" /\ h[2] = u /\ h \in DOMAIN P
    BY <1>6, <2>1
  <2> HIDE DEF h
  <2>3. h \in DOMAIN db /\ db[h] = HistoryRow(u, said(u), "QUESTIONNAIRE")
    BY <1>6, <1>7, <1>8, <1>11, <2>2
  <2>4. ASSUME NEW g \in DOMAIN db, g[1] = "values_history", db[g].user_id = u
        PROVE  g[2] <= h[2]
    <3>1. db[g].user_id = g[2]
      BY <1>6, <1>8, <1>10, <1>11, <2>4
    <3>2. u \in Nat
      BY <1>1, <2>1, SettledAre, FamilyAssumption
    <3> QED  BY <2>2, <2>4, <3>1, <3>2
  <2>5. Latest(db, h, u)
    BY <1>10, <2>2, <2>3, <2>4 DEF Latest
  <2>6. Same(db[h], db[k])
    BY <1>10, <2>1, <2>3
  <2> QED  BY <2>3, <2>5, <2>6 DEF Recorded
<1>14. /\ DOMAIN req = Workers
       /\ \A w \in Workers : req[w] = NoRequest
    BY <1>1
<1>15. ASSUME NEW w \in Workers
       PROVE  /\ UpToDate(req[w])
              /\ \A k \in DOMAIN req[w].writes : Sound(k, req[w].writes[k])
              /\ Records(req[w].writes)
  <2>1. DOMAIN req[w].reads = {} /\ DOMAIN req[w].writes = {}
    BY <1>14, NothingIs DEF NoRequest
  <2> QED  BY <2>1 DEF UpToDate, Records
<1> QED  BY <1>12, <1>13, <1>14, <1>15 DEF FamilySerialInv, OneAtATime, Of

-----------------------------------------------------------------------------
(* The theorems.                                                           *)

LEMMA StepKeepsSerial ==
    ASSUME FamilyInv, FamilySerialInv, [Next]_vars
    PROVE  FamilySerialInv'
<1>1. ASSUME NEW w \in Workers, NEW u \in Guardians, Describing(w, u)
      PROVE  FamilySerialInv'
    BY <1>1, UpsertProfileSerial, QuestionnaireSerial, NarrativeSerial, RegisterShiftSerial
       DEF Describing
<1>2. ASSUME NEW w \in Workers, NEW u \in Guardians, Judging(w, u)
      PROVE  FamilySerialInv'
    BY <1>2, UpdateWeightsSerial, FindCandidatesSerial, AfterCareSerial DEF Judging
<1>3. CASE Next
  <2> PICK w \in Workers :
          \/ \E u \in Guardians : \/ Consenting(w, u) \/ Parenting(w, u) \/ Describing(w, u)
                                  \/ Judging(w, u) \/ Talking(w, u)
          \/ get_or_create(w) \/ purge_deactivated(w) \/ Commit(w) \/ RolledBack(w)
    BY <1>3 DEF Next
  <2> QED  BY <1>1, <1>2, ConsentingSerial, ParentingSerial, TalkingSerial, GetOrCreateSerial,
              PurgeSerial, SerialCommit, SerialRolledBack
<1>4. CASE UNCHANGED vars
  <2>1. db' = db /\ last' = last /\ mix' = mix /\ req' = req
    BY <1>4 DEF vars
  <2> QED  BY <2>1 DEF FamilySerialInv, OneAtATime, Sound, Recorded, Latest, Same, Records,
                        UpToDate, Of
<1> QED  BY <1>3, <1>4

(* One request at a time: what it writes of shifts, values and weights is  *)
(* sound, what it has read is what the database says, and with the values  *)
(* it writes the entry that is last in their history.                      *)
THEOREM FamilySerialInvariantHolds == Spec => []FamilySerialInv
<1>1. Init => FamilySerialInv
    BY SerialAtFirst
<1>2. FamilyInv /\ FamilySerialInv /\ [Next]_vars => FamilySerialInv'
    BY StepKeepsSerial
<1> QED  BY <1>1, <1>2, FamilyInvariantHolds, PTL DEF Spec

(* Nobody is free in the slots of the shift registered for the date,       *)
(* whatever was registered for the dates around it since.                  *)
THEOREM ShiftsAreKept == Spec => []ShiftsKept
<1>1. FamilySerialInv => ShiftsKept
    BY DEF FamilySerialInv, Sound, ShiftsKept, Of
<1> QED  BY <1>1, FamilySerialInvariantHolds, PTL

(* The last entry of the history is what the profile says: the number of   *)
(* an entry is its own, so the last one is the one that was written with   *)
(* the values.                                                             *)
THEOREM HistoryIsFaithful == Spec => []HistoryFaithful
<1>1. FamilyInv /\ FamilySerialInv => HistoryFaithful
  <2> SUFFICES ASSUME FamilyInv, FamilySerialInv, mix.serial, NEW k \in Of("values")
               PROVE  LET own    == {h \in Of("values_history") : db[h].user_id = k[2]}
                          latest == db[CHOOSE h \in own : \A g \in own : g[2] <= h[2]]
                      IN  /\ own # {}
                          /\ <<latest.warmth, latest.control, latest.type_label>>
                                 = <<db[k].warmth, db[k].control, db[k].type_label>>
                          /\ db[k].type_label = classify_type(db[k].warmth, db[k].control)
    BY DEF HistoryFaithful
  <2> DEFINE own == {h \in Of("values_history") : db[h].user_id = k[2]}
             c == CHOOSE h \in own : \A g \in own : g[2] <= h[2]
  <2>1. k \in DOMAIN db /\ k[1] = "values"
    BY DEF Of
  <2>2. PICK h \in DOMAIN db : Latest(db, h, k[2]) /\ Same(db[h], db[k])
    BY DEF FamilySerialInv, Recorded
  <2>3. h \in own /\ \A g \in own : g[2] <= h[2]
    BY <2>2 DEF Latest, Of
  <2>4. c \in own /\ \A g \in own : g[2] <= c[2]
    BY <2>3
  <2>5. ASSUME NEW g \in own PROVE g = <<"values_history", g[2]>> /\ g[2] \in Nat
    <3>1. g \in DOMAIN db /\ g[1] = "values_history"
      BY DEF Of
    <3>2. g \in Keys
      BY <3>1 DEF FamilyInv, DbFits, RowFits
    <3>3. g[2] \in Numbers /\ g = <<g[1], g[2]>>
      BY <3>1, <3>2, KeysAre DEF Serials
    <3> QED  BY <3>1, <3>3, FamilyAssumption DEF Numbers
  <2> HIDE DEF own, c
  <2>6. c[2] = h[2]
    BY <2>3, <2>4, <2>5
  <2>7. c = h
    BY <2>3, <2>4, <2>5, <2>6
  <2>8. Same(db[c], db[k])
    BY <2>2, <2>7
  <2>9. db[k].type_label = classify_type(db[k].warmth, db[k].control)
    BY <2>1 DEF FamilySerialInv, Sound
  <2> QED  BY <2>3, <2>8, <2>9 DEF Same, own, c
<1> QED  BY <1>1, FamilyInvariantHolds, FamilySerialInvariantHolds, PTL

(* The weights sum to one, and while none is negative every trust score    *)
(* and every score of a candidate is between nought and one.               *)
THEOREM ScoresStayInRange == Spec => []ScoresInRange
<1>1. FamilyInv /\ FamilySerialInv => ScoresInRange
  <2> SUFFICES ASSUME FamilyInv, FamilySerialInv, mix.serial, Existing(<<"weights">>)
               PROVE  LET ws == WeightsOf(db[<<"weights">>])
                      IN  /\ ws[1] + ws[2] + ws[3] + ws[4] = 100
                          /\ (\A i \in 1..4 : ws[i] >= 0) =>
                                 \A k \in Of("user") :
                                     /\ trust_score(k[2]) \in 0..100
                                     /\ Existing(<<"profile", k[2]>>) =>
                                            \A v \in Candidates(k[2]), d \in Days :
                                                MatchCandidate(k[2], v, d).total_score \in 0..100
    BY DEF ScoresInRange
  <2> DEFINE ws == WeightsOf(db[<<"weights">>])
  <2>1. ws[1] + ws[2] + ws[3] + ws[4] = 100
    <3> DEFINE k == <<"weights">>
    <3>1. k[1] = "weights" /\ k \in DOMAIN db
      BY DEF Existing
    <3>2. ws[1] = db[k].w1 /\ ws[2] = db[k].w2 /\ ws[3] = db[k].w3 /\ ws[4] = db[k].w4
      BY DEF WeightsOf
    <3> HIDE DEF k, ws
    <3> QED  BY <3>1, <3>2 DEF FamilySerialInv, Sound
  <2>2. ASSUME \A i \in 1..4 : ws[i] >= 0, NEW u \in Guardians
        PROVE  trust_score(u) \in 0..100
    BY <2>1, <2>2, TrustIs
  <2>3. ASSUME \A i \in 1..4 : ws[i] >= 0, NEW k \in Of("user")
        PROVE  /\ trust_score(k[2]) \in 0..100
               /\ Existing(<<"profile", k[2]>>) =>
                      \A v \in Candidates(k[2]), d \in Days :
                          MatchCandidate(k[2], v, d).total_score \in 0..100
    <3>1. k[2] \in Guardians
      <4>1. k \in Keys /\ k[1] = "user"
        BY DEF FamilyInv, DbFits, RowFits, Of
      <4> QED  BY <4>1, KeysAre DEF Serials
    <3>2. trust_score(k[2]) \in 0..100
      BY <2>2, <2>3, <3>1
    <3>3. ASSUME Existing(<<"profile", k[2]>>), NEW v \in Candidates(k[2]), NEW d \in Days
          PROVE  MatchCandidate(k[2], v, d).total_score \in 0..100
      <4>1. v \in Guardians
        BY DEF Candidates
      <4>2. trust_score(v) \in 0..100
        BY <2>2, <2>3, <4>1
      <4> QED  BY <3>1, <3>3, <4>2, ScoreIs
    <3> QED  BY <3>2, <3>3
  <2> QED  BY <2>1, <2>3
<1> QED  BY <1>1, FamilyInvariantHolds, FamilySerialInvariantHolds, PTL
=============================================================================
