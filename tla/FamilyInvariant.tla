-------------------------- MODULE FamilyInvariant --------------------------
(***************************************************************************)
(* The inductive invariant of Family, of requests that overlap in any way: *)
(* what every row is like, in the database or in a request, and what a     *)
(* request in flight has read that nobody can take back.                   *)
(***************************************************************************)
EXTENDS Family

(* References lead from logs to sessions to children to accounts.          *)
Rank(k) == CASE k[1] = "user" -> 0
             [] k[1] \in {"child", "relationship"} -> 1
             [] k[1] = "session" -> 2
             [] OTHER -> 3

(* The tables some request updates; rows of the others are inserted and    *)
(* deleted only.                                                           *)
Updated == {"user", "agreement", "profile", "values", "schedule", "weights", "care_log",
            "notification"}

RefsFit(k, row) ==
    /\ \A r \in row.refs : Rank(r) < Rank(k)
    /\ k[1] \in {"agreement", "profile", "values", "schedule", "notification"} =>
           row.refs = Own(k[2])
    /\ k[1] \in {"child", "values_history"} => row.refs = Own(row.user_id)
    /\ k[1] = "sensitive" => row.refs = {<<"child", k[2]>>}
    /\ k[1] = "care_log" => row.refs = {Session(k[2])}
    /\ k[1] = "access_log" =>
           \E c \in Keys : c[1] = "child" /\ row.refs = Own(row.actor) \cup {c}
    /\ k[1] = "session" => /\ <<"child", row.child>> \in row.refs
                           /\ row.at_fault \in {0, row.requester, row.provider}

RowFits(k, row) ==
    /\ k \in Keys
    /\ row \in Table[k[1]]
    /\ RefsFit(k, row)
    /\ k[1] = "agreement" /\ k[3] \in REQUIRED_TYPES => row.agreed /\ ~row.revoked

NumberFits(k) == k[1] \in Serials => k[2] <= last[k[1]]

NumbersFit ==
    /\ last \in [Serials -> Nat]
    /\ \A t \in Serials : last[t] <= MaxRows[t]

OnTheWay(row) == row.onboarding \in {"TERMS_AGREED", "PROFILE_REQUIRED"}

(* The entry l of the access log says who has registered the child c.      *)
Registers(l, entry, c, child) ==
    l[1] = "access_log" /\ entry.actor = child.user_id /\ entry.action = "EDIT" /\ c \in entry.refs

(* The consent of u to a child is answered, unless u is gone.              *)
ConsentOf(u) == Existing(Account(u)) => Existing(Agreement(u, "guardian_consent"))

DbFits ==
    /\ \A k \in DOMAIN db :
          /\ RowFits(k, db[k]) /\ NumberFits(k)
          /\ Needs(db[k]) \ {Account(0)} \subseteq DOMAIN db
    /\ \A k \in Of("user") :
          OnTheWay(db[k]) => \A t \in REQUIRED_TYPES : Existing(Agreement(k[2], t))
    /\ \A c \in Of("child") :
          /\ Existing(Agreement(db[c].user_id, "guardian_consent"))
          /\ \E l \in DOMAIN db : Registers(l, db[l], c, db[c])

(* A row to update has been read, and belongs to whom it did.              *)
ReadFits(r, k) ==
    /\ k \in DOMAIN r.writes
    /\ k[1] \in Updated
    /\ RowFits(k, r.reads[k])
    /\ r.reads[k].refs = r.writes[k].refs
    /\ k[1] = "agreement" /\ Existing(Account(k[2])) => Existing(k)

WriteFits(r, k) ==
    LET row == r.writes[k]
    IN  /\ RowFits(k, row) /\ NumberFits(k)
        /\ k[1] = "user" =>
              /\ k \in DOMAIN r.reads
              /\ OnTheWay(row) /\ row.onboarding # r.reads[k].onboarding =>
                     \A t \in REQUIRED_TYPES : Agreement(k[2], t) \in DOMAIN r.writes
        /\ k[1] = "child" =>
              /\ ConsentOf(row.user_id)
              /\ \E l \in DOMAIN r.writes : Registers(l, r.writes[l], k, row)

RequestFits(r) ==
    /\ \A k \in DOMAIN r.reads : ReadFits(r, k)
    /\ \A k \in DOMAIN r.writes : WriteFits(r, k)
    /\ \A k \in r.deletes : k[1] \in {"user", "child", "tag"}
    /\ r.writes = Nothing \/ \A k \in r.deletes : k[1] = "tag"

FamilyInv ==
    /\ mix \in Mixes
    /\ NumbersFit
    /\ DbFits
    /\ \A w \in Workers : RequestFits(req[w])

-----------------------------------------------------------------------------
(* What holds beyond it of requests one at a time.                         *)

(* The slots are those of the shift, the type is that of the scores, the   *)
(* weights sum to one.                                                     *)
Sound(k, row) ==
    /\ k[1] = "schedule" => row.slot_bitmask \subseteq template_masks(row.shift_template)[1]
    /\ k[1] = "values" => row.type_label = classify_type(row.warmth, row.control)
    /\ k[1] = "weights" => row.w1 + row.w2 + row.w3 + row.w4 = 100

(* The last entry of the history of u among these rows.                    *)
Latest(rows, h, u) ==
    /\ h[1] = "values_history" /\ rows[h].user_id = u
    /\ \A g \in DOMAIN rows :
           g[1] = "values_history" /\ rows[g].user_id = u => g[2] <= h[2]

Same(entry, row) ==
    /\ entry.warmth = row.warmth /\ entry.control = row.control
    /\ entry.type_label = row.type_label

Recorded(rows, k) ==
    \E h \in DOMAIN rows : Latest(rows, h, k[2]) /\ Same(rows[h], rows[k])

(* Values and the next entry of their history are written together.        *)
Records(writes) ==
    /\ \A k \in DOMAIN writes : k[1] = "values" => Recorded(writes, k)
    /\ \A h \in DOMAIN writes :
           h[1] = "values_history" =>
               /\ Values(writes[h].user_id) \in DOMAIN writes
               /\ \A g \in Of("values_history") : g[2] < h[2]

(* What a request has read is what the database says.                      *)
UpToDate(r) ==
    /\ DOMAIN r.reads = (DOMAIN r.writes \cap DOMAIN db) \ r.deletes
    /\ \A k \in DOMAIN r.reads : r.reads[k] = db[k]

OneAtATime == \A v, w \in Workers : req[v] # NoRequest /\ req[w] # NoRequest => v = w

FamilySerialInv ==
    mix.serial =>
        /\ DOMAIN req = Workers /\ OneAtATime
        /\ \A k \in DOMAIN db : Sound(k, db[k])
        /\ \A k \in Of("values") : Recorded(db, k)
        /\ \A w \in Workers :
               /\ UpToDate(req[w])
               /\ \A k \in DOMAIN req[w].writes : Sound(k, req[w].writes[k])
               /\ Records(req[w].writes)
=============================================================================
