------------------------ MODULE TrustSerialInvariant ------------------------
(***************************************************************************)
(* The inductive invariant of TrustLevel when requests come one at a time, *)
(* any of which may stop between two of its transactions: what the request *)
(* in flight has read is still so, the count of a pair is exact, and its   *)
(* history leads to its level.                                             *)
(***************************************************************************)
EXTENDS TrustInvariant

(* The first user without a count read has none in the database either, so *)
(* that get_or_create can insert it.                                       *)
NextIsMissing(r) == \A u \in Users : IsNextUnseen(r, u) => settings[u] = 0

SeenFits(r) == \A u \in Users : r.seen[u] # 0 => r.seen[u] = settings[u]

(* What a request has read before its first commit.                        *)
FirstFits(r) ==
    /\ r.op = "demote" => r.level \in {"L2", "L3"}
    /\ r.op = "confirm" => r.count = joint_session_count[r.pair]
    /\ r.completes => joint[r.joint].status # "COMPLETED" /\ NextIsMissing(r)

(* After its first commit the count is the one it has written.             *)
LaterFits(r) == r.completes => joint_session_count[r.pair] = r.count + 1

ReadFits(w) ==
    LET r == req[w]
    IN  /\ pc[w] = "idle" => r = NoRequest
        /\ SeenFits(r)
        /\ r.op \notin {"none", "set"} => r.level = level[r.pair]
        /\ pc[w] = "commit" => FirstFits(r)
        /\ pc[w] \in {"insert", "settings", "promote"} => LaterFits(r)
        /\ pc[w] = "insert" => NextIsMissing(r)
        /\ pc[w] = "promote" => AllSeen(r.pair, r.seen) /\ Promotes(r)

(* The level before entry i of history h.                                  *)
LevelBefore(h, i) == IF i = 1 THEN "L1" ELSE h[i - 1].new_level

Moves(entry) ==
    IF entry.by_admin THEN <<entry.new_level, entry.previous_level>> \in Up
                      ELSE <<entry.previous_level, entry.new_level>> \in Up

Chained(h) ==
    \A i \in DOMAIN h : h[i].previous_level = LevelBefore(h, i) /\ Moves(h[i])

HistoryFits(p) ==
    /\ Chained(history[p])
    /\ IF level[p] = "NONE" THEN history[p] = <<>>
       ELSE level[p] = LevelBefore(history[p], Len(history[p]) + 1)

OneAtATime == \A v, w \in Workers : pc[v] # "idle" /\ pc[w] # "idle" => v = w

TrustSerialInv ==
    /\ OneAtATime
    /\ \A w \in Workers : ReadFits(w)
    /\ CountExact
    /\ \A p \in Pairs : HistoryFits(p)
=============================================================================
