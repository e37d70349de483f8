------------------------------ MODULE CareBooks ------------------------------
(***************************************************************************)
(* The books of the point ledger: what the balances of CareSession have to *)
(* do with all the holds and all the entries of the ledger together.       *)
(***************************************************************************)
EXTENDS CareSerialInvariant

(* v[1] + ... + v[n]                                                       *)
SumTo(v, n) ==
    LET total[k \in 0..n] == IF k = 0 THEN 0 ELSE total[k - 1] + v[k]
    IN  total[n]

HeldFor(u, s) ==
    IF sessions[s].requester = u /\ holds[s].status = "HELD" THEN holds[s].amount ELSE 0

(* held_balance of a user is the sum of the holds that are still HELD for  *)
(* sessions the user requested.                                            *)
HeldIsBacked ==
    \A u \in Users :
        held_balance[u] = SumTo([s \in SessionIds |-> HeldFor(u, s)], MaxSessions)

Entry(u, s, tx) == IF sessions[s].requester = u THEN -tx.amount
                   ELSE IF sessions[s].provider = u THEN tx.amount ELSE 0

EntriesOf(u, s) ==
    SumTo([i \in DOMAIN ledger[s] |-> Entry(u, s, ledger[s][i])], Len(ledger[s]))

(* What a user owns, free and held, is the seed plus the user's ledger     *)
(* entries: no handler, wherever it stops, creates or loses points.        *)
BooksBalance ==
    \A u \in Users :
        balance[u] + held_balance[u]
            = SEED_POINTS + SumTo([s \in SessionIds |-> EntriesOf(u, s)], MaxSessions)

(* Nobody is on both sides of a transaction: nobody is free to look after  *)
(* a child in the very slots they need care for.                           *)
TwoParties ==
    /\ \A s \in SessionIds : Exists(s) => sessions[s].requester # sessions[s].provider
    /\ \A w \in Workers :
          req[w].op \in {"create", "rematch"} => req[w].row.requester # req[w].row.provider

(* What requests that come one at a time may rely on, those that stop      *)
(* half-way included: the rows of a session agree with each other, nothing *)
(* read is stale, nobody is booked twice or booked with themselves.        *)
SerialInv == CareSerialInv /\ TwoParties

(* Balances and books agree, and stay so.                                  *)
BooksInv == TwoParties /\ HeldIsBacked /\ BooksBalance
=============================================================================
