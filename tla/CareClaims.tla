----------------------------- MODULE CareClaims -----------------------------
(***************************************************************************)
(* What a document of the repository says of settling a hold, and the      *)
(* code does not do when two check-outs overlap.                           *)
(***************************************************************************)
EXTENDS MCCareSession

(* Care beyond the hold is settled up to the hold, "실제 슬롯이 홀드보다   *)
(* 많아도 홀드 한도로 clamp" (docs/tasks/T-PNT-2.md:27).  Two check-outs   *)
(* of the session that overlap each settle.                                *)
SettledWithinHold ==
    \A s \in SessionIds :
        holds[s].status = "SETTLED"
            => SumTo([i \in DOMAIN ledger[s] |-> ledger[s][i].amount], Len(ledger[s]))
                   <= holds[s].amount
=============================================================================
