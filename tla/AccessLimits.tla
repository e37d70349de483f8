---------------------------- MODULE AccessLimits ----------------------------
(***************************************************************************)
(* What a limit of calls and a store of one-time values promise: a call is *)
(* granted if and only if fewer than max_calls were granted in the window  *)
(* that ends with it, since the key was reset; a value is accepted if and  *)
(* only if it was not accepted within the last ttl.  reply is what the     *)
(* last call was told.                                                     *)
(***************************************************************************)
EXTENDS Naturals, Sequences, FiniteSets

CONSTANTS Callers, Nonces, max_calls, window, ttl

VARIABLES now, granted, used, reply

NoReply == [call |-> "none"]

InWindow(k) == {i \in DOMAIN granted[k] : granted[k][i] + window > now}

Init == /\ now = 1
        /\ granted = [k \in Callers |-> <<>>]
        /\ used = [k \in Nonces |-> 0]
        /\ reply = NoReply

Ask(k) ==
    LET ok == Cardinality(InWindow(k)) < max_calls
    IN  /\ granted' = [granted EXCEPT ![k] = IF ok THEN Append(@, now) ELSE @]
        /\ reply' = [call |-> "allow", key |-> k, ok |-> ok]
        /\ UNCHANGED <<now, used>>

Present(k) ==
    LET ok == used[k] = 0 \/ used[k] + ttl <= now
    IN  /\ used' = [used EXCEPT ![k] = IF ok THEN now ELSE @]
        /\ reply' = [call |-> "consume", key |-> k, ok |-> ok]
        /\ UNCHANGED <<now, granted>>

Reset(k) ==
    /\ granted' = [granted EXCEPT ![k] = <<>>]
    /\ reply' = NoReply
    /\ UNCHANGED <<now, used>>

Later == /\ now' = now + 1
         /\ reply' = NoReply
         /\ UNCHANGED <<granted, used>>

Next == \/ Later
        \/ \E k \in Callers : Ask(k) \/ Reset(k)
        \/ \E k \in Nonces : Present(k)

Spec == Init /\ [][Next]_<<now, granted, used, reply>>
=============================================================================
