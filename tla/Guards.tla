------------------------------- MODULE Guards -------------------------------
(***************************************************************************)
(* RateLimiter and NonceStore of security_kit/guards.py, which keep their  *)
(* counts in the memory of one process: the calls of the last window, and  *)
(* the values used within the last ttl, forgotten as calls come in.  Every *)
(* method runs to its end without an await.  Time is counted in ticks,     *)
(* Ticks of them a second.                                                 *)
(***************************************************************************)
EXTENDS Integers, Sequences, SequencesExt

CONSTANTS Callers,     \* keys of the limiter: an address, an e-mail
          Nonces,      \* keys of the store
          max_calls, window,   \* of the limiter, the window in ticks
          ttl,                 \* of the store, in ticks
          Ticks, MaxTime       \* MaxTime: bound of the clock

ASSUME GuardsAssumption ==
    /\ max_calls \in Nat \ {0} /\ window \in Nat \ {0} /\ ttl \in Nat \ {0}
    /\ Ticks \in Nat \ {0} /\ MaxTime \in Nat

VARIABLES now,
          _hits,     \* per key that has an entry: the times of its calls
          _seen,     \* per value that has an entry: when it was used
          granted,   \* all calls granted since the key was reset
          used,      \* per value: when it was last accepted, or 0
          free,      \* per key: when retry_after said a call would pass, or 0
          reply

vars == <<now, _hits, _seen, granted, used, free, reply>>

NoReply == [call |-> "none"]

Forgetting(f, S) == [k \in DOMAIN f \ S |-> f[k]]

Storing(f, k, v) == [n \in DOMAIN f \cup {k} |-> IF n = k THEN v ELSE f[n]]

(* Slip: a call a whole window ago still counts. *)
Kept_slip(t, at) == t >= at - window

Kept(t, at) == t > at - window

HitsOf(key) == IF key \in DOMAIN _hits THEN _hits[key] ELSE <<>>

(* How many leave at the front before the first that is kept.              *)
Left(hits) ==
    CHOOSE d \in 0..Len(hits) :
        /\ \A i \in 1..d : ~Kept(hits[i], now)
        /\ d < Len(hits) => Kept(hits[d + 1], now)

_prune(key) == SubSeq(HitsOf(key), Left(HitsOf(key)) + 1, Len(HitsOf(key)))

allow(key) ==
    LET hits == _prune(key)
        ok   == Len(hits) < max_calls
    IN  /\ _hits' = Storing(_hits, key, IF ok THEN Append(hits, now) ELSE hits)
        /\ granted' = [granted EXCEPT ![key] = IF ok THEN Append(@, now) ELSE @]
        /\ free' = [free EXCEPT ![key] = IF ok THEN 0 ELSE @]
        /\ reply' = [call |-> "allow", key |-> key, ok |-> ok]
        /\ UNCHANGED <<now, _seen, used>>

(* Slip: the part of a second is cut off. *)
Seconds_slip(ticks) == Max({1, ticks \div Ticks})

Seconds(ticks) == Max({1, ticks \div Ticks + 1})

(* What it says is kept in free. *)
retry_after(key) ==
    LET hits == _prune(key)
        wait == IF Len(hits) < max_calls THEN 0 ELSE Seconds(hits[1] + window - now)
    IN  /\ _hits' = Storing(_hits, key, hits)
        /\ free' = [free EXCEPT ![key] = now + Ticks * wait]
        /\ UNCHANGED <<now, _seen, granted, used, reply>>

reset(key) ==
    /\ _hits' = Forgetting(_hits, {key})
    /\ granted' = [granted EXCEPT ![key] = <<>>]
    /\ free' = [free EXCEPT ![key] = 0]
    /\ reply' = NoReply
    /\ UNCHANGED <<now, _seen, used>>

sweep ==
    /\ _hits' = [k \in {n \in DOMAIN _hits : _prune(n) # <<>>} |-> _prune(k)]
    /\ UNCHANGED <<now, _seen, granted, used, free, reply>>

_sweep == Forgetting(_seen, {k \in DOMAIN _seen : _seen[k] <= now - ttl})

consume(key) ==
    LET ok == key \notin DOMAIN _sweep
    IN  /\ _seen' = IF ok THEN Storing(_sweep, key, now) ELSE _sweep
        /\ used' = [used EXCEPT ![key] = IF ok THEN now ELSE @]
        /\ reply' = [call |-> "consume", key |-> key, ok |-> ok]
        /\ UNCHANGED <<now, _hits, granted, free>>

Tick ==
    /\ now < MaxTime
    /\ now' = now + 1
    /\ reply' = NoReply
    /\ UNCHANGED <<_hits, _seen, granted, used, free>>

Init == /\ now = 1
        /\ _hits = <<>> /\ _seen = <<>>
        /\ granted = [k \in Callers |-> <<>>]
        /\ used = [k \in Nonces |-> 0]
        /\ free = [k \in Callers |-> 0]
        /\ reply = NoReply

Next == \/ \E key \in Callers : allow(key) \/ retry_after(key) \/ reset(key)
        \/ \E key \in Nonces : consume(key)
        \/ sweep
        \/ Tick

Spec == Init /\ [][Next]_vars

-----------------------------------------------------------------------------
(* Properties.                                                             *)

(* Forgetting what is over never changes an answer: calls are granted and  *)
(* one-time values accepted exactly as by AccessLimits, which remembers    *)
(* them all, however sweeps, resets and questions come in between.         *)
Limits == INSTANCE AccessLimits

LimitsKept == Limits!Spec

(* The wait told by retry_after is enough, when no other call has passed   *)
(* since, and at most one second more than what is needed: more than a     *)
(* second before its end the window is still full.                         *)
RetryHonest ==
    \A k \in Callers : free[k] # 0 =>
        LET recent == Cardinality(Limits!InWindow(k))
        IN  /\ now >= free[k] => recent < max_calls
            /\ now + Ticks < free[k] => recent >= max_calls
=============================================================================
