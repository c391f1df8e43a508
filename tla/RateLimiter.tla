----------------------------- MODULE RateLimiter -----------------------------
(***************************************************************************)
(* The rate limiter of the API: a token bucket per client address, made    *)
(* when the address is first seen and kept for good.                       *)
(*                                                                         *)
(* Time is counted in seconds and tokens in sixtieths, so that a limit of  *)
(* n requests per minute adds n units per second and a request costs 60.   *)
(* The bucket is that of golang.org/x/time/rate: it is brought up to date  *)
(* only when a request is admitted.                                        *)
(***************************************************************************)
EXTENDS Integers, Sequences

CONSTANTS
  IPs,
  RateLimitPerMinute   \* cfg.RateLimitPerMinute, any integer

ASSUME RateLimitAssumption == RateLimitPerMinute \in Int

VARIABLES
  now,
  limiters,   \* limiters[ip]: the bucket of ip, NoLimiter until its first request
  admitted    \* history: admitted[ip] are the times of the admitted requests

limiterVars == <<now, limiters, admitted>>

(* A limit that is not positive counts as 120. *)
RequestsPerMinute ==
  IF RateLimitPerMinute <= 0 THEN 120 ELSE RateLimitPerMinute

Burst == IF RequestsPerMinute \div 10 < 1 THEN 1 ELSE RequestsPerMinute \div 10
Cost == 60
Full == Cost * Burst

Limiter == [tokens : Nat, last : Nat]
NoLimiter == [tokens |-> 0, last |-> -1]
NewLimiter == [tokens |-> Full, last |-> now]

LimiterTypeOK ==
  /\ now \in Nat
  /\ limiters \in [IPs -> Limiter \cup {NoLimiter}]
  /\ admitted \in [IPs -> Seq(Nat)]

LimiterInit ==
  /\ now = 0
  /\ limiters = [ip \in IPs |-> NoLimiter]
  /\ admitted = [ip \in IPs |-> <<>>]

Tick ==
  /\ now' = now + 1
  /\ UNCHANGED <<limiters, admitted>>

(* Mistakes: every request starts with a bucket of its own; a new address  *)
(* starts with an empty one.                                               *)
getLimiter_AlwaysNew(ip) ==
  /\ limiters' = [limiters EXCEPT ![ip] = NewLimiter]
  /\ UNCHANGED <<now, admitted>>
getLimiter_Empty(ip) ==
  /\ limiters' = IF limiters[ip] = NoLimiter
                   THEN [limiters EXCEPT ![ip] = [tokens |-> 0, last |-> now]]
                   ELSE limiters
  /\ UNCHANGED <<now, admitted>>

(* Check and creation are one critical section. *)
getLimiter(ip) ==
  /\ limiters' = IF limiters[ip] = NoLimiter
                   THEN [limiters EXCEPT ![ip] = NewLimiter]
                   ELSE limiters
  /\ UNCHANGED <<now, admitted>>

(* What the bucket of ip holds now, at most Full. *)
Available(ip) ==
  LET refilled ==
        limiters[ip].tokens + RequestsPerMinute * (now - limiters[ip].last)
  IN  IF refilled > Full THEN Full ELSE refilled

(* Mistake: nobody looks whether there is a token to take. *)
Allow_OnCredit(ip) ==
  /\ limiters' = [limiters EXCEPT
                    ![ip] = [tokens |-> Available(ip) - Cost, last |-> now]]
  /\ admitted' = [admitted EXCEPT ![ip] = Append(@, now)]
  /\ UNCHANGED now

Allow(ip) ==
  /\ Available(ip) >= Cost
  /\ limiters' = [limiters EXCEPT
                    ![ip] = [tokens |-> Available(ip) - Cost, last |-> now]]
  /\ admitted' = [admitted EXCEPT ![ip] = Append(@, now)]
  /\ UNCHANGED now

Refuse(ip) ==
  /\ Available(ip) < Cost
  /\ UNCHANGED limiterVars
-----------------------------------------------------------------------------
(* Properties. *)

(* Of the requests at times s, those from any one of them on stay within   *)
(* the burst and what the limit allows for the time that passed.           *)
WithinRate(s) ==
  \A i, k \in 1 .. Len(s) :
    i <= k => Cost * (k - i + 1) <= Full + RequestsPerMinute * (s[k] - s[i])

(***************************************************************************)
(* No address ever gets more requests through, in any stretch of time,     *)
(* than the burst and the configured rate for that stretch, however its    *)
(* requests race each other through getLimiter and Allow.                  *)
(***************************************************************************)
AdmittedWithinRate == \A ip \in IPs : WithinRate(admitted[ip])
=============================================================================
