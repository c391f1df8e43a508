-------------------------- MODULE ApiServer_proofs --------------------------
(***************************************************************************)
(* Proofs about the reading side of the API, for every limit, every number *)
(* of clients, addresses and jobs and every store.  First the limiter: no  *)
(* address gets more through than its rate, and none is refused below it.  *)
(* Then the pages: what ListJobs answers agrees with its total, with the   *)
(* other stores and with the pages before it.                              *)
(***************************************************************************)
EXTENDS ApiServer, TLAPS, FiniteSetTheorems

LEMMA RateFacts ==
  /\ RequestsPerMinute \in Nat
  /\ Full \in Nat /\ Full >= 60
  /\ Cost = 60
<1>1. RequestsPerMinute \in Nat
  BY RateLimitAssumption DEF RequestsPerMinute
<1>2. Burst \in Nat /\ Burst >= 1
  <2>1. RequestsPerMinute \div 10 \in Int
    BY <1>1
  <2> QED BY <2>1 DEF Burst
<1> QED BY <1>1, <1>2 DEF Full, Cost

(* How a bucket relates to the requests it let through.  At most: it has   *)
(* no more than the burst and what it was refilled since any of them, less *)
(* their cost.  At least: since some of them it has just that.             *)
Upper(ip, i) ==
  Full + RequestsPerMinute * (limiters[ip].last - admitted[ip][i])
Spent(ip, i) ==
  Cost * (Len(admitted[ip]) - i + 1) + limiters[ip].tokens

BucketTypeOK(ip) ==
  /\ limiters[ip].tokens \in Nat
  /\ limiters[ip].tokens <= Full
  /\ limiters[ip].last \in Int
  /\ limiters[ip].last <= now
  /\ admitted[ip] \in Seq(Nat)
  /\ limiters[ip] = NoLimiter => admitted[ip] = <<>>

AtMost(ip) == \A i \in 1 .. Len(admitted[ip]) : Spent(ip, i) <= Upper(ip, i)

AtLeast(ip) ==
  limiters[ip] # NoLimiter =>
    \/ admitted[ip] = <<>> /\ limiters[ip].tokens = Full
    \/ \E i \in 1 .. Len(admitted[ip]) : Spent(ip, i) = Upper(ip, i)

BucketOK(ip) ==
  /\ BucketTypeOK(ip)
  /\ AtMost(ip)
  /\ WithinRate(admitted[ip])

LimiterInv ==
  /\ now \in Nat
  /\ limiters = [ip \in IPs |-> limiters[ip]]
  /\ admitted = [ip \in IPs |-> admitted[ip]]
  /\ \A ip \in IPs : BucketOK(ip)

(* Refilling for now - last and then for last - t is refilling for now - t. *)
LEMMA RefillAdds ==
  ASSUME NEW r \in Int, NEW a \in Int, NEW b \in Int, NEW t \in Int
  PROVE  r * (a - t) = r * (b - t) + r * (a - b)
OBVIOUS

LEMMA RefillGrows ==
  ASSUME NEW r \in Nat, NEW a \in Int, NEW b \in Int, b <= a
  PROVE  r * (a - b) \in Nat
OBVIOUS

LEMMA AvailableFacts ==
  ASSUME LimiterInv, NEW ip \in IPs
  PROVE  /\ Available(ip) \in Nat
         /\ Available(ip) <= Full
         /\ Available(ip) <= limiters[ip].tokens
                               + RequestsPerMinute * (now - limiters[ip].last)
         /\ \/ Available(ip) = Full
            \/ Available(ip) = limiters[ip].tokens
                                 + RequestsPerMinute * (now - limiters[ip].last)
         /\ limiters[ip].tokens = Full => Available(ip) = Full
<1>1. /\ limiters[ip].tokens \in Nat /\ limiters[ip].last \in Int
      /\ limiters[ip].last <= now /\ now \in Int
      /\ limiters[ip].tokens <= Full
  BY DEF LimiterInv, BucketOK, BucketTypeOK
<1> DEFINE refill == RequestsPerMinute * (now - limiters[ip].last)
<1>2. refill \in Nat
  BY <1>1, RateFacts, RefillGrows
<1>3. Available(ip) = IF limiters[ip].tokens + refill > Full
                        THEN Full ELSE limiters[ip].tokens + refill
  BY DEF Available
<1> HIDE DEF refill
<1>4. /\ Available(ip) \in Nat
      /\ Available(ip) <= Full
      /\ Available(ip) <= limiters[ip].tokens + refill
      /\ Available(ip) = Full \/ Available(ip) = limiters[ip].tokens + refill
      /\ limiters[ip].tokens = Full => Available(ip) = Full
  BY <1>1, <1>2, <1>3, RateFacts
<1> QED BY <1>4 DEF refill

(* One more request through a bucket: what stays of its entry. *)
LEMMA AllowFacts ==
  ASSUME LimiterInv, NEW ip \in IPs, Allow(ip)
  PROVE  /\ limiters'[ip] = [tokens |-> Available(ip) - Cost, last |-> now]
         /\ admitted'[ip] = Append(admitted[ip], now)
         /\ now' = now
         /\ Available(ip) >= Cost
         /\ \A other \in IPs \ {ip} : /\ limiters'[other] = limiters[other]
                                    /\ admitted'[other] = admitted[other]
         /\ limiters' = [x \in IPs |-> limiters'[x]]
         /\ admitted' = [x \in IPs |-> admitted'[x]]
BY DEF Allow, LimiterInv

LEMMA AppendFacts ==
  ASSUME NEW s \in Seq(Nat), NEW t \in Nat
  PROVE  /\ Append(s, t) \in Seq(Nat)
         /\ Len(s) \in Nat
         /\ Len(Append(s, t)) = Len(s) + 1
         /\ \A i \in 1 .. Len(s) : Append(s, t)[i] = s[i] /\ s[i] \in Nat
         /\ Append(s, t)[Len(s) + 1] = t
OBVIOUS

LEMMA AllowKeepsBucket ==
  ASSUME LimiterInv, NEW ip \in IPs, Allow(ip)
  PROVE  BucketOK(ip)'
<1> DEFINE n == Len(admitted[ip])
           R == RequestsPerMinute
           avail == Available(ip)
           tokens == limiters[ip].tokens
           last == limiters[ip].last
<1>1. /\ now \in Nat /\ tokens \in Nat /\ last \in Int /\ last <= now
      /\ admitted[ip] \in Seq(Nat) /\ tokens <= Full
  BY DEF LimiterInv, BucketOK, BucketTypeOK
<1>2. /\ R \in Nat /\ Full \in Nat /\ Full >= 60 /\ Cost = 60
  BY RateFacts
<1>3. /\ avail \in Nat /\ avail <= Full /\ avail >= 60
      /\ avail <= tokens + R * (now - last)
  BY AvailableFacts, AllowFacts, <1>2
<1>4. /\ limiters'[ip] = [tokens |-> avail - 60, last |-> now]
      /\ now' = now
      /\ admitted'[ip] = Append(admitted[ip], now)
  BY AllowFacts, <1>2
<1>5. /\ admitted'[ip] \in Seq(Nat)
      /\ n \in Nat
      /\ Len(admitted'[ip]) = n + 1
      /\ \A i \in 1 .. n : admitted'[ip][i] = admitted[ip][i]
                         /\ admitted[ip][i] \in Nat
      /\ admitted'[ip][n + 1] = now
  BY <1>1, <1>4, AppendFacts
<1>6. R * (now - now) = 0
  BY <1>1, <1>2
<1>7. ASSUME NEW i \in 1 .. n
      PROVE  R * (now - admitted[ip][i]) =
               R * (last - admitted[ip][i]) + R * (now - last)
  <2>1. R \in Int /\ now \in Int /\ last \in Int
    BY <1>1, <1>2
  <2>2. admitted[ip][i] \in Nat
    BY <1>5
  <2> HIDE DEF n, R, last
  <2>3. admitted[ip][i] \in Int
    BY <2>2
  <2> QED BY <2>1, <2>3, RefillAdds
<1>8. /\ Full' = Full /\ Cost' = 60 /\ RequestsPerMinute' = R
  BY <1>2 DEF Full, Cost, Burst, RequestsPerMinute
<1>9. /\ \A i \in 1 .. n + 1 :
           /\ Spent(ip, i)' = 60 * (n + 1 - i + 1) + (avail - 60)
           /\ Upper(ip, i)' = Full + R * (now - admitted'[ip][i])
      /\ \A i \in 1 .. n :
           /\ Spent(ip, i) = 60 * (n - i + 1) + tokens
           /\ Upper(ip, i) = Full + R * (last - admitted[ip][i])
  <2>1. /\ limiters'[ip].tokens = avail - 60 /\ limiters'[ip].last = now
    BY <1>4
  <2> QED BY <1>2, <1>5, <1>8, <2>1 DEF Spent, Upper
<1>10. BucketTypeOK(ip)'
  <2>1. /\ limiters'[ip].tokens = avail - 60 /\ limiters'[ip].last = now
        /\ limiters'[ip].last # -1
    BY <1>1, <1>4
  <2>2. limiters'[ip] # NoLimiter
    BY <2>1 DEF NoLimiter
  <2>3. avail - 60 \in Nat /\ avail - 60 <= Full
    <3> HIDE DEF avail
    <3> QED BY <1>2, <1>3
  <2> HIDE DEF avail
  <2> QED BY <1>1, <1>4, <1>5, <1>8, <2>1, <2>2, <2>3 DEF BucketTypeOK
<1> HIDE DEF n, R, avail, tokens, last
<1>11. ASSUME NEW i \in 1 .. n + 1
       PROVE  60 * (n + 1 - i + 1) + (avail - 60)
                <= Full + R * (now - admitted'[ip][i])
  <2>1. CASE i = n + 1
    BY <1>1, <1>2, <1>3, <1>5, <1>6, <2>1
  <2>2. CASE i \in 1 .. n
    <3>1. 60 * (n - i + 1) + tokens <= Full + R * (last - admitted[ip][i])
      <4>1. AtMost(ip) /\ 1 .. n = 1 .. Len(admitted[ip])
        BY DEF LimiterInv, BucketOK, n
      <4> QED BY <4>1, <2>2, <1>9 DEF AtMost
    <3>2. R * (now - last) \in Int /\ R * (last - admitted[ip][i]) \in Int
      <4>1. admitted[ip][i] \in Nat
        BY <1>5, <2>2
      <4> QED BY <1>1, <1>2, <4>1
    <3> DEFINE x == R * (last - admitted[ip][i])
               y == R * (now - last)
    <3>3. x \in Int /\ y \in Int /\ 60 * (n - i + 1) + tokens <= Full + x
          /\ avail <= tokens + y
      BY <1>3, <3>1, <3>2
    <3> HIDE DEF x, y
    <3>4. n \in Int /\ i \in Int /\ avail \in Int /\ tokens \in Int
      BY <1>1, <1>3, <1>5, <2>2
    <3>5. 60 * (n + 1 - i + 1) + (avail - 60) <= Full + (x + y)
      BY <1>2, <3>3, <3>4
    <3> QED BY <1>7, <2>2, <3>5, <1>5 DEF x, y
  <2> QED BY <1>5, <2>1, <2>2
<1>12. AtMost(ip)'
  <2>1. ASSUME NEW i \in 1 .. n + 1
        PROVE  Spent(ip, i)' <= Upper(ip, i)'
    <3>1. /\ Spent(ip, i)' = 60 * (n + 1 - i + 1) + (avail - 60)
          /\ Upper(ip, i)' = Full + R * (now - admitted'[ip][i])
      BY <1>9
    <3> QED BY <1>11, <3>1
  <2>2. 1 .. Len(admitted'[ip]) = 1 .. n + 1
    BY <1>5
  <2> QED BY <2>1, <2>2 DEF AtMost
<1>13. WithinRate(admitted[ip])'
  <2> SUFFICES ASSUME NEW i \in 1 .. n + 1, NEW k \in 1 .. n + 1, i <= k
               PROVE  60 * (k - i + 1)
                        <= Full + R * (admitted'[ip][k] - admitted'[ip][i])
    BY <1>2, <1>5, <1>8 DEF WithinRate, R
  <2>1. CASE k = n + 1
    <3>1. admitted'[ip][i] \in Nat
      BY <1>1, <1>5
    <3>2. 60 * (n + 1 - i + 1) <= Full + R * (now - admitted'[ip][i])
      <4> DEFINE x == R * (now - admitted'[ip][i])
      <4>1. x \in Int
        BY <1>1, <1>2, <3>1
      <4>2. 60 * (n + 1 - i + 1) + (avail - 60) <= Full + x
        BY <1>11
      <4> HIDE DEF x
      <4>3. 60 * (n + 1 - i + 1) <= Full + x
        BY <1>2, <1>3, <1>5, <4>1, <4>2
      <4> QED BY <4>3 DEF x
    <3> QED BY <1>5, <2>1, <3>2
  <2>2. CASE k \in 1 .. n
    <3>1. i \in 1 .. n
      BY <1>5, <2>2
    <3>2. WithinRate(admitted[ip]) /\ 1 .. n = 1 .. Len(admitted[ip])
      BY DEF LimiterInv, BucketOK, n
    <3>3. 60 * (k - i + 1) <= Full + R * (admitted[ip][k] - admitted[ip][i])
      BY <1>2, <2>2, <3>1, <3>2 DEF WithinRate, R
    <3> QED BY <1>5, <2>2, <3>1, <3>3
  <2> QED BY <1>5, <2>1, <2>2
<1> QED BY <1>10, <1>12, <1>13 DEF BucketOK

LEMMA AllowKeepsAtLeast ==
  ASSUME LimiterInv, NEW ip \in IPs, Allow(ip),
         AtLeast(ip), limiters[ip] # NoLimiter
  PROVE  AtLeast(ip)'
<1> DEFINE n == Len(admitted[ip])
           R == RequestsPerMinute
           avail == Available(ip)
           tokens == limiters[ip].tokens
           last == limiters[ip].last
<1>1. /\ now \in Nat /\ tokens \in Nat /\ last \in Int
      /\ admitted[ip] \in Seq(Nat)
  BY DEF LimiterInv, BucketOK, BucketTypeOK
<1>2. /\ R \in Nat /\ Full \in Nat /\ Cost = 60
  BY RateFacts
<1>3. /\ avail \in Nat
      /\ avail = Full \/ avail = tokens + R * (now - last)
      /\ tokens = Full => avail = Full
  BY AvailableFacts
<1>4. /\ limiters'[ip] = [tokens |-> avail - 60, last |-> now]
      /\ now' = now
      /\ admitted'[ip] = Append(admitted[ip], now)
  BY AllowFacts, <1>2
<1>5. /\ admitted'[ip] \in Seq(Nat)
      /\ n \in Nat
      /\ Len(admitted'[ip]) = n + 1
      /\ \A i \in 1 .. n : admitted'[ip][i] = admitted[ip][i]
                         /\ admitted[ip][i] \in Nat
      /\ admitted'[ip][n + 1] = now
  BY <1>1, <1>4, AppendFacts
<1>6. /\ Full' = Full /\ Cost' = 60 /\ RequestsPerMinute' = R
  BY <1>2 DEF Full, Cost, Burst, RequestsPerMinute
<1>7. /\ \A i \in 1 .. n + 1 :
           /\ Spent(ip, i)' = 60 * (n + 1 - i + 1) + (avail - 60)
           /\ Upper(ip, i)' = Full + R * (now - admitted'[ip][i])
      /\ \A i \in 1 .. n :
           /\ Spent(ip, i) = 60 * (n - i + 1) + tokens
           /\ Upper(ip, i) = Full + R * (last - admitted[ip][i])
  <2>1. /\ limiters'[ip].tokens = avail - 60 /\ limiters'[ip].last = now
    BY <1>4
  <2> QED BY <1>2, <1>5, <1>6, <2>1 DEF Spent, Upper
<1> SUFFICES \E i \in 1 .. n + 1 :
               60 * (n + 1 - i + 1) + (avail - 60)
                 = Full + R * (now - admitted'[ip][i])
  BY <1>5, <1>7 DEF AtLeast
<1>8. \/ admitted[ip] = <<>> /\ tokens = Full
      \/ \E i \in 1 .. n :
           60 * (n - i + 1) + tokens = Full + R * (last - admitted[ip][i])
  BY <1>7 DEF AtLeast
<1> HIDE DEF n, R, avail, tokens, last
<1>9. CASE avail = Full
  <2>1. R * (now - now) = 0
    BY <1>1, <1>2
  <2>2. 60 * (n + 1 - (n + 1) + 1) + (avail - 60) = Full + 0
    BY <1>2, <1>5, <1>9
  <2>3. n + 1 \in 1 .. n + 1
    BY <1>5
  <2> QED BY <1>5, <2>1, <2>2, <2>3
<1>10. CASE avail # Full
  <2>1. PICK i \in 1 .. n :
          60 * (n - i + 1) + tokens = Full + R * (last - admitted[ip][i])
    BY <1>3, <1>8, <1>10
  <2>2. R \in Int /\ now \in Int /\ last \in Int
    BY <1>1, <1>2
  <2>3. admitted[ip][i] \in Int
    BY <1>5
  <2>4. R * (now - admitted[ip][i])
          = R * (last - admitted[ip][i]) + R * (now - last)
    BY <2>2, <2>3, RefillAdds
  <2> DEFINE x == R * (last - admitted[ip][i])
             y == R * (now - last)
  <2>5. /\ x \in Int /\ y \in Int
        /\ 60 * (n - i + 1) + tokens = Full + x
        /\ avail = tokens + y
    BY <1>3, <1>10, <2>1, <2>2, <2>3
  <2>6. n \in Int /\ i \in Int /\ tokens \in Int
    BY <1>1, <1>5
  <2> HIDE DEF x, y
  <2>7. 60 * (n + 1 - i + 1) + (avail - 60) = Full + (x + y)
    BY <1>2, <2>5, <2>6
  <2>8. 60 * (n + 1 - i + 1) + (avail - 60)
          = Full + R * (now - admitted'[ip][i])
    BY <1>5, <2>4, <2>7 DEF x, y
  <2>9. i \in 1 .. n + 1
    BY <1>5
  <2> QED BY <2>8, <2>9
<1> QED BY <1>9, <1>10

(* When a bucket refuses, one more request would be over the rate. *)
LEMMA RefusedIsOver ==
  ASSUME LimiterInv, NEW ip \in IPs, Refuse(ip),
         AtLeast(ip), limiters[ip] # NoLimiter
  PROVE  ~WithinRate(Append(admitted[ip], now))
<1> DEFINE n == Len(admitted[ip])
           R == RequestsPerMinute
           avail == Available(ip)
           tokens == limiters[ip].tokens
           last == limiters[ip].last
           s == Append(admitted[ip], now)
<1>1. /\ now \in Nat /\ tokens \in Nat /\ last \in Int
      /\ admitted[ip] \in Seq(Nat)
  BY DEF LimiterInv, BucketOK, BucketTypeOK
<1>2. /\ R \in Nat /\ Full \in Nat /\ Full >= 60 /\ Cost = 60
  BY RateFacts
<1>3. /\ avail \in Nat /\ avail < 60
      /\ avail = Full \/ avail = tokens + R * (now - last)
      /\ tokens = Full => avail = Full
  BY AvailableFacts, <1>2 DEF Refuse
<1>4. /\ n \in Nat
      /\ Len(s) = n + 1
      /\ \A i \in 1 .. n : s[i] = admitted[ip][i] /\ admitted[ip][i] \in Nat
      /\ s[n + 1] = now
  BY <1>1, AppendFacts
<1>5. \/ admitted[ip] = <<>> /\ tokens = Full
      \/ \E i \in 1 .. n :
           60 * (n - i + 1) + tokens = Full + R * (last - admitted[ip][i])
  BY <1>2 DEF AtLeast, Spent, Upper
<1>6. WithinRate(s) =>
        \A i \in 1 .. n + 1 : 60 * (n + 1 - i + 1) <= Full + R * (now - s[i])
  <2>1. n + 1 \in 1 .. n + 1 /\ \A i \in 1 .. n + 1 : i <= n + 1
    BY <1>4
  <2> HIDE DEF s, n
  <2> QED BY <1>2, <1>4, <2>1 DEF WithinRate
<1> HIDE DEF n, R, avail, tokens, last, s
<1>7. avail # Full
  BY <1>2, <1>3
<1>8. PICK i \in 1 .. n :
        60 * (n - i + 1) + tokens = Full + R * (last - admitted[ip][i])
  BY <1>3, <1>5, <1>7
<1>9. R \in Int /\ now \in Int /\ last \in Int
  BY <1>1, <1>2
<1>10. admitted[ip][i] \in Int
  BY <1>4
<1>11. R * (now - admitted[ip][i])
         = R * (last - admitted[ip][i]) + R * (now - last)
  BY <1>9, <1>10, RefillAdds
<1> DEFINE x == R * (last - admitted[ip][i])
           y == R * (now - last)
<1>12. /\ x \in Int /\ y \in Int
       /\ 60 * (n - i + 1) + tokens = Full + x
       /\ avail = tokens + y
  BY <1>3, <1>7, <1>8, <1>9, <1>10
<1>13. n \in Int /\ i \in Int /\ tokens \in Int
  BY <1>1, <1>4
<1> HIDE DEF x, y
<1>14. ~(60 * (n + 1 - i + 1) <= Full + (x + y))
  BY <1>2, <1>3, <1>12, <1>13
<1>15. ~(60 * (n + 1 - i + 1) <= Full + R * (now - s[i]))
  BY <1>4, <1>11, <1>14 DEF x, y
<1>16. i \in 1 .. n + 1
  BY <1>4
<1> QED BY <1>6, <1>15, <1>16 DEF s
-----------------------------------------------------------------------------
(* The state of all buckets and, for the refusals, of the requests. *)

AtLeastInv == \A ip \in IPs : AtLeast(ip)

RequestShape(c) ==
  req[c] = Idle \/ \E p, q, t : req[c] = [pc |-> p, query |-> q, total |-> t]

ClientInv ==
  /\ req = [c \in Clients |-> req[c]]
  /\ answer = [c \in Clients |-> answer[c]]
  /\ \A c \in Clients :
       /\ RequestShape(c)
       /\ req[c] # Idle => answer[c] = NoAnswer
       /\ At(c, "allow") => limiters[IP(c)] # NoLimiter

RateInv == LimiterInv /\ AtLeastInv /\ ClientInv

LEMMA BucketStays ==
  ASSUME LimiterInv, NEW ip \in IPs,
         limiters'[ip] = limiters[ip], admitted'[ip] = admitted[ip],
         now' \in Nat, now <= now'
  PROVE  /\ BucketOK(ip)'
         /\ AtLeast(ip) => AtLeast(ip)'
<1>1. /\ Full' = Full /\ Cost' = Cost /\ RequestsPerMinute' = RequestsPerMinute
      /\ NoLimiter' = NoLimiter
  BY DEF Full, Cost, Burst, RequestsPerMinute, NoLimiter
<1>2. BucketOK(ip) /\ now \in Nat
  BY DEF LimiterInv
<1>3. BucketTypeOK(ip)'
  BY <1>1, <1>2, RateFacts DEF BucketOK, BucketTypeOK
<1>4. AtMost(ip)' /\ WithinRate(admitted[ip])'
  BY <1>1, <1>2 DEF BucketOK, AtMost, WithinRate, Spent, Upper
<1>5. AtLeast(ip) => AtLeast(ip)'
  BY <1>1 DEF AtLeast, Spent, Upper
<1> QED BY <1>3, <1>4, <1>5 DEF BucketOK

LEMMA TimeKeepsBuckets ==
  ASSUME LimiterInv, AtLeastInv,
         limiters' = limiters, admitted' = admitted,
         now' = now \/ now' = now + 1
  PROVE  LimiterInv' /\ AtLeastInv'
<1>1. now \in Nat /\ now' \in Nat /\ now <= now'
  BY DEF LimiterInv
<1>2. \A ip \in IPs : BucketOK(ip)' /\ AtLeast(ip)'
  BY <1>1, BucketStays DEF AtLeastInv
<1> QED BY <1>1, <1>2 DEF LimiterInv, AtLeastInv

LEMMA getLimiterKeepsBuckets ==
  ASSUME LimiterInv, AtLeastInv, NEW ip \in IPs, getLimiter(ip)
  PROVE  /\ LimiterInv' /\ AtLeastInv'
         /\ limiters'[ip] # NoLimiter
         /\ \A x \in IPs : limiters[x] # NoLimiter => limiters'[x] # NoLimiter
<1>1. /\ now' = now /\ admitted' = admitted /\ now \in Nat
      /\ limiters = [x \in IPs |-> limiters[x]]
  BY DEF getLimiter, LimiterInv
<1>2. CASE limiters[ip] # NoLimiter
  <2>1. limiters' = limiters
    BY <1>2 DEF getLimiter
  <2> QED BY <1>1, <1>2, <2>1, TimeKeepsBuckets
<1>3. CASE limiters[ip] = NoLimiter
  <2>1. limiters' = [limiters EXCEPT ![ip] = [tokens |-> Full, last |-> now]]
    BY <1>3 DEF getLimiter, NewLimiter
  <2>2. /\ limiters' = [x \in IPs |-> limiters'[x]]
        /\ limiters'[ip] = [tokens |-> Full, last |-> now]
        /\ \A x \in IPs \ {ip} : limiters'[x] = limiters[x]
    BY <1>1, <2>1
  <2>3. /\ limiters'[ip].tokens = Full /\ limiters'[ip].last = now
        /\ limiters'[ip].last # -1
    BY <1>1, <2>2
  <2>4. limiters'[ip] # NoLimiter
    BY <2>3 DEF NoLimiter
  <2>5. admitted[ip] = <<>>
    BY <1>3 DEF LimiterInv, BucketOK, BucketTypeOK
  <2>6. Full' = Full /\ NoLimiter' = NoLimiter
    BY DEF Full, Cost, Burst, RequestsPerMinute, NoLimiter
  <2>7. BucketOK(ip)'
    <3>1. BucketTypeOK(ip)'
      BY <1>1, <2>3, <2>4, <2>5, <2>6, RateFacts DEF BucketTypeOK
    <3>2. AtMost(ip)' /\ WithinRate(admitted[ip])'
      BY <1>1, <2>5 DEF AtMost, WithinRate
    <3> QED BY <3>1, <3>2 DEF BucketOK
  <2>8. AtLeast(ip)'
    BY <1>1, <2>3, <2>5, <2>6 DEF AtLeast
  <2>9. \A x \in IPs \ {ip} : BucketOK(x)' /\ AtLeast(x)'
    BY <1>1, <2>2, BucketStays DEF AtLeastInv
  <2> QED BY <1>1, <2>2, <2>4, <2>7, <2>8, <2>9 DEF LimiterInv, AtLeastInv
<1> QED BY <1>2, <1>3

LEMMA AllowKeepsBuckets ==
  ASSUME LimiterInv, AtLeastInv, NEW ip \in IPs, Allow(ip),
         limiters[ip] # NoLimiter
  PROVE  /\ LimiterInv' /\ AtLeastInv'
         /\ \A x \in IPs : limiters[x] # NoLimiter => limiters'[x] # NoLimiter
<1>1. /\ now' = now /\ now \in Nat
      /\ limiters' = [x \in IPs |-> limiters'[x]]
      /\ admitted' = [x \in IPs |-> admitted'[x]]
      /\ \A x \in IPs \ {ip} : /\ limiters'[x] = limiters[x]
                             /\ admitted'[x] = admitted[x]
  BY AllowFacts DEF LimiterInv
<1>2. BucketOK(ip)' /\ AtLeast(ip)'
  BY AllowKeepsBucket, AllowKeepsAtLeast DEF AtLeastInv
<1>3. \A x \in IPs \ {ip} : BucketOK(x)' /\ AtLeast(x)'
  BY <1>1, BucketStays DEF AtLeastInv
<1>4. limiters'[ip] # NoLimiter
  <2>1. limiters'[ip] = [tokens |-> Available(ip) - Cost, last |-> now]
    BY AllowFacts
  <2>2. limiters'[ip].last = now
    BY <2>1
  <2> QED BY <1>1, <2>2 DEF NoLimiter
<1> QED BY <1>1, <1>2, <1>3, <1>4 DEF LimiterInv, AtLeastInv

(* A request ends, or goes on to a call that is not "allow". *)
LEMMA OneRequestMoves ==
  ASSUME ClientInv, NEW c \in Clients,
         req' = [req EXCEPT ![c] = req'[c]],
         answer' = [answer EXCEPT ![c] = answer'[c]],
         RequestShape(c)',
         req'[c] # Idle => answer'[c] = NoAnswer,
         At(c, "allow")' => limiters'[IP(c)] # NoLimiter,
         \A x \in IPs : limiters[x] # NoLimiter => limiters'[x] # NoLimiter
  PROVE  ClientInv'
<1>1. \A d \in Clients : IP(d) \in IPs
  BY ApiServerAssumption DEF IP
<1>2. /\ req' = [d \in Clients |-> req'[d]]
      /\ answer' = [d \in Clients |-> answer'[d]]
      /\ \A d \in Clients \ {c} : req'[d] = req[d] /\ answer'[d] = answer[d]
  BY DEF ClientInv
<1>3. ASSUME NEW d \in Clients \ {c}
      PROVE  /\ RequestShape(d)'
             /\ req'[d] # Idle => answer'[d] = NoAnswer
             /\ At(d, "allow")' => limiters'[IP(d)] # NoLimiter
  BY <1>1, <1>2 DEF ClientInv, RequestShape, At, Idle, NoAnswer, NoLimiter, IP
<1>4. Idle' = Idle /\ NoAnswer' = NoAnswer /\ NoLimiter' = NoLimiter
      /\ \A d \in Clients : IP(d)' = IP(d)
  BY DEF Idle, NoAnswer, NoLimiter, IP
<1> QED BY <1>2, <1>3, <1>4 DEF ClientInv

LEMMA RecordMoves ==
  ASSUME NEW p, NEW q, NEW t, NEW x
  PROVE  [[pc |-> p, query |-> q, total |-> t] EXCEPT !.pc = x]
           = [pc |-> x, query |-> q, total |-> t]
OBVIOUS

LEMMA RecordCounts ==
  ASSUME NEW p, NEW q, NEW t, NEW x
  PROVE  [[pc |-> p, query |-> q, total |-> t] EXCEPT !.total = x]
           = [pc |-> p, query |-> q, total |-> x]
OBVIOUS

LEMMA GoFacts ==
  ASSUME ClientInv, NEW c \in Clients, NEW pc, Go(c, pc), req[c] # Idle
  PROVE  /\ req' = [req EXCEPT ![c] = req'[c]]
         /\ RequestShape(c)'
         /\ req'[c].pc = pc
         /\ answer[c] = NoAnswer
         /\ answer = [answer EXCEPT ![c] = answer[c]]
<1>1. /\ req = [d \in Clients |-> req[d]]
      /\ answer = [d \in Clients |-> answer[d]]
      /\ answer[c] = NoAnswer
  BY DEF ClientInv
<1>2. PICK p, q, t : req[c] = [pc |-> p, query |-> q, total |-> t]
  BY DEF ClientInv, RequestShape
<1>3. req' = [req EXCEPT ![c] = [pc |-> pc, query |-> q, total |-> t]]
  <2>1. [req[c] EXCEPT !.pc = pc] = [pc |-> pc, query |-> q, total |-> t]
    BY <1>2, RecordMoves
  <2>2. req' = [req EXCEPT ![c] = [req[c] EXCEPT !.pc = pc]]
    BY DEF Go
  <2> QED BY <2>1, <2>2
<1>4. req'[c] = [pc |-> pc, query |-> q, total |-> t]
  BY <1>1, <1>3
<1> QED BY <1>1, <1>3, <1>4 DEF RequestShape

LEMMA AnswerFacts ==
  ASSUME ClientInv, NEW c \in Clients, NEW code, Answer(c, code)
  PROVE  /\ req' = [req EXCEPT ![c] = req'[c]]
         /\ RequestShape(c)'
         /\ req'[c] = Idle
         /\ answer' = [answer EXCEPT ![c] = answer'[c]]
<1>1. /\ req = [d \in Clients |-> req[d]]
      /\ answer = [d \in Clients |-> answer[d]]
  BY DEF ClientInv
<1> QED BY <1>1 DEF Answer, RequestShape, Idle

LEMMA AnswerPageFacts ==
  ASSUME ClientInv, NEW c \in Clients, NEW page, NEW total,
         AnswerPage(c, page, total)
  PROVE  /\ req' = [req EXCEPT ![c] = req'[c]]
         /\ RequestShape(c)'
         /\ req'[c] = Idle
         /\ answer' = [answer EXCEPT ![c] = answer'[c]]
<1>1. /\ req = [d \in Clients |-> req[d]]
      /\ answer = [d \in Clients |-> answer[d]]
  BY DEF ClientInv
<1> QED BY <1>1 DEF AnswerPage, RequestShape, Idle

(* A request that is not at the limiter leaves the buckets alone. *)
LEMMA OtherRequestMoves ==
  ASSUME RateInv, NEW c \in Clients, UNCHANGED limiterVars,
         req' = [req EXCEPT ![c] = req'[c]],
         answer' = [answer EXCEPT ![c] = answer'[c]],
         RequestShape(c)',
         req'[c] # Idle => answer'[c] = NoAnswer,
         req'[c].pc # "allow"
  PROVE  RateInv'
<1>1. LimiterInv' /\ AtLeastInv'
  BY TimeKeepsBuckets DEF RateInv, limiterVars
<1>2. ClientInv'
  BY OneRequestMoves DEF RateInv, limiterVars, At
<1> QED BY <1>1, <1>2 DEF RateInv

LEMMA SendKeepsRateInv ==
  ASSUME RateInv, NEW c \in Clients, NEW query, Send(c, query)
  PROVE  RateInv'
<1> USE DEF RateInv
<1>1. /\ req = [d \in Clients |-> req[d]]
      /\ answer = [d \in Clients |-> answer[d]]
  BY DEF ClientInv
<1> DEFINE pc == IF limited THEN "limit" ELSE "handle"
<1>2. /\ UNCHANGED limiterVars
      /\ req' = [req EXCEPT ![c] =
                   [pc |-> pc, query |-> query, total |-> 0]]
      /\ answer' = [answer EXCEPT ![c] = NoAnswer]
  BY DEF Send
<1>3. pc # "allow"
  OBVIOUS
<1> HIDE DEF pc
<1>4. /\ req'[c] = [pc |-> pc, query |-> query, total |-> 0]
      /\ answer'[c] = NoAnswer
  BY <1>1, <1>2
<1>5. RequestShape(c)'
  BY <1>4 DEF RequestShape
<1>6. req'[c].pc # "allow"
  BY <1>3, <1>4
<1>7. /\ req' = [req EXCEPT ![c] = req'[c]]
      /\ answer' = [answer EXCEPT ![c] = answer'[c]]
  BY <1>2, <1>4
<1> QED BY <1>2, <1>4, <1>5, <1>6, <1>7, OtherRequestMoves

(* Steps that no request takes. *)
LEMMA RequestsStay ==
  ASSUME RateInv, UNCHANGED <<req, answer>>,
         limiters' = limiters, admitted' = admitted,
         now' = now \/ now' = now + 1
  PROVE  RateInv'
<1>1. LimiterInv' /\ AtLeastInv'
  BY TimeKeepsBuckets DEF RateInv
<1>2. ClientInv'
  <2>1. \A d \in Clients : RequestShape(d) <=> RequestShape(d)'
    BY DEF RequestShape, Idle
  <2> QED BY <2>1 DEF RateInv, ClientInv, At, Idle, NoAnswer, NoLimiter, IP
<1> QED BY <1>1, <1>2 DEF RateInv

LEMMA LimitKeepsRateInv ==
  ASSUME RateInv, NEW c \in Clients, Limit(c)
  PROVE  RateInv'
<1>1. IP(c) \in IPs
  BY ApiServerAssumption DEF IP
<1>2. /\ getLimiter(IP(c)) /\ Go(c, "allow") /\ answer' = answer
      /\ LimiterInv /\ AtLeastInv /\ ClientInv
  BY DEF Limit, RateInv
<1>3. req[c] # Idle
  BY DEF Limit, At, Idle
<1>4. /\ LimiterInv' /\ AtLeastInv' /\ limiters'[IP(c)] # NoLimiter
      /\ \A x \in IPs : limiters[x] # NoLimiter => limiters'[x] # NoLimiter
  BY <1>1, <1>2, getLimiterKeepsBuckets
<1>5. ClientInv'
  BY <1>2, <1>3, <1>4, GoFacts, OneRequestMoves
<1> QED BY <1>4, <1>5 DEF RateInv

LEMMA AdmitKeepsRateInv ==
  ASSUME RateInv, NEW c \in Clients, Admit(c)
  PROVE  RateInv'
<1>1. IP(c) \in IPs
  BY ApiServerAssumption DEF IP
<1>2. /\ Allow(IP(c)) /\ Go(c, "handle") /\ answer' = answer
      /\ LimiterInv /\ AtLeastInv /\ ClientInv
      /\ limiters[IP(c)] # NoLimiter
  BY DEF Admit, RateInv, ClientInv
<1>3. req[c] # Idle
  BY DEF Admit, At, Idle
<1>4. /\ LimiterInv' /\ AtLeastInv' /\ limiters'[IP(c)] # NoLimiter
      /\ \A x \in IPs : limiters[x] # NoLimiter => limiters'[x] # NoLimiter
  BY <1>1, <1>2, AllowKeepsBuckets
<1>5. ClientInv'
  BY <1>2, <1>3, <1>4, GoFacts, OneRequestMoves
<1> QED BY <1>4, <1>5 DEF RateInv

LEMMA AnswerKeepsRateInv ==
  ASSUME RateInv, NEW c \in Clients, UNCHANGED limiterVars,
         \/ \E code : Answer(c, code)
         \/ \E page, total : AnswerPage(c, page, total)
  PROVE  RateInv'
<1>1. /\ req' = [req EXCEPT ![c] = req'[c]]
      /\ answer' = [answer EXCEPT ![c] = answer'[c]]
      /\ RequestShape(c)'
      /\ req'[c] = Idle
  BY AnswerFacts, AnswerPageFacts DEF RateInv
<1>2. req'[c].pc # "allow" /\ Idle' = Idle
  BY <1>1 DEF Idle
<1> QED BY <1>1, <1>2, OtherRequestMoves

LEMMA GoKeepsRateInv ==
  ASSUME RateInv, NEW c \in Clients, UNCHANGED <<limiterVars, answer>>,
         NEW pc, pc # "allow", Go(c, pc), req[c] # Idle
  PROVE  RateInv'
BY GoFacts, OtherRequestMoves DEF RateInv

LEMMA CountKeepsRateInv ==
  ASSUME RateInv, NEW c \in Clients, CountJobs(c)
  PROVE  RateInv'
<1> DEFINE total == Cardinality(Matching(Asked(c).filter))
<1>1. /\ req = [d \in Clients |-> req[d]]
      /\ answer = [d \in Clients |-> answer[d]]
      /\ req[c] # Idle
      /\ answer[c] = NoAnswer
  BY DEF RateInv, ClientInv, CountJobs, At, Idle
<1>2. /\ UNCHANGED <<limiterVars, answer>>
      /\ req' = [req EXCEPT ![c].pc = "select", ![c].total = total]
  BY DEF CountJobs
<1>3. PICK p, q, t : req[c] = [pc |-> p, query |-> q, total |-> t]
  BY <1>1 DEF RateInv, ClientInv, RequestShape
<1> HIDE DEF total
<1>4. req'[c] = [pc |-> "select", query |-> q, total |-> total]
  <2> DEFINE moved == [req EXCEPT ![c] = [req[c] EXCEPT !.pc = "select"]]
             counted == [moved EXCEPT
                           ![c] = [moved[c] EXCEPT !.total = total]]
  <2>1. [req[c] EXCEPT !.pc = "select"]
          = [pc |-> "select", query |-> q, total |-> t]
    BY <1>3, RecordMoves
  <2>2. moved[c] = [pc |-> "select", query |-> q, total |-> t]
    BY <1>1, <2>1
  <2>3. [moved[c] EXCEPT !.total = total]
          = [pc |-> "select", query |-> q, total |-> total]
    BY <2>2, RecordCounts
  <2>4. req' = counted
    BY <1>2
  <2>5. c \in DOMAIN moved
    BY <1>1
  <2> HIDE DEF moved
  <2> QED BY <2>3, <2>4, <2>5
<1>5. req' = [req EXCEPT ![c] = req'[c]]
  BY <1>1, <1>2
<1>6. RequestShape(c)' /\ req'[c].pc # "allow" /\ answer'[c] = NoAnswer
      /\ answer' = [answer EXCEPT ![c] = answer'[c]]
  BY <1>1, <1>2, <1>4 DEF RequestShape
<1> QED BY <1>2, <1>5, <1>6, OtherRequestMoves

LEMMA InitRateInv == Init => RateInv
<1> SUFFICES ASSUME Init PROVE RateInv
  OBVIOUS
<1>1. LimiterInv /\ AtLeastInv
  BY RateFacts DEF Init, LimiterInit, LimiterInv, AtLeastInv, BucketOK,
     BucketTypeOK, AtMost, AtLeast, WithinRate, NoLimiter
<1>2. ClientInv
  BY DEF Init, ClientInv, RequestShape, At, Idle
<1> QED BY <1>1, <1>2 DEF RateInv

LEMMA NextRateInv == RateInv /\ [Next]_vars => RateInv'
<1> SUFFICES ASSUME RateInv, [Next]_vars PROVE RateInv'
  OBVIOUS
<1>1. CASE TimePasses
  BY <1>1, RequestsStay DEF TimePasses, Tick, clientVars
<1>2. CASE \E j \in Jobs : StampRow(j) \/ InsertRow(j) \/ SettleRow(j)
  BY <1>2, RequestsStay
     DEF StampRow, InsertRow, SettleRow, clientVars, limiterVars
<1>3. ASSUME NEW c \in Clients, Ask(c)
      PROVE  RateInv'
  BY <1>3, SendKeepsRateInv DEF Ask, AskJob, AskOddRange, BeginWalk, AskPage
<1>4. ASSUME NEW c \in Clients, Serve(c)
      PROVE  RateInv'
  <2>1. CASE Limit(c)
    BY <2>1, LimitKeepsRateInv
  <2>2. CASE Admit(c)
    BY <2>2, AdmitKeepsRateInv
  <2>3. CASE Reject(c)
    BY <2>3, AnswerKeepsRateInv DEF Reject, Refuse
  <2>4. CASE Recover(c)
    BY <2>4, AnswerKeepsRateInv DEF Recover
  <2>5. CASE GetJob(c)
    BY <2>5, AnswerKeepsRateInv DEF GetJob
  <2>6. CASE ListJobs_memory(c)
    <3>1. req[c] # Idle /\ UNCHANGED limiterVars
      BY <2>6 DEF ListJobs_memory, At, Idle
    <3>2. \/ Go(c, "panicked") /\ answer' = answer
          \/ \E page, total : AnswerPage(c, page, total)
      BY <2>6 DEF ListJobs_memory
    <3> QED BY <3>1, <3>2, GoKeepsRateInv, AnswerKeepsRateInv
  <2>7. CASE CountJobs(c)
    BY <2>7, CountKeepsRateInv
  <2>8. CASE SelectJobs(c)
    <3>1. /\ UNCHANGED limiterVars
          /\ \/ Answer(c, 500)
             \/ \E page, total : AnswerPage(c, page, total)
      BY <2>8 DEF SelectJobs
    <3> QED BY <3>1, AnswerKeepsRateInv
  <2>9. CASE StoreFails(c)
    BY <2>9, AnswerKeepsRateInv DEF StoreFails
  <2> QED BY <1>4, <2>1, <2>2, <2>3, <2>4, <2>5, <2>6, <2>7, <2>8, <2>9
      DEF Serve
<1>5. CASE UNCHANGED vars
  BY <1>5, RequestsStay DEF vars, clientVars, limiterVars
<1> QED BY <1>1, <1>2, <1>3, <1>4, <1>5 DEF Next

(***************************************************************************)
(* No address gets more requests through than the burst and its rate, for  *)
(* any limit, any number of addresses and clients, and any interleaving of *)
(* getLimiter and Allow.                                                   *)
(***************************************************************************)
THEOREM AdmissionCorrect == Spec => []AdmittedWithinRate
<1>1. RateInv => AdmittedWithinRate
  BY DEF RateInv, LimiterInv, BucketOK, AdmittedWithinRate
<1> QED BY <1>1, InitRateInv, NextRateInv, PTL DEF Spec

(* A client's step answers nobody but the client itself. *)
LEMMA OwnAnswer ==
  ASSUME RateInv, NEW d \in Clients, Ask(d) \/ Serve(d)
  PROVE  \A c \in Clients \ {d} : answer'[c] = answer[c]
<1>1. /\ ClientInv
      /\ answer = [c \in Clients |-> answer[c]]
  BY DEF RateInv, ClientInv
<1>2. CASE Ask(d)
  <2>1. \E query : Send(d, query)
    BY <1>2 DEF Ask, AskJob, AskOddRange, BeginWalk, AskPage
  <2>2. answer' = [answer EXCEPT ![d] = NoAnswer]
    BY <2>1 DEF Send
  <2> QED BY <1>1, <2>2
<1>3. CASE Serve(d)
  <2>1. \/ answer' = answer
        \/ \E code : Answer(d, code)
        \/ \E page, total : AnswerPage(d, page, total)
    <3>1. CASE Limit(d) \/ Admit(d) \/ CountJobs(d)
      BY <3>1 DEF Limit, Admit, CountJobs
    <3>2. CASE Reject(d) \/ Recover(d) \/ GetJob(d) \/ StoreFails(d)
      BY <3>2 DEF Reject, Recover, GetJob, StoreFails
    <3>3. CASE ListJobs_memory(d)
      BY <3>3 DEF ListJobs_memory
    <3>4. CASE SelectJobs(d)
      BY <3>4 DEF SelectJobs
    <3> QED BY <1>3, <3>1, <3>2, <3>3, <3>4 DEF Serve
  <2>2. answer' = answer \/ answer' = [answer EXCEPT ![d] = answer'[d]]
    BY <1>1, <2>1, AnswerFacts, AnswerPageFacts
  <2> QED BY <1>1, <2>2
<1> QED BY <1>2, <1>3

(* A refusal is Reject: no other step answers a request at the limiter.    *)
LEMMA RefusalIsOver ==
  ASSUME RateInv, [Next]_vars, NEW c \in Clients,
         At(c, "allow"), answer'[c].code = 429
  PROVE  ~WithinRate(Append(admitted[IP(c)], now))
<1>1. /\ answer[c] = NoAnswer /\ limiters[IP(c)] # NoLimiter
      /\ answer = [d \in Clients |-> answer[d]]
      /\ IP(c) \in IPs
  BY ApiServerAssumption DEF RateInv, ClientInv, At, Idle, IP
<1>2. answer'[c] # answer[c]
  BY <1>1 DEF NoAnswer
<1>3. Reject(c)
  <2>1. answer' # answer
    BY <1>2
  <2>2. PICK d \in Clients : Ask(d) \/ Serve(d)
    BY <2>1 DEF Next, TimePasses, StampRow, InsertRow, SettleRow,
       clientVars, vars
  <2>3. d = c
    BY <1>2, <2>2, OwnAnswer
  <2>4. ~Ask(c)
    BY DEF Ask, AskJob, AskOddRange, BeginWalk, AskPage, Send, At, Idle
  <2>5. Limit(c) \/ Admit(c) \/ Reject(c)
    BY <2>2, <2>3, <2>4 DEF Serve, Recover, GetJob, ListJobs_memory,
       CountJobs, SelectJobs, StoreFails, At
  <2> QED BY <2>1, <2>5 DEF Limit, Admit
<1> QED BY <1>1, <1>3, RefusedIsOver DEF Reject, RateInv, AtLeastInv

(***************************************************************************)
(* No address is refused while it is within its own burst and rate.        *)
(***************************************************************************)
THEOREM RefusalCorrect == Spec => RefusedOnlyOverRate
<1>1. RateInv /\ [Next]_vars =>
        \A c \in Clients :
          At(c, "allow") /\ answer'[c].code = 429
            => ~WithinRate(Append(admitted[IP(c)], now))
  BY RefusalIsOver
<1> QED BY <1>1, InitRateInv, NextRateInv, PTL DEF Spec, RefusedOnlyOverRate

-----------------------------------------------------------------------------
(* Pages of the ordered rows. *)

LEMMA MinMaxFacts ==
  ASSUME NEW a \in Int, NEW b \in Int
  PROVE  /\ Min({a, b}) = IF a <= b THEN a ELSE b
         /\ Max({a, b}) = IF a <= b THEN b ELSE a
<1>1. CASE a <= b
  <2>1. \A x \in {a, b} : (\A y \in {a, b} : x =< y) <=> x = a
    BY <1>1
  <2>2. \A x \in {a, b} : (\A y \in {a, b} : x >= y) <=> x = b
    BY <1>1
  <2> QED BY <1>1, <2>1, <2>2 DEF Min, Max
<1>2. CASE ~(a <= b)
  <2>1. \A x \in {a, b} : (\A y \in {a, b} : x =< y) <=> x = b
    BY <1>2
  <2>2. \A x \in {a, b} : (\A y \in {a, b} : x >= y) <=> x = a
    BY <1>2
  <2> QED BY <1>2, <2>1, <2>2 DEF Min, Max
<1> QED BY <1>1, <1>2

(* How many of total rows a page has. *)
PageLength(total, limit, offset) ==
  IF offset >= total THEN 0
  ELSE IF limit <= total - offset THEN limit ELSE total - offset

PageOf(s, limit, offset) ==
  [i \in 1 .. PageLength(Len(s), limit, offset) |-> s[offset + i]]

LEMMA PageLengthFacts ==
  ASSUME NEW total \in Nat, NEW limit \in Nat, NEW offset \in Nat
  PROVE  /\ PageLength(total, limit, offset) \in Nat
         /\ PageLength(total, limit, offset) <= limit
         /\ PageLength(total, limit, offset) > 0
              => offset + PageLength(total, limit, offset) <= total
         /\ PageLength(total, limit, offset) < limit
              => offset + PageLength(total, limit, offset) >= total
BY DEF PageLength

LEMMA PageOfFacts ==
  ASSUME NEW S, NEW s \in Seq(S), NEW limit \in Nat, NEW offset \in Nat
  PROVE  /\ PageOf(s, limit, offset) \in Seq(S)
         /\ Len(PageOf(s, limit, offset)) = PageLength(Len(s), limit, offset)
<1> DEFINE n == PageLength(Len(s), limit, offset)
<1>1. /\ n \in Nat
      /\ Len(s) \in Nat
      /\ n > 0 => offset + n <= Len(s)
  <2>1. Len(s) \in Nat
    OBVIOUS
  <2> QED BY <2>1, PageLengthFacts
<1>2. \A i \in 1 .. n : s[offset + i] \in S
  <2> TAKE i \in 1 .. n
  <2>1. n > 0 /\ offset + i \in 1 .. Len(s)
    BY <1>1
  <2> QED BY <2>1
<1> HIDE DEF n
<1>3. /\ [i \in 1 .. n |-> s[offset + i]] \in Seq(S)
      /\ Len([i \in 1 .. n |-> s[offset + i]]) = n
  BY <1>1, <1>2
<1> QED BY <1>3 DEF PageOf, n

LEMMA WindowIsPage ==
  ASSUME NEW S, NEW s \in Seq(S), NEW limit \in Nat, NEW offset \in Nat
  PROVE  Window(s, limit, offset) = PageOf(s, limit, offset)
<1>1. Len(s) \in Nat /\ Len(s) - offset \in Int
  OBVIOUS
<1>2. Max({0, Len(s) - offset}) = IF 0 <= Len(s) - offset
                                    THEN Len(s) - offset ELSE 0
  <2> DEFINE d == Len(s) - offset
  <2>1. 0 \in Int /\ d \in Int
    BY <1>1
  <2> HIDE DEF d
  <2>2. Max({0, d}) = IF 0 <= d THEN d ELSE 0
    BY ONLY <2>1, MinMaxFacts
  <2> QED BY <2>2 DEF d
<1> DEFINE rest == IF 0 <= Len(s) - offset THEN Len(s) - offset ELSE 0
<1>3. rest \in Int
  BY <1>1
<1>4. Min({limit, rest}) = IF limit <= rest THEN limit ELSE rest
  BY <1>3, MinMaxFacts
<1>5. Min({limit, rest}) = PageLength(Len(s), limit, offset)
  BY <1>1, <1>4 DEF PageLength
<1> QED BY <1>2, <1>5 DEF Window, PageOf

(* The memory store panics for every negative offset, and only for those. *)
LEMMA memoryPagePanics ==
  ASSUME NEW S, NEW s \in Seq(S), NEW limit \in Int, NEW offset \in Int
  PROVE  memoryPage(s, limit, offset).panics <=> offset < 0
<1>1. Len(s) \in Nat
  OBVIOUS
<1> DEFINE total == Len(s)
           start == IF offset > total THEN total ELSE offset
           n == IF limit <= 0 \/ limit > total - start
                  THEN total - start ELSE limit
<1>2. /\ offset < 0 => start < 0
      /\ ~(offset < 0) => ~(start < 0)
  BY <1>1
<1>3. start \in Int /\ total \in Int /\ start <= total
  BY <1>1
<1>4. ~(start + n > total)
  <2> HIDE DEF start, total
  <2>1. CASE limit <= 0 \/ limit > total - start
    BY <1>3, <2>1
  <2>2. CASE ~(limit <= 0 \/ limit > total - start)
    BY <1>3, <2>2
  <2> QED BY <2>1, <2>2
<1>5. memoryPage(s, limit, offset).panics = (start < 0 \/ start + n > total)
  BY DEF memoryPage
<1> QED BY <1>2, <1>4, <1>5

LEMMA memoryPageIsPage ==
  ASSUME NEW S, NEW s \in Seq(S), NEW limit \in Nat \ {0}, NEW offset \in Nat
  PROVE  memoryPage(s, limit, offset).page = PageOf(s, limit, offset)
<1>1. Len(s) \in Nat
  OBVIOUS
<1> DEFINE total == Len(s)
           start == IF offset > total THEN total ELSE offset
           n == IF limit <= 0 \/ limit > total - start
                  THEN total - start ELSE limit
<1>2. ~memoryPage(s, limit, offset).panics
  BY memoryPagePanics
<1>3. memoryPage(s, limit, offset).page = SubSeq(s, start + 1, start + n)
  BY <1>2 DEF memoryPage
<1>4. n = PageLength(total, limit, offset)
  BY <1>1 DEF PageLength
<1>5. /\ n \in Nat
      /\ start \in Nat
      /\ start + n <= total
      /\ n > 0 => start = offset
  <2>1. start \in Nat /\ total \in Nat /\ start <= total
    BY <1>1
  <2>2. n \in Nat /\ start + n <= total
    <3> HIDE DEF start, total
    <3> QED BY <2>1
  <2>3. n > 0 => start = offset
    BY <1>1, <2>1
  <2> QED BY <2>1, <2>2, <2>3
<1> HIDE DEF start, n
<1>6. SubSeq(s, start + 1, start + n) = [i \in 1 .. n |-> s[start + i]]
  BY <1>5
<1>7. [i \in 1 .. n |-> s[start + i]] = [i \in 1 .. n |-> s[offset + i]]
  <2>1. \A i \in 1 .. n : start = offset
    BY <1>5
  <2> QED BY <2>1
<1> QED BY <1>3, <1>4, <1>6, <1>7 DEF PageOf

(* A list with a positive limit and an offset that is not negative is the  *)
(* same page in each store, and none of them refuses it.                   *)
LEMMA ProperPages ==
  ASSUME NEW S, NEW s \in Seq(S), NEW limit \in Nat \ {0}, NEW offset \in Nat
  PROVE  /\ ~memoryPage(s, limit, offset).panics
         /\ memoryPage(s, limit, offset).page = PageOf(s, limit, offset)
         /\ ~pgxPage(s, limit, offset).fails
         /\ pgxPage(s, limit, offset).page = PageOf(s, limit, offset)
         /\ ~gormPage(s, limit, offset).fails
         /\ gormPage(s, limit, offset).page = PageOf(s, limit, offset)
<1>1. DefaultLimit(limit) = limit
  BY DEF DefaultLimit
<1>2. Max({0, limit}) = limit /\ Max({0, offset}) = offset
  <2>1. 0 \in Int /\ \A x \in Nat : x \in Int /\ 0 <= x
    OBVIOUS
  <2>2. \A x \in Nat : Max({0, x}) = IF 0 <= x THEN x ELSE 0
    BY <2>1, MinMaxFacts, Zenon
  <2> QED BY <2>1, <2>2
<1>3. Window(s, limit, offset) = PageOf(s, limit, offset)
  BY WindowIsPage
<1>4. /\ ~pgxPage(s, limit, offset).fails
      /\ pgxPage(s, limit, offset).page = PageOf(s, limit, offset)
  <2>1. pgxPage(s, limit, offset).fails
          = (DefaultLimit(limit) < 0 \/ offset < 0)
    BY DEF pgxPage
  <2>2. pgxPage(s, limit, offset).page
          = Window(s, Max({0, DefaultLimit(limit)}), Max({0, offset}))
    BY DEF pgxPage
  <2>3. ~(limit < 0) /\ ~(offset < 0)
    OBVIOUS
  <2> QED BY <1>1, <1>2, <1>3, <2>1, <2>2, <2>3
<1>5. /\ ~gormPage(s, limit, offset).fails
      /\ gormPage(s, limit, offset).page = PageOf(s, limit, offset)
  BY <1>1, <1>3 DEF gormPage
<1> QED BY <1>4, <1>5, memoryPagePanics, memoryPageIsPage

LEMMA sqlPageFacts ==
  ASSUME NEW S, NEW s \in Seq(S), NEW limit \in Int, NEW offset \in Int
  PROVE  /\ sqlPage(s, limit, offset).fails
              => driver = "pgx" /\ (limit < 0 \/ offset < 0)
         /\ limit > 0 /\ offset >= 0
              => sqlPage(s, limit, offset).page = PageOf(s, limit, offset)
<1>1. sqlPage(s, limit, offset).fails
        => driver = "pgx" /\ (limit < 0 \/ offset < 0)
  <2>1. CASE driver = "pgx"
    <3>1. sqlPage(s, limit, offset).fails
            = (DefaultLimit(limit) < 0 \/ offset < 0)
      BY <2>1 DEF sqlPage, pgxPage
    <3>2. DefaultLimit(limit) < 0 => limit < 0
      BY DEF DefaultLimit
    <3> QED BY <2>1, <3>1, <3>2
  <2>2. CASE driver # "pgx"
    <3>1. sqlPage(s, limit, offset).fails = FALSE
      BY <2>2 DEF sqlPage, gormPage
    <3> QED BY <3>1
  <2> QED BY <2>1, <2>2
<1>2. ASSUME limit > 0, offset >= 0
      PROVE  sqlPage(s, limit, offset).page = PageOf(s, limit, offset)
  <2>1. limit \in Nat \ {0} /\ offset \in Nat
    BY <1>2
  <2> QED BY <2>1, ProperPages DEF sqlPage
<1> QED BY <1>1, <1>2

(* The rows in an order are a sequence of all of them. *)
LEMMA OrderFacts ==
  ASSUME NEW S, IsFiniteSet(S), NEW s \in Orders(S)
  PROVE  /\ s \in Seq(S)
         /\ Cardinality(S) \in Nat
         /\ Len(s) = Cardinality(S)
         /\ s \in [1 .. Len(s) -> S]
         /\ \A i, k \in 1 .. Len(s) :
              i < k => s[i] # s[k] /\ table[s[i]].created >= table[s[k]].created
         /\ \A x \in S : \E i \in 1 .. Len(s) : s[i] = x
<1>1. Cardinality(S) \in Nat
  BY FS_CardinalityType
<1> DEFINE n == Cardinality(S)
<1>2. /\ s \in [1 .. n -> S]
      /\ \A i, k \in 1 .. n :
           i < k => s[i] # s[k] /\ table[s[i]].created >= table[s[k]].created
  BY DEF Orders
<1> HIDE DEF n
<1>3. s \in Seq(S) /\ Len(s) = n
  BY <1>1, <1>2 DEF n
<1>4. s \in Injection(1 .. n, S)
  <2>1. \A i, k \in 1 .. n : i < k \/ k < i \/ i = k
    BY <1>1 DEF n
  <2> QED BY <1>2, <2>1 DEF Injection, IsInjective
<1>5. IsFiniteSet(1 .. n) /\ Cardinality(1 .. n) = n
  BY <1>1, FS_Interval DEF n
<1>6. s \in Surjection(1 .. n, S)
  BY <1>4, <1>5, FS_Injection DEF n
<1> QED BY <1>1, <1>2, <1>3, <1>6 DEF Surjection, n

LEMMA StoredFinite ==
  ASSUME NEW f
  PROVE  IsFiniteSet(Stored) /\ IsFiniteSet(Matching(f))
<1>1. Stored \in SUBSET Jobs /\ Matching(f) \in SUBSET Jobs
  BY DEF Stored, Matching
<1> QED BY <1>1, FS_Subset, ApiServerAssumption DEF ApiServerAssumption

-----------------------------------------------------------------------------
(* Requests, answers and walks. *)

(* The COUNT of all jobs is at most what the SELECT will find. *)
TotalsInv ==
  \A c \in Clients :
    At(c, "select") /\ Asked(c).filter = AnyStatus
      => req[c].total <= Cardinality(Stored)


PanicsInv ==
  \A c \in Clients :
    At(c, "panicked") => driver = "memory" /\ Asked(c).offset < 0

(* The rows before job j in a list.  A walk that has not seen j has not    *)
(* come past them.                                                         *)
Ahead(filter, j) == {i \in Matching(filter) : table[i].created > table[j].created}

WalkOK(w) ==
  w # NoWalk /\ ~w.moved =>
    /\ w.due \subseteq Stored
    /\ w.pc = "on" => w.due \subseteq Matching(w.filter)
    /\ \A j \in w.due :
         Unique(j) =>
           \/ j \in w.seen
           \/ w.pc = "on" /\ w.next <= Cardinality(Ahead(w.filter, j))

WalkInv == \A c \in Clients : WalkOK(walk[c])

ReadInv ==
  /\ TypeOK
  /\ RateInv
  /\ TotalsInv
  /\ PanicsInv
  /\ ShortPageReachesTotal
  /\ WalkInv

RequestRecord == [pc : RequestPC, query : Query, total : Nat]

LEMMA QueryFacts ==
  ASSUME NEW query \in Query
  PROVE  query.filter \in Filter /\ query.limit \in Int /\ query.offset \in Int
BY DEF Query, Filter

LEMMA RequestFacts ==
  ASSUME TypeOK, NEW c \in Clients, NEW pc \in RequestPC, At(c, pc)
  PROVE  /\ req[c] # Idle
         /\ req[c] \in RequestRecord
         /\ Asked(c) \in Query
         /\ req[c].total \in Nat
<1>1. req[c] \in {Idle} \cup RequestRecord
  BY DEF TypeOK, RequestRecord
<1>2. req[c] # Idle
  BY DEF At, Idle, RequestPC
<1> QED BY <1>1, <1>2 DEF RequestRecord, Asked

(* What the two ways to list jobs have in common: c gets a page of some    *)
(* order of the rows, with a total that does not exceed them.              *)
Served(c, s, page, total) ==
  /\ s \in Orders(Matching(Asked(c).filter))
  /\ AnswerPage(c, page, total)
  /\ Proper(Asked(c)) => page = PageOf(s, Asked(c).limit, Asked(c).offset)
  /\ total \in Nat
  /\ Asked(c).filter = AnyStatus => total <= Len(s)

Refused(c) ==
  /\ Answer(c, 500)
  /\ walk' = walk
  /\ Explained(Asked(c))

Panics(c) ==
  /\ At(c, "handle")
  /\ Go(c, "panicked")
  /\ UNCHANGED <<walk, answer>>
  /\ driver = "memory" /\ Asked(c).offset < 0

LEMMA MemoryListCases ==
  ASSUME ReadInv, NEW c \in Clients, ListJobs_memory(c)
  PROVE  (\E s, page, total : Served(c, s, page, total)) \/ Panics(c)
<1>1. Asked(c) \in Query /\ driver = "memory" /\ At(c, "handle")
  BY RequestFacts DEF ReadInv, ListJobs_memory, RequestPC
<1>2. /\ Asked(c).limit \in Int /\ Asked(c).offset \in Int
  BY <1>1, QueryFacts
<1> DEFINE M == Matching(Asked(c).filter)
           result(s) == memoryPage(s, Asked(c).limit, Asked(c).offset)
<1>3. PICK s \in Orders(M) :
        IF result(s).panics THEN Go(c, "panicked") /\ UNCHANGED <<walk, answer>>
                            ELSE AnswerPage(c, result(s).page, Len(s))
  BY DEF ListJobs_memory
<1>4. s \in Seq(M) /\ Len(s) \in Nat
  BY StoredFinite, OrderFacts
<1>5. result(s).panics <=> Asked(c).offset < 0
  BY <1>2, <1>4, memoryPagePanics
<1>6. CASE result(s).panics
  BY <1>1, <1>3, <1>5, <1>6 DEF Panics
<1>7. CASE ~result(s).panics
  <2>1. Proper(Asked(c)) =>
          result(s).page = PageOf(s, Asked(c).limit, Asked(c).offset)
    <3> SUFFICES ASSUME Proper(Asked(c))
                 PROVE  result(s).page = PageOf(s, Asked(c).limit, Asked(c).offset)
      OBVIOUS
    <3>1. Asked(c).limit \in Nat \ {0} /\ Asked(c).offset \in Nat
      BY <1>2 DEF Proper
    <3> QED BY <1>4, <3>1, ProperPages
  <2>2. AnswerPage(c, result(s).page, Len(s))
    BY <1>3, <1>7
  <2> HIDE DEF result
  <2>3. Len(s) <= Len(s)
    BY <1>4
  <2>4. Served(c, s, result(s).page, Len(s))
    BY <1>4, <2>1, <2>2, <2>3 DEF Served
  <2> QED BY <2>4
<1> QED BY <1>6, <1>7

LEMMA SqlListCases ==
  ASSUME ReadInv, NEW c \in Clients, SelectJobs(c)
  PROVE  (\E s, page, total : Served(c, s, page, total)) \/ Refused(c)
<1>1. Asked(c) \in Query /\ req[c].total \in Nat /\ At(c, "select")
  BY RequestFacts DEF ReadInv, SelectJobs, RequestPC
<1>2. /\ Asked(c).limit \in Int /\ Asked(c).offset \in Int
  BY <1>1, QueryFacts
<1> DEFINE M == Matching(Asked(c).filter)
           result(s) == sqlPage(s, Asked(c).limit, Asked(c).offset)
<1>3. PICK s \in Orders(M) :
        IF result(s).fails THEN Answer(c, 500) /\ UNCHANGED walk
                           ELSE AnswerPage(c, result(s).page, req[c].total)
  BY DEF SelectJobs
<1>4. s \in Seq(M) /\ Len(s) = Cardinality(M)
  BY StoredFinite, OrderFacts
<1>5. result(s).fails => /\ driver = "pgx"
                         /\ Asked(c).limit < 0 \/ Asked(c).offset < 0
  BY <1>2, <1>4, sqlPageFacts
<1>6. CASE result(s).fails
  BY <1>3, <1>5, <1>6 DEF Refused, Explained
<1>7. CASE ~result(s).fails
  <2>1. Proper(Asked(c)) =>
          result(s).page = PageOf(s, Asked(c).limit, Asked(c).offset)
    BY <1>2, <1>4, sqlPageFacts DEF Proper
  <2>2. AnswerPage(c, result(s).page, req[c].total)
    BY <1>3, <1>7
  <2>3. Asked(c).filter = AnyStatus => req[c].total <= Len(s)
    <3>1. Matching(AnyStatus) = Stored
      BY DEF Matching
    <3> QED BY <1>1, <1>4, <3>1 DEF ReadInv, TotalsInv
  <2> HIDE DEF result
  <2>4. Served(c, s, result(s).page, req[c].total)
    BY <1>1, <1>3, <2>1, <2>2, <2>3 DEF Served
  <2> QED BY <2>4
<1> QED BY <1>6, <1>7

(* An answer that is not a page. *)
Replies(c) ==
  /\ \E code \in {200, 404, 429, 500} :
       /\ Answer(c, code)
       /\ code = 200 => Asked(c).job # "none"
       /\ code = 500 /\ faults' = faults => Explained(Asked(c))
  /\ UNCHANGED <<limiterVars, configVars, tableVars, walk, sent>>
  /\ faults' \in {faults, faults + 1}

Lists(c) ==
  /\ Asked(c) \in Query
  /\ \E s, page, total : Served(c, s, page, total)
  /\ UNCHANGED <<limiterVars, configVars, tableVars, boundVars>>

Breaks(c) ==
  /\ Panics(c)
  /\ UNCHANGED <<limiterVars, configVars, tableVars, boundVars>>

LEMMA ServeCases ==
  ASSUME ReadInv, NEW c \in Clients, Serve(c)
  PROVE  \/ Limit(c) \/ Admit(c) \/ CountJobs(c)
         \/ Replies(c) \/ Lists(c) \/ Breaks(c)
<1>1. CASE Reject(c)
  BY <1>1 DEF Reject, Refuse, Replies, tableVars, boundVars
<1>2. CASE Recover(c)
  <2>1. Explained(Asked(c))
    BY <1>2 DEF Recover, ReadInv, PanicsInv, Explained
  <2> QED BY <1>2, <2>1 DEF Recover, Replies, tableVars, boundVars
<1>3. CASE GetJob(c)
  <2> DEFINE code == IF table[Asked(c).job] # NoRow THEN 200 ELSE UnknownJobCode
  <2>1. Answer(c, code) /\ Asked(c).job # "none"
    BY <1>3 DEF GetJob
  <2>2. code = 500 => driver = "pgx" /\ table[Asked(c).job] = NoRow
    BY DEF UnknownJobCode
  <2>3. code \in {200, 404, 500}
    BY DEF UnknownJobCode
  <2>4. code = 500 => Explained(Asked(c))
    BY <2>1, <2>2 DEF Explained
  <2>5. UNCHANGED <<limiterVars, configVars, tableVars, walk, boundVars>>
    BY <1>3 DEF GetJob
  <2> HIDE DEF code
  <2> QED BY <2>1, <2>3, <2>4, <2>5 DEF Replies, boundVars
<1>4. CASE ListJobs_memory(c)
  <2>1. Asked(c) \in Query
    BY <1>4, RequestFacts DEF ListJobs_memory, ReadInv, RequestPC
  <2> QED BY <1>4, <2>1, MemoryListCases DEF ListJobs_memory, Lists, Breaks
<1>5. CASE SelectJobs(c)
  <2>1. UNCHANGED <<limiterVars, configVars, tableVars, boundVars>>
    BY <1>5 DEF SelectJobs
  <2>2. CASE Refused(c)
    BY <2>1, <2>2 DEF Refused, Replies, boundVars
  <2>3. Asked(c) \in Query
    BY <1>5, RequestFacts DEF SelectJobs, ReadInv, RequestPC
  <2> QED BY <1>5, <2>1, <2>2, <2>3, SqlListCases DEF Lists
<1>6. CASE StoreFails(c)
  <2>1. Answer(c, 500) /\ faults' = faults + 1 /\ faults \in Nat
        /\ UNCHANGED <<limiterVars, configVars, tableVars, walk, sent>>
    BY <1>6 DEF StoreFails, ReadInv, TypeOK
  <2>2. faults' # faults
    BY <2>1
  <2> QED BY <2>1, <2>2 DEF Replies
<1> QED BY <1>1, <1>2, <1>3, <1>4, <1>5, <1>6 DEF Serve

(* The types, step by step. *)

LimiterStep == \E c \in Clients : getLimiter(IP(c)) \/ Allow(IP(c))

LEMMA LimiterTypes ==
  ASSUME TypeOK, RateInv, LimiterStep \/ Tick \/ UNCHANGED limiterVars
  PROVE  LimiterTypeOK'
<1>1. /\ now \in Nat
      /\ limiters \in [IPs -> Limiter \cup {NoLimiter}]
      /\ admitted \in [IPs -> Seq(Nat)]
  BY DEF TypeOK, LimiterTypeOK
<1>2. Full \in Nat /\ Cost \in Nat
  BY RateFacts
<1>3. CASE Tick \/ UNCHANGED limiterVars
  BY <1>1, <1>3 DEF Tick, limiterVars, LimiterTypeOK, Limiter, NoLimiter
<1>4. ASSUME NEW ip \in IPs, getLimiter(ip)
      PROVE  LimiterTypeOK'
  <2>1. NewLimiter \in Limiter
    BY <1>1, <1>2 DEF NewLimiter, Limiter
  <2> QED BY <1>1, <1>4, <2>1
          DEF getLimiter, LimiterTypeOK, Limiter, NoLimiter
<1>5. ASSUME NEW ip \in IPs, Allow(ip)
      PROVE  LimiterTypeOK'
  <2>1. Available(ip) \in Nat /\ Available(ip) >= Cost
    BY <1>5, AvailableFacts DEF RateInv, Allow
  <2>2. Available(ip) - Cost \in Nat
    BY <1>2, <2>1
  <2>3. [tokens |-> Available(ip) - Cost, last |-> now] \in Limiter
    BY <1>1, <2>2 DEF Limiter
  <2>4. limiters' \in [IPs -> Limiter \cup {NoLimiter}]
    BY <1>1, <1>5, <2>3 DEF Allow
  <2>5. admitted' \in [IPs -> Seq(Nat)]
    BY <1>1, <1>5 DEF Allow
  <2>6. now' \in Nat
    BY <1>1, <1>5 DEF Allow
  <2> QED BY <2>4, <2>5, <2>6 DEF LimiterTypeOK, Limiter, NoLimiter
<1> QED BY <1>3, <1>4, <1>5, ApiServerAssumption DEF LimiterStep, IP,
        ApiServerAssumption

TableTypeOK ==
  /\ clock \in Nat
  /\ stamped \in [Jobs -> 0 .. clock \cup {-1}]
  /\ table \in [Jobs -> Row \cup {NoRow}]

LEMMA StampTypes ==
  ASSUME TypeOK, NEW j \in Jobs, Stamp(j)
  PROVE  /\ clock' \in Nat
         /\ stamped' \in [Jobs -> 0 .. clock' \cup {-1}]
         /\ stamped'[j] \in Nat
<1>1. /\ clock \in Nat
      /\ clock' \in {clock, clock + 1}
      /\ stamped \in [Jobs -> 0 .. clock \cup {-1}]
      /\ stamped' = [stamped EXCEPT ![j] = clock']
  BY DEF TypeOK, Stamp
<1>2. clock' \in Nat /\ clock' \in 0 .. clock'
      /\ \A x \in 0 .. clock \cup {-1} : x \in 0 .. clock' \cup {-1}
  BY <1>1
<1>3. stamped'[j] = clock'
  BY <1>1
<1>4. \A i \in Jobs : stamped'[i] \in 0 .. clock' \cup {-1}
  BY <1>1, <1>2
<1> QED BY <1>1, <1>2, <1>3, <1>4

LEMMA SettledRow ==
  ASSUME NEW row \in Row
  PROVE  /\ [row EXCEPT !.status = "SUCCEEDED"] \in Row
         /\ [row EXCEPT !.status = "SUCCEEDED"].created = row.created
         /\ [row EXCEPT !.status = "SUCCEEDED"].status = "SUCCEEDED"
BY DEF Row, Status

LEMMA NoRowFacts ==
  /\ NoRow \notin Row
  /\ NoRow.status = "ABSENT"
  /\ \A row \in Row : row # NoRow /\ row.created \in Nat
<1>1. \A row \in Row : row.created \in Nat /\ row.created # -1
  BY DEF Row
<1>2. NoRow.created = -1 /\ NoRow.status = "ABSENT"
  BY DEF NoRow
<1> QED BY <1>1, <1>2

LEMMA TableTypes ==
  ASSUME TypeOK, NEW j \in Jobs, StampRow(j) \/ InsertRow(j) \/ SettleRow(j)
  PROVE  TableTypeOK'
<1>1. TableTypeOK
  BY DEF TypeOK, TableTypeOK
<1>2. CASE StampRow(j)
  BY <1>1, <1>2, StampTypes DEF StampRow, TableTypeOK, Row, NoRow
<1>3. CASE InsertRow(j)
  <2>1. /\ clock' \in Nat
        /\ stamped' \in [Jobs -> 0 .. clock' \cup {-1}]
        /\ stamped'[j] \in Nat
    <3>1. CASE driver = "memory"
      BY <1>3, <3>1, StampTypes DEF InsertRow
    <3>2. CASE driver # "memory"
      <4>1. stamped' = stamped /\ clock' = clock /\ stamped[j] >= 0
        BY <1>3, <3>2 DEF InsertRow
      <4> QED BY <1>1, <4>1 DEF TableTypeOK
    <3> QED BY <3>1, <3>2
  <2>2. [created |-> stamped'[j], status |-> "QUEUED"] \in Row
    BY <2>1 DEF Row, Status
  <2>3. table' \in [Jobs -> Row \cup {NoRow}]
    BY <1>1, <1>3, <2>2 DEF InsertRow, TableTypeOK
  <2> QED BY <2>1, <2>3 DEF TableTypeOK, Row, NoRow, Status
<1>4. CASE SettleRow(j)
  <2>1. table[j] \in Row
    BY <1>1, <1>4, NoRowFacts DEF SettleRow, TableTypeOK
  <2>2. table' \in [Jobs -> Row \cup {NoRow}]
    BY <1>1, <1>4, <2>1, SettledRow DEF SettleRow, TableTypeOK
  <2>3. clock' = clock /\ stamped' = stamped
    BY <1>4 DEF SettleRow
  <2> QED BY <1>1, <2>2, <2>3 DEF TableTypeOK, Row, NoRow, Status
<1> QED BY <1>2, <1>3, <1>4

RequestTypeOK ==
  /\ req \in [Clients -> {Idle} \cup RequestRecord]
  /\ \A c \in Clients : answer[c].code \in {0, 200, 404, 429, 500}

(* How one client's request and answer may change. *)
LEMMA OneRequestTypes ==
  ASSUME ReadInv, NEW c \in Clients,
         req' = [req EXCEPT ![c] = req'[c]],
         answer' = [answer EXCEPT ![c] = answer'[c]],
         req'[c] \in {Idle} \cup RequestRecord,
         answer'[c].code \in {0, 200, 404, 429, 500}
  PROVE  RequestTypeOK'
<1>1. /\ req \in [Clients -> {Idle} \cup RequestRecord]
      /\ answer = [d \in Clients |-> answer[d]]
      /\ \A d \in Clients : answer[d].code \in {0, 200, 404, 429, 500}
  BY DEF ReadInv, RateInv, ClientInv, TypeOK, RequestRecord
<1>2. req' \in [Clients -> {Idle} \cup RequestRecord]
  BY <1>1
<1>3. \A d \in Clients : answer'[d].code \in {0, 200, 404, 429, 500}
  BY <1>1
<1>4. Idle' = Idle /\ RequestRecord' = RequestRecord
  BY DEF Idle, RequestRecord, RequestPC, Query, Filter
<1> QED BY <1>2, <1>3, <1>4 DEF RequestTypeOK

LEMMA AnswerIsRecord ==
  ASSUME ReadInv, NEW c \in Clients, NEW code, Answer(c, code)
  PROVE  /\ req'[c] = Idle
         /\ answer'[c] = [code |-> code, query |-> Asked(c)]
         /\ answer' = [answer EXCEPT ![c] = answer'[c]]
         /\ req' = [req EXCEPT ![c] = req'[c]]
<1>1. /\ req = [d \in Clients |-> req[d]]
      /\ answer = [d \in Clients |-> answer[d]]
  BY DEF ReadInv, RateInv, ClientInv
<1> QED BY <1>1 DEF Answer

LEMMA PageIsRecord ==
  ASSUME ReadInv, NEW c \in Clients, NEW page, NEW total,
         AnswerPage(c, page, total)
  PROVE  /\ req'[c] = Idle
         /\ answer'[c] = [code |-> 200, query |-> Asked(c),
                          listed |-> Len(page), total |-> total]
         /\ answer' = [answer EXCEPT ![c] = answer'[c]]
         /\ req' = [req EXCEPT ![c] = req'[c]]
<1>1. /\ req = [d \in Clients |-> req[d]]
      /\ answer = [d \in Clients |-> answer[d]]
  BY DEF ReadInv, RateInv, ClientInv
<1> QED BY <1>1 DEF AnswerPage

LEMMA GoIsRecord ==
  ASSUME ReadInv, NEW c \in Clients, NEW pc, Go(c, pc), req[c] # Idle
  PROVE  /\ req'[c] = [pc |-> pc, query |-> Asked(c), total |-> req[c].total]
         /\ req' = [req EXCEPT ![c] = req'[c]]
<1>1. /\ req = [d \in Clients |-> req[d]]
      /\ req[c] \in RequestRecord
  BY DEF ReadInv, RateInv, ClientInv, TypeOK, RequestRecord
<1>2. [req[c] EXCEPT !.pc = pc]
        = [pc |-> pc, query |-> Asked(c), total |-> req[c].total]
  BY <1>1 DEF RequestRecord, Asked
<1>3. req' = [req EXCEPT ![c] = [req[c] EXCEPT !.pc = pc]]
  BY DEF Go
<1> QED BY <1>1, <1>2, <1>3

LEMMA CountIsRecord ==
  ASSUME ReadInv, NEW c \in Clients, CountJobs(c)
  PROVE  /\ req'[c] = [pc |-> "select", query |-> Asked(c),
                       total |-> Cardinality(Matching(Asked(c).filter))]
         /\ req' = [req EXCEPT ![c] = req'[c]]
         /\ Asked(c) \in Query
<1> DEFINE total == Cardinality(Matching(Asked(c).filter))
<1>1. /\ req = [d \in Clients |-> req[d]]
      /\ req[c] \in RequestRecord
      /\ Asked(c) \in Query
  BY RequestFacts DEF ReadInv, RateInv, ClientInv, CountJobs, RequestPC
<1>2. req' = [req EXCEPT ![c].pc = "select", ![c].total = total]
  BY DEF CountJobs
<1> HIDE DEF total
<1>3. PICK p, q, t : req[c] = [pc |-> p, query |-> q, total |-> t]
  BY <1>1 DEF RequestRecord
<1> DEFINE moved == [req EXCEPT ![c] = [req[c] EXCEPT !.pc = "select"]]
<1>4. moved[c] = [pc |-> "select", query |-> q, total |-> t]
  BY <1>1, <1>3, RecordMoves
<1>5. [moved[c] EXCEPT !.total = total]
        = [pc |-> "select", query |-> q, total |-> total]
  BY <1>4, RecordCounts
<1>6. req' = [moved EXCEPT ![c] = [moved[c] EXCEPT !.total = total]]
  BY <1>2
<1>7. c \in DOMAIN moved
  BY <1>1
<1> HIDE DEF moved
<1>8. req'[c] = [pc |-> "select", query |-> q, total |-> total]
  BY <1>5, <1>6, <1>7
<1>9. q = Asked(c)
  BY <1>3 DEF Asked
<1>10. req' = [req EXCEPT ![c] = req'[c]]
  BY <1>1, <1>2
<1> QED BY <1>1, <1>8, <1>9, <1>10 DEF total

LEMMA SendIsRecord ==
  ASSUME ReadInv, NEW c \in Clients, NEW query, Send(c, query)
  PROVE  /\ req'[c] = [pc |-> IF limited THEN "limit" ELSE "handle",
                       query |-> query, total |-> 0]
         /\ answer'[c] = NoAnswer
         /\ answer' = [answer EXCEPT ![c] = answer'[c]]
         /\ req' = [req EXCEPT ![c] = req'[c]]
<1>1. /\ req = [d \in Clients |-> req[d]]
      /\ answer = [d \in Clients |-> answer[d]]
  BY DEF ReadInv, RateInv, ClientInv
<1> QED BY <1>1 DEF Send

(* What every request that is sent asks for. *)
LEMMA AskCases ==
  ASSUME ReadInv, NEW c \in Clients, Ask(c)
  PROVE  \E query \in Query :
           /\ Send(c, query)
           /\ \/ walk' = walk
              \/ \E f \in Filter : BeginWalk(c, f)
<1>1. PageSize \in Int
  BY ApiServerAssumption DEF ApiServerAssumption
<1>2. ASSUME NEW f \in Filter, BeginWalk(c, f)
      PROVE  \E query \in Query :
               Send(c, query) /\ \E g \in Filter : BeginWalk(c, g)
  <2> DEFINE query == [job |-> "none", filter |-> f,
                       limit |-> PageSize, offset |-> 0]
  <2>1. query \in Query
    BY <1>1 DEF Query
  <2>2. Send(c, query)
    BY <1>2 DEF BeginWalk
  <2> QED BY <1>2, <2>1, <2>2
<1>3. CASE AskPage(c)
  <2> DEFINE query == [job |-> "none", filter |-> walk[c].filter,
                       limit |-> PageSize, offset |-> walk[c].next]
  <2>1. walk[c] \in Walk
    BY <1>3 DEF AskPage, ReadInv, TypeOK, NoWalk
  <2>2. query \in Query
    BY <1>1, <2>1 DEF Query, Walk
  <2>3. Send(c, query) /\ walk' = walk
    BY <1>3 DEF AskPage
  <2> QED BY <2>2, <2>3
<1>4. CASE AskOddRange(c)
  <2>1. PICK r \in OddRanges :
          Send(c, [job |-> "none", filter |-> AnyStatus,
                   limit |-> r[1], offset |-> r[2]])
    BY <1>4 DEF AskOddRange
  <2>2. r[1] \in Int /\ r[2] \in Int
    BY ApiServerAssumption DEF ApiServerAssumption
  <2>3. [job |-> "none", filter |-> AnyStatus,
         limit |-> r[1], offset |-> r[2]] \in Query
    BY <2>2 DEF Query, Filter
  <2> QED BY <1>4, <2>1, <2>3 DEF AskOddRange
<1>5. ASSUME NEW j \in Jobs, AskJob(c, j)
      PROVE  \E query \in Query : Send(c, query) /\ walk' = walk
  <2>1. [job |-> j, filter |-> AnyStatus, limit |-> 0, offset |-> 0] \in Query
    BY DEF Query
  <2> QED BY <1>5, <2>1 DEF AskJob
<1> QED BY <1>2, <1>3, <1>4, <1>5 DEF Ask

LEMMA RequestTypes ==
  ASSUME ReadInv, [Next]_vars
  PROVE  RequestTypeOK'
<1>1. /\ req \in [Clients -> {Idle} \cup RequestRecord]
      /\ \A d \in Clients : answer[d].code \in {0, 200, 404, 429, 500}
  BY DEF ReadInv, TypeOK, RequestRecord
<1>2. ASSUME UNCHANGED <<req, answer>>
      PROVE  RequestTypeOK'
  BY <1>1, <1>2 DEF RequestTypeOK, Idle, RequestRecord, RequestPC, Query, Filter
<1>3. ASSUME NEW c \in Clients, Ask(c)
      PROVE  RequestTypeOK'
  <2>1. PICK query \in Query : Send(c, query)
    BY <1>3, AskCases
  <2>2. req'[c] = [pc |-> IF limited THEN "limit" ELSE "handle",
                   query |-> query, total |-> 0]
    BY <2>1, SendIsRecord
  <2>3. req'[c] \in RequestRecord
    BY <2>2 DEF RequestRecord, RequestPC
  <2>4. /\ answer'[c] = NoAnswer
        /\ answer' = [answer EXCEPT ![c] = answer'[c]]
        /\ req' = [req EXCEPT ![c] = req'[c]]
    BY <2>1, SendIsRecord
  <2>5. answer'[c].code \in {0, 200, 404, 429, 500}
    BY <2>4 DEF NoAnswer
  <2> QED BY <2>3, <2>4, <2>5, OneRequestTypes
<1>4. ASSUME NEW c \in Clients, NEW pc \in RequestPC, Go(c, pc),
             req[c] # Idle, answer' = answer
      PROVE  RequestTypeOK'
  <2>1. Asked(c) \in Query /\ req[c].total \in Nat
    BY <1>1, <1>4 DEF RequestRecord, Asked
  <2>2. /\ req'[c] = [pc |-> pc, query |-> Asked(c), total |-> req[c].total]
        /\ req' = [req EXCEPT ![c] = req'[c]]
    BY <1>4, GoIsRecord
  <2>3. req'[c] \in RequestRecord
    BY <2>1, <2>2 DEF RequestRecord
  <2>4. /\ answer' = [answer EXCEPT ![c] = answer'[c]]
        /\ answer'[c].code \in {0, 200, 404, 429, 500}
    BY <1>1, <1>4 DEF ReadInv, RateInv, ClientInv
  <2> QED BY <2>2, <2>3, <2>4, OneRequestTypes
<1>5. ASSUME NEW c \in Clients, Limit(c) \/ Admit(c) \/ Breaks(c)
      PROVE  RequestTypeOK'
  BY <1>4, <1>5 DEF Limit, Admit, Breaks, Panics, At, Idle, RequestPC
<1>6. ASSUME NEW c \in Clients, CountJobs(c)
      PROVE  RequestTypeOK'
  <2>1. Cardinality(Matching(Asked(c).filter)) \in Nat
    BY StoredFinite, FS_CardinalityType
  <2>2. /\ req'[c] = [pc |-> "select", query |-> Asked(c),
                      total |-> Cardinality(Matching(Asked(c).filter))]
        /\ req' = [req EXCEPT ![c] = req'[c]]
        /\ Asked(c) \in Query
    BY <1>6, CountIsRecord
  <2>3. req'[c] \in RequestRecord
    BY <2>1, <2>2 DEF RequestRecord, RequestPC
  <2>4. /\ answer' = [answer EXCEPT ![c] = answer'[c]]
        /\ answer'[c].code \in {0, 200, 404, 429, 500}
    BY <1>1, <1>6 DEF CountJobs, ReadInv, RateInv, ClientInv
  <2> QED BY <2>2, <2>3, <2>4, OneRequestTypes
<1>7. ASSUME NEW c \in Clients, Replies(c) \/ Lists(c)
      PROVE  RequestTypeOK'
  <2>1. CASE Replies(c)
    <3>1. PICK code \in {200, 404, 429, 500} : Answer(c, code)
      BY <2>1 DEF Replies
    <3>2. /\ req'[c] = Idle
          /\ answer'[c] = [code |-> code, query |-> Asked(c)]
          /\ answer' = [answer EXCEPT ![c] = answer'[c]]
          /\ req' = [req EXCEPT ![c] = req'[c]]
      BY <3>1, AnswerIsRecord
    <3>3. answer'[c].code \in {0, 200, 404, 429, 500}
      BY <3>2
    <3> QED BY <3>2, <3>3, OneRequestTypes
  <2>2. CASE Lists(c)
    <3>1. PICK page, total : AnswerPage(c, page, total)
      BY <2>2 DEF Lists, Served
    <3>2. /\ req'[c] = Idle
          /\ answer'[c] = [code |-> 200, query |-> Asked(c),
                           listed |-> Len(page), total |-> total]
          /\ answer' = [answer EXCEPT ![c] = answer'[c]]
          /\ req' = [req EXCEPT ![c] = req'[c]]
      BY <3>1, PageIsRecord
    <3>3. answer'[c].code \in {0, 200, 404, 429, 500}
      BY <3>2
    <3> QED BY <3>2, <3>3, OneRequestTypes
  <2> QED BY <1>7, <2>1, <2>2
<1>8. CASE \E j \in Jobs : StampRow(j) \/ InsertRow(j) \/ SettleRow(j)
  BY <1>2, <1>8 DEF StampRow, InsertRow, SettleRow, clientVars
<1>9. CASE TimePasses \/ UNCHANGED vars
  BY <1>2, <1>9 DEF TimePasses, vars, clientVars
<1> QED BY <1>3, <1>5, <1>6, <1>7, <1>8, <1>9, ServeCases DEF Next

WalkTypeOK == walk \in [Clients -> Walk \cup {NoWalk}]

(* A walk asks for pages of rows: what it has seen are jobs. *)
LEMMA ServedPage ==
  ASSUME ReadInv, NEW c \in Clients, NEW s, NEW page, NEW total,
         Served(c, s, page, total),
         walk[c].pc = "on",
         Asked(c).limit = PageSize, Asked(c).offset = walk[c].next
  PROVE  /\ walk[c] \in Walk
         /\ s \in Seq(Matching(Asked(c).filter))
         /\ page = PageOf(s, PageSize, walk[c].next)
         /\ page \in Seq(Matching(Asked(c).filter))
         /\ {page[i] : i \in DOMAIN page} \subseteq Jobs
<1>1. PageSize \in Nat \ {0}
  BY ApiServerAssumption DEF ApiServerAssumption
<1>2. walk[c] \in Walk
  BY DEF ReadInv, TypeOK, NoWalk
<1>3. walk[c].next \in Nat
  BY <1>2 DEF Walk
<1>4. page = PageOf(s, PageSize, walk[c].next)
  BY <1>1, <1>3 DEF Served, Proper
<1>5. s \in Seq(Matching(Asked(c).filter))
  BY StoredFinite, OrderFacts DEF Served
<1>6. page \in Seq(Matching(Asked(c).filter))
  BY <1>1, <1>3, <1>4, <1>5, PageOfFacts
<1>7. Matching(Asked(c).filter) \subseteq Jobs
  BY DEF Matching, Stored
<1> QED BY <1>2, <1>4, <1>5, <1>6, <1>7

LEMMA WalkEnds ==
  ASSUME NEW p, NEW f, NEW n, NEW v, NEW d, NEW m, NEW x
  PROVE  [[pc |-> p, filter |-> f, next |-> n, seen |-> v, due |-> d,
           moved |-> m] EXCEPT !.pc = x]
           = [pc |-> x, filter |-> f, next |-> n, seen |-> v, due |-> d,
              moved |-> m]
OBVIOUS

(* The walk after a page of its own, and after any other one. *)
Follows(c) ==
  /\ walk[c].pc = "on"
  /\ Asked(c).limit = PageSize /\ Asked(c).offset = walk[c].next
  /\ Asked(c).filter = walk[c].filter

LEMMA NextPage ==
  ASSUME ReadInv, NEW c \in Clients, NEW s, NEW page, NEW total,
         Served(c, s, page, total), Follows(c)
  PROVE  walk' = [walk EXCEPT ![c] =
           [pc |-> IF Len(page) >= PageSize THEN "on" ELSE "done",
            filter |-> walk[c].filter,
            next |-> walk[c].next + PageSize,
            seen |-> walk[c].seen \cup {page[i] : i \in DOMAIN page},
            due |-> walk[c].due,
            moved |-> walk[c].moved]]
<1>1. walk[c] \in Walk
  BY ServedPage DEF Follows
<1>2. /\ walk = [d \in Clients |-> walk[d]]
      /\ AnswerPage(c, page, total)
  BY DEF ReadInv, TypeOK, Served
<1> DEFINE pages == {page[i] : i \in DOMAIN page}
           pc == IF Len(page) >= PageSize THEN "on" ELSE "done"
<1>3. walk' = [walk EXCEPT ![c].next = @ + PageSize,
                           ![c].seen = @ \cup pages,
                           ![c].pc = pc]
  BY <1>2 DEF AnswerPage, Follows
<1> HIDE DEF pages, pc
<1>4. PICK p, f, n, v, d, m :
        walk[c] = [pc |-> p, filter |-> f, next |-> n, seen |-> v,
                   due |-> d, moved |-> m]
  BY <1>1 DEF Walk
<1> DEFINE first == [walk[c] EXCEPT !.next = @ + PageSize]
           second == [first EXCEPT !.seen = @ \cup pages]
           third == [second EXCEPT !.pc = pc]
<1>5. first = [pc |-> p, filter |-> f, next |-> n + PageSize, seen |-> v,
               due |-> d, moved |-> m]
  BY <1>4
<1>6. second = [pc |-> p, filter |-> f, next |-> n + PageSize,
                seen |-> v \cup pages, due |-> d, moved |-> m]
  <2> HIDE DEF first
  <2> QED BY <1>5
<1>7. third = [pc |-> pc, filter |-> f, next |-> n + PageSize,
               seen |-> v \cup pages, due |-> d, moved |-> m]
  <2> DEFINE n2 == n + PageSize
             v2 == v \cup pages
  <2> SUFFICES third = [pc |-> pc, filter |-> f, next |-> n2, seen |-> v2,
                        due |-> d, moved |-> m]
    OBVIOUS
  <2>1. second = [pc |-> p, filter |-> f, next |-> n2, seen |-> v2,
                  due |-> d, moved |-> m]
    BY <1>6
  <2> HIDE DEF first, second, n2, v2
  <2>2. [second EXCEPT !.pc = pc]
          = [pc |-> pc, filter |-> f, next |-> n2, seen |-> v2,
             due |-> d, moved |-> m]
    BY <2>1, WalkEnds
  <2> QED BY <2>2
<1>8. walk' = [walk EXCEPT ![c] = third]
  BY <1>2, <1>3
<1> HIDE DEF first, second, third
<1> QED BY <1>4, <1>7, <1>8 DEF pages, pc

LEMMA SettledWalk ==
  ASSUME TypeOK, NEW j \in Jobs, SettleRow(j), NEW c \in Clients
  PROVE  /\ walk'[c] \in Walk \cup {NoWalk}
         /\ \/ /\ walk'[c] = walk[c]
               /\ walk[c].pc = "on" => walk[c].filter # "QUEUED"
            \/ walk'[c].moved
<1>1. /\ walk[c] \in Walk \cup {NoWalk}
      /\ walk'[c] = IF walk[c].pc = "on" /\ walk[c].filter = "QUEUED"
                      THEN [walk[c] EXCEPT !.due = @ \ {j}, !.moved = TRUE]
                      ELSE walk[c]
  <2> DEFINE W(d) == IF walk[d].pc = "on" /\ walk[d].filter = "QUEUED"
                       THEN [walk[d] EXCEPT !.due = @ \ {j}, !.moved = TRUE]
                       ELSE walk[d]
  <2>1. walk' = [d \in Clients |-> W(d)]
    BY DEF SettleRow
  <2> HIDE DEF W
  <2>2. walk'[c] = W(c)
    BY <2>1
  <2>3. walk[c] \in Walk \cup {NoWalk}
    BY DEF TypeOK
  <2> QED BY <2>2, <2>3 DEF W
<1>2. CASE walk[c].pc = "on" /\ walk[c].filter = "QUEUED"
  <2>1. walk[c] \in Walk
    BY <1>1, <1>2 DEF NoWalk
  <2>2. [walk[c] EXCEPT !.due = @ \ {j}] \in Walk
    BY <2>1 DEF Walk
  <2>3. \A w \in Walk : /\ [w EXCEPT !.moved = TRUE] \in Walk
                        /\ [w EXCEPT !.moved = TRUE].moved = TRUE
    BY DEF Walk
  <2> QED BY <1>1, <1>2, <2>2, <2>3
<1>3. CASE ~(walk[c].pc = "on" /\ walk[c].filter = "QUEUED")
  BY <1>1, <1>3
<1> QED BY <1>2, <1>3

LEMMA WalkTypes ==
  ASSUME ReadInv, [Next]_vars
  PROVE  WalkTypeOK'
<1>1. walk \in [Clients -> Walk \cup {NoWalk}]
  BY DEF ReadInv, TypeOK
<1>2. Walk' = Walk /\ NoWalk' = NoWalk
  BY DEF Walk, NoWalk, Filter
<1>3. CASE walk' = walk
  BY <1>1, <1>2, <1>3 DEF WalkTypeOK
<1>4. ASSUME NEW c \in Clients, Ask(c)
      PROVE  WalkTypeOK'
  <2>1. CASE walk' = walk
    BY <1>3, <2>1
  <2>2. ASSUME NEW f \in Filter, BeginWalk(c, f)
        PROVE  WalkTypeOK'
    <3>1. [pc |-> "on", filter |-> f, next |-> 0, seen |-> {},
           due |-> Matching(f), moved |-> FALSE] \in Walk
      BY DEF Walk, Matching, Stored
    <3>2. walk' = [walk EXCEPT ![c] =
                     [pc |-> "on", filter |-> f, next |-> 0, seen |-> {},
                      due |-> Matching(f), moved |-> FALSE]]
      BY <2>2 DEF BeginWalk
    <3> QED BY <1>1, <1>2, <3>1, <3>2 DEF WalkTypeOK
  <2> QED BY <1>4, <2>1, <2>2, AskCases
<1>5. ASSUME NEW c \in Clients, Lists(c)
      PROVE  WalkTypeOK'
  <2>1. PICK s, page, total : Served(c, s, page, total)
    BY <1>5 DEF Lists
  <2>2. CASE Follows(c)
    <3>1. /\ walk[c] \in Walk
          /\ {page[i] : i \in DOMAIN page} \subseteq Jobs
      BY <2>1, <2>2, ServedPage DEF Follows
    <3>2. PageSize \in Nat
      BY ApiServerAssumption DEF ApiServerAssumption
    <3> DEFINE next == [pc |-> IF Len(page) >= PageSize THEN "on" ELSE "done",
                        filter |-> walk[c].filter,
                        next |-> walk[c].next + PageSize,
                        seen |-> walk[c].seen \cup {page[i] : i \in DOMAIN page},
                        due |-> walk[c].due,
                        moved |-> walk[c].moved]
    <3>3. next \in Walk
      BY <3>1, <3>2 DEF Walk
    <3>4. walk' = [walk EXCEPT ![c] = next]
      BY <2>1, <2>2, NextPage
    <3> HIDE DEF next
    <3> QED BY <1>1, <1>2, <3>3, <3>4 DEF WalkTypeOK
  <2>3. CASE ~Follows(c)
    BY <1>3, <2>1, <2>3 DEF Served, AnswerPage, Follows
  <2> QED BY <2>2, <2>3
<1>6. ASSUME NEW c \in Clients,
             Limit(c) \/ Admit(c) \/ CountJobs(c) \/ Replies(c) \/ Breaks(c)
      PROVE  WalkTypeOK'
  BY <1>3, <1>6 DEF Limit, Admit, CountJobs, Replies, Breaks, Panics
<1>7. ASSUME NEW j \in Jobs, SettleRow(j)
      PROVE  WalkTypeOK'
  <2>1. \A c \in Clients : walk'[c] \in Walk \cup {NoWalk}
    BY <1>7, SettledWalk DEF ReadInv
  <2>2. walk' = [c \in Clients |-> walk'[c]]
    BY <1>7 DEF SettleRow
  <2> QED BY <1>2, <2>1, <2>2 DEF WalkTypeOK
<1>8. ASSUME NEW j \in Jobs, StampRow(j) \/ InsertRow(j)
      PROVE  WalkTypeOK'
  BY <1>3, <1>8 DEF StampRow, InsertRow, clientVars
<1>9. CASE TimePasses \/ UNCHANGED vars
  BY <1>3, <1>9 DEF TimePasses, vars, clientVars
<1> QED BY <1>4, <1>5, <1>6, <1>7, <1>8, <1>9, ServeCases DEF Next

LEMMA BoundTypes ==
  ASSUME ReadInv, [Next]_vars
  PROVE  /\ driver' = driver /\ limited' = limited
         /\ sent' \in Nat /\ faults' \in Nat
         /\ faults' = 0 => faults = 0
<1>1. sent \in Nat /\ faults \in Nat
  BY DEF ReadInv, TypeOK
<1> SUFFICES /\ UNCHANGED configVars
             /\ sent' \in {sent, sent + 1} /\ faults' \in {faults, faults + 1}
  BY <1>1 DEF configVars
<1>2. ASSUME NEW c \in Clients, Ask(c)
      PROVE  /\ UNCHANGED configVars
             /\ sent' \in {sent, sent + 1} /\ faults' \in {faults, faults + 1}
  BY <1>2, AskCases DEF Send
<1>3. ASSUME NEW c \in Clients, Serve(c)
      PROVE  /\ UNCHANGED configVars
             /\ sent' \in {sent, sent + 1} /\ faults' \in {faults, faults + 1}
  <2>1. CASE Limit(c) \/ Admit(c) \/ CountJobs(c)
    BY <2>1 DEF Limit, Admit, CountJobs, boundVars
  <2>2. CASE Replies(c) \/ Lists(c) \/ Breaks(c)
    BY <2>2 DEF Replies, Lists, Breaks, boundVars
  <2> QED BY <1>3, <2>1, <2>2, ServeCases
<1>4. CASE \E j \in Jobs : StampRow(j) \/ InsertRow(j) \/ SettleRow(j)
  BY <1>4 DEF StampRow, InsertRow, SettleRow, boundVars
<1>5. CASE TimePasses \/ UNCHANGED vars
  BY <1>5 DEF TimePasses, vars, boundVars
<1> QED BY <1>2, <1>3, <1>4, <1>5 DEF Next

LEMMA RowsStay ==
  ASSUME ReadInv, [Next]_vars,
         ~\E j \in Jobs : StampRow(j) \/ InsertRow(j) \/ SettleRow(j)
  PROVE  UNCHANGED tableVars
<1>1. ASSUME NEW c \in Clients, Ask(c) \/ Serve(c)
      PROVE  UNCHANGED tableVars
  BY <1>1, AskCases, ServeCases
     DEF Send, Limit, Admit, CountJobs, Replies, Lists, Breaks
<1>2. CASE TimePasses \/ UNCHANGED vars
  BY <1>2 DEF TimePasses, vars
<1> QED BY <1>1, <1>2 DEF Next

LEMMA NextTypeOK ==
  ASSUME ReadInv, [Next]_vars
  PROVE  TypeOK'
<1>1. TableTypeOK'
  <2>1. CASE \E j \in Jobs : StampRow(j) \/ InsertRow(j) \/ SettleRow(j)
    BY <2>1, TableTypes DEF ReadInv
  <2>2. CASE UNCHANGED tableVars
    BY <2>2 DEF ReadInv, TypeOK, TableTypeOK, tableVars, Row, NoRow, Status
  <2> QED BY <2>1, <2>2, RowsStay
<1>2. LimiterTypeOK'
  <2>1. ASSUME NEW c \in Clients, Ask(c) \/ Serve(c)
        PROVE  LimiterStep \/ UNCHANGED limiterVars
    BY <2>1, AskCases, ServeCases DEF Send, Limit, Admit, CountJobs, Replies,
                                     Lists, Breaks, LimiterStep
  <2>2. CASE \E j \in Jobs : StampRow(j) \/ InsertRow(j) \/ SettleRow(j)
    BY <2>2, LimiterTypes DEF StampRow, InsertRow, SettleRow, ReadInv
  <2>3. CASE TimePasses \/ UNCHANGED vars
    BY <2>3, LimiterTypes DEF TimePasses, vars, ReadInv
  <2> QED BY <2>1, <2>2, <2>3, LimiterTypes DEF Next, ReadInv
<1>3. [driver |-> driver, limited |-> limited]' \in Configs
  BY BoundTypes DEF ReadInv, TypeOK
<1> QED BY <1>1, <1>2, <1>3, RequestTypes, WalkTypes, BoundTypes
        DEF TypeOK, TableTypeOK, RequestTypeOK, WalkTypeOK, RequestRecord

(* Rows are inserted and settled, and never leave the table. *)
LEMMA StoredGrows ==
  ASSUME ReadInv, [Next]_vars
  PROVE  /\ Stored \subseteq Stored'
         /\ \A j \in Stored : table'[j].created = table[j].created
         /\ Cardinality(Stored) \in Nat /\ Cardinality(Stored') \in Nat
         /\ Cardinality(Stored) <= Cardinality(Stored')
<1>1. /\ table \in [Jobs -> Row \cup {NoRow}]
      /\ NoRow' = NoRow
  BY DEF ReadInv, TypeOK, NoRow
<1>2. Stored \subseteq Stored' /\ \A j \in Stored : table'[j].created = table[j].created
  <2>1. CASE table' = table
    BY <1>1, <2>1 DEF Stored
  <2>2. ASSUME NEW j \in Jobs, InsertRow(j)
        PROVE  /\ Stored \subseteq Stored'
               /\ \A i \in Stored : table'[i].created = table[i].created
    BY <1>1, <2>2 DEF InsertRow, Stored
  <2>3. ASSUME NEW j \in Jobs, SettleRow(j)
        PROVE  /\ Stored \subseteq Stored'
               /\ \A i \in Stored : table'[i].created = table[i].created
    <3>1. table[j] \in Row
      BY <1>1, <2>3, NoRowFacts DEF SettleRow
    <3>2. table' = [table EXCEPT ![j] = [table[j] EXCEPT !.status = "SUCCEEDED"]]
      BY <2>3 DEF SettleRow
    <3>3. /\ table'[j] # NoRow
          /\ table'[j].created = table[j].created
          /\ \A i \in Jobs \ {j} : table'[i] = table[i]
      BY <1>1, <3>1, <3>2, SettledRow, NoRowFacts
    <3> QED BY <1>1, <3>3 DEF Stored
  <2>4. CASE \E j \in Jobs : StampRow(j) \/ InsertRow(j) \/ SettleRow(j)
    BY <2>1, <2>2, <2>3, <2>4 DEF StampRow
  <2>5. CASE UNCHANGED tableVars
    BY <2>1, <2>5 DEF tableVars
  <2> QED BY <2>4, <2>5, RowsStay
<1>3. IsFiniteSet(Jobs) /\ Stored \in SUBSET Jobs /\ Stored' \in SUBSET Jobs
  BY ApiServerAssumption DEF ApiServerAssumption, Stored
<1>4. IsFiniteSet(Stored) /\ IsFiniteSet(Stored')
  BY <1>3, FS_Subset
<1>5. Stored \in SUBSET Stored'
  BY <1>2
<1> QED BY <1>2, <1>4, <1>5, FS_Subset, FS_CardinalityType

(* A request or its answer moves by a step of its client. *)
LEMMA OwnStep ==
  ASSUME ReadInv, [Next]_vars, NEW c \in Clients
  PROVE  \/ req'[c] = req[c] /\ answer'[c] = answer[c]
         \/ Ask(c) \/ Serve(c)
<1>1. /\ req = [d \in Clients |-> req[d]]
      /\ answer = [d \in Clients |-> answer[d]]
  BY DEF ReadInv, RateInv, ClientInv
<1>2. ASSUME NEW d \in Clients \ {c}, Ask(d)
      PROVE  req'[c] = req[c] /\ answer'[c] = answer[c]
  <2>1. PICK query : Send(d, query)
    BY <1>2, AskCases
  <2>2. /\ req' = [req EXCEPT ![d] = req'[d]]
        /\ answer' = [answer EXCEPT ![d] = answer'[d]]
    BY <2>1, SendIsRecord
  <2> QED BY <1>1, <2>2
<1>3. ASSUME NEW d \in Clients \ {c}, Serve(d)
      PROVE  req'[c] = req[c] /\ answer'[c] = answer[c]
  <2>1. CASE Limit(d) \/ Admit(d) \/ Breaks(d)
    <3>1. (\E pc : Go(d, pc)) /\ answer' = answer
      BY <2>1 DEF Limit, Admit, Breaks, Panics
    <3>2. PICK pc : Go(d, pc)
      BY <3>1
    <3>3. req' = [req EXCEPT ![d] = [req[d] EXCEPT !.pc = pc]]
      BY <3>2 DEF Go
    <3> QED BY <1>1, <3>1, <3>3
  <2>2. CASE CountJobs(d)
    <3>1. req' = [req EXCEPT ![d] = req'[d]] /\ answer' = answer
      BY <2>2, CountIsRecord DEF CountJobs
    <3> QED BY <1>1, <3>1
  <2>3. CASE Replies(d)
    <3>1. PICK code : Answer(d, code)
      BY <2>3 DEF Replies
    <3>2. /\ req' = [req EXCEPT ![d] = req'[d]]
          /\ answer' = [answer EXCEPT ![d] = answer'[d]]
      BY <3>1, AnswerIsRecord
    <3> QED BY <1>1, <3>2
  <2>4. CASE Lists(d)
    <3>1. PICK page, total : AnswerPage(d, page, total)
      BY <2>4 DEF Lists, Served
    <3>2. /\ req' = [req EXCEPT ![d] = req'[d]]
          /\ answer' = [answer EXCEPT ![d] = answer'[d]]
      BY <3>1, PageIsRecord
    <3> QED BY <1>1, <3>2
  <2> QED BY <1>3, <2>1, <2>2, <2>3, <2>4, ServeCases
<1>4. CASE \E j \in Jobs : StampRow(j) \/ InsertRow(j) \/ SettleRow(j)
  BY <1>4 DEF StampRow, InsertRow, SettleRow, clientVars
<1>5. CASE TimePasses \/ UNCHANGED vars
  BY <1>5 DEF TimePasses, vars, clientVars
<1> QED BY <1>2, <1>3, <1>4, <1>5 DEF Next

(* What holds of one client's request and of its answer. *)
CountOK(c) ==
  At(c, "select") /\ Asked(c).filter = AnyStatus
    => req[c].total <= Cardinality(Stored)
PanicOK(c) == At(c, "panicked") => driver = "memory" /\ Asked(c).offset < 0

ShortOK(a) ==
  /\ a.code = 200 /\ a.query.job = "none"
  /\ Proper(a.query) /\ a.query.filter = AnyStatus
  /\ a.listed < a.query.limit
  => a.query.offset + a.listed >= a.total

LEMMA ClientParts ==
  /\ TotalsInv <=> \A c \in Clients : CountOK(c)
  /\ PanicsInv <=> \A c \in Clients : PanicOK(c)
  /\ ShortPageReachesTotal <=> \A c \in Clients : ShortOK(answer[c])
BY DEF TotalsInv, PanicsInv, ShortPageReachesTotal, CountOK, PanicOK, ShortOK,
       ListAnswered

(* A page of all jobs that is not full ends where the rows end. *)
LEMMA ServedShort ==
  ASSUME ReadInv, NEW c \in Clients, NEW s, NEW page, NEW total,
         Served(c, s, page, total), Asked(c) \in Query
  PROVE  ShortOK(answer'[c])
<1> DEFINE a == answer'[c]
<1>1. a = [code |-> 200, query |-> Asked(c),
           listed |-> Len(page), total |-> total]
  BY PageIsRecord DEF Served
<1>2. a.query = Asked(c) /\ a.listed = Len(page) /\ a.total = total
  BY <1>1
<1> HIDE DEF a
<1> SUFFICES ASSUME Proper(Asked(c)), Asked(c).filter = AnyStatus,
                    Len(page) < Asked(c).limit
             PROVE  Asked(c).offset + Len(page) >= total
  BY <1>2 DEF ShortOK, a
<1>3. Asked(c).limit \in Nat /\ Asked(c).offset \in Nat
  BY QueryFacts DEF Proper
<1>4. /\ page = PageOf(s, Asked(c).limit, Asked(c).offset)
      /\ total \in Nat /\ total <= Len(s)
      /\ s \in Orders(Matching(Asked(c).filter))
  BY DEF Served
<1>5. s \in Seq(Matching(Asked(c).filter)) /\ Len(s) \in Nat
  BY <1>4, StoredFinite, OrderFacts
<1>6. Len(page) = PageLength(Len(s), Asked(c).limit, Asked(c).offset)
  BY <1>3, <1>4, <1>5, PageOfFacts
<1>7. Asked(c).offset + Len(page) >= Len(s) /\ Len(page) \in Nat
  <2> DEFINE limit == Asked(c).limit
             offset == Asked(c).offset
             length == Len(s)
  <2>1. limit \in Nat /\ offset \in Nat /\ length \in Nat
    BY <1>3, <1>5
  <2>2. Len(page) = PageLength(length, limit, offset) /\ Len(page) < limit
    BY <1>6
  <2> HIDE DEF limit, offset, length
  <2>3. PageLength(length, limit, offset) \in Nat
    BY <2>1, PageLengthFacts
  <2>4. PageLength(length, limit, offset) < limit
          => offset + PageLength(length, limit, offset) >= length
    BY <2>1, PageLengthFacts
  <2>5. offset + Len(page) >= length /\ Len(page) \in Nat
    BY <2>2, <2>3, <2>4
  <2> QED BY <2>5 DEF limit, offset, length
<1> QED BY <1>3, <1>4, <1>5, <1>7

LEMMA NextClientOK ==
  ASSUME ReadInv, [Next]_vars, NEW c \in Clients
  PROVE  CountOK(c)' /\ PanicOK(c)' /\ ShortOK(answer'[c])
<1>1. /\ CountOK(c) /\ PanicOK(c) /\ ShortOK(answer[c])
      /\ req[c] # Idle => answer[c] = NoAnswer
  BY ClientParts DEF ReadInv, RateInv, ClientInv
<1>2. CASE req'[c] = req[c] /\ answer'[c] = answer[c]
  <2>1. CountOK(c)'
    <3>1. At(c, "select") => req[c].total \in Nat
      BY RequestFacts DEF ReadInv, RequestPC
    <3> QED BY <1>1, <1>2, <3>1, StoredGrows DEF CountOK, At, Asked, AnyStatus
  <2>2. PanicOK(c)' /\ ShortOK(answer'[c])
    BY <1>1, <1>2, BoundTypes DEF PanicOK, At, Asked
  <2> QED BY <2>1, <2>2
<1>4. ASSUME answer'[c] = NoAnswer
      PROVE  ShortOK(answer'[c])
  BY <1>4 DEF NoAnswer, ShortOK
<1>5. CASE Ask(c)
  <2>1. PICK query : Send(c, query)
    BY <1>5, AskCases
  <2>2. /\ req'[c] = [pc |-> IF limited THEN "limit" ELSE "handle",
                      query |-> query, total |-> 0]
        /\ answer'[c] = NoAnswer
    BY <2>1, SendIsRecord
  <2>3. req'[c].pc \in {"limit", "handle"}
    BY <2>2
  <2> QED BY <1>4, <2>2, <2>3 DEF CountOK, PanicOK, At
<1>6. ASSUME NEW pc, Go(c, pc), answer' = answer, req[c] # Idle
      PROVE  /\ req'[c].pc = pc /\ Asked(c)' = Asked(c)
             /\ ShortOK(answer'[c])
  <2>1. req'[c] = [pc |-> pc, query |-> Asked(c), total |-> req[c].total]
    BY <1>6, GoIsRecord
  <2>2. req'[c].pc = pc /\ Asked(c)' = Asked(c)
    BY <2>1 DEF Asked
  <2>3. answer'[c] = NoAnswer
    BY <1>1, <1>6
  <2> QED BY <1>4, <2>2, <2>3
<1>7. CASE Limit(c) \/ Admit(c)
  <2>1. PICK pc \in {"allow", "handle"} : Go(c, pc)
    BY <1>7 DEF Limit, Admit
  <2>2. answer' = answer /\ req[c] # Idle
    BY <1>7 DEF Limit, Admit, At, Idle
  <2> QED BY <1>6, <2>1, <2>2 DEF CountOK, PanicOK, At
<1>8. CASE Breaks(c)
  <2>1. /\ Go(c, "panicked") /\ answer' = answer /\ req[c] # Idle
        /\ driver = "memory" /\ Asked(c).offset < 0
    BY <1>8 DEF Breaks, Panics, At, Idle
  <2> QED BY <1>6, <2>1, BoundTypes DEF CountOK, PanicOK, At
<1>9. CASE CountJobs(c)
  <2>1. /\ req'[c] = [pc |-> "select", query |-> Asked(c),
                      total |-> Cardinality(Matching(Asked(c).filter))]
        /\ answer' = answer /\ req[c] # Idle
        /\ table' = table
    <3>1. answer' = answer /\ req[c] # Idle /\ table' = table
      BY <1>9 DEF CountJobs, At, Idle, tableVars
    <3> QED BY <1>9, <3>1, CountIsRecord
  <2>2. /\ req'[c].pc = "select" /\ Asked(c)' = Asked(c)
        /\ req'[c].total = Cardinality(Matching(Asked(c).filter))
    BY <2>1 DEF Asked
  <2>3. Matching(AnyStatus) = Stored /\ Stored' = Stored
    BY <2>1 DEF Matching, Stored, NoRow
  <2>4. CountOK(c)'
    <3>1. AnyStatus' = AnyStatus
      BY DEF AnyStatus
    <3> QED BY <2>2, <2>3, <3>1, StoredGrows DEF CountOK
  <2> QED BY <1>1, <1>4, <2>1, <2>2, <2>4 DEF PanicOK, At
<1>10. CASE Replies(c)
  <2>1. PICK code \in {200, 404, 429, 500} :
          /\ Answer(c, code)
          /\ code = 200 => Asked(c).job # "none"
    BY <1>10 DEF Replies
  <2>2. /\ req'[c] = Idle
        /\ answer'[c] = [code |-> code, query |-> Asked(c)]
    BY <2>1, AnswerIsRecord
  <2>3. /\ req'[c].pc = "idle"
        /\ answer'[c].code = code /\ answer'[c].query = Asked(c)
    BY <2>2 DEF Idle
  <2>4. ShortOK(answer'[c])
    BY <2>1, <2>3 DEF ShortOK
  <2> QED BY <2>3, <2>4 DEF CountOK, PanicOK, At
<1>11. CASE Lists(c)
  <2>1. PICK s, page, total : Served(c, s, page, total)
    BY <1>11 DEF Lists
  <2>2. /\ Asked(c) \in Query
        /\ req'[c] = Idle
        /\ answer'[c] = [code |-> 200, query |-> Asked(c),
                         listed |-> Len(page), total |-> total]
    BY <1>11, <2>1, PageIsRecord DEF Served, Lists
  <2>3. req'[c].pc = "idle" /\ answer'[c].code = 200
    BY <2>2 DEF Idle
  <2> QED BY <2>1, <2>2, <2>3, ServedShort DEF CountOK, PanicOK, At
<1> QED BY <1>2, <1>5, <1>7, <1>8, <1>9, <1>10, <1>11, OwnStep, ServeCases

(* A 500 to c that no failed statement explains.                           *)
LEMMA NextExplained ==
  ASSUME ReadInv, [Next]_vars, NEW c \in Clients,
         answer'[c] # answer[c], answer'[c].code = 500, faults' = faults
  PROVE  Explained(Asked(c))
<1>1. CASE Ask(c)
  <2>1. PICK query : Send(c, query)
    BY <1>1, AskCases
  <2>2. answer'[c] = NoAnswer
    BY <2>1, SendIsRecord
  <2> QED BY <2>2 DEF NoAnswer
<1>2. ~(Limit(c) \/ Admit(c) \/ CountJobs(c) \/ Breaks(c))
  BY DEF Limit, Admit, CountJobs, Breaks, Panics
<1>3. CASE Replies(c)
  <2>1. PICK code \in {200, 404, 429, 500} :
          /\ Answer(c, code)
          /\ code = 500 /\ faults' = faults => Explained(Asked(c))
    BY <1>3 DEF Replies
  <2>2. answer'[c] = [code |-> code, query |-> Asked(c)]
    BY <2>1, AnswerIsRecord
  <2> QED BY <2>1, <2>2
<1>4. ~Lists(c)
  <2> SUFFICES ASSUME NEW s, NEW page, NEW total, Served(c, s, page, total)
               PROVE  FALSE
    BY DEF Lists
  <2>1. answer'[c] = [code |-> 200, query |-> Asked(c),
                      listed |-> Len(page), total |-> total]
    BY PageIsRecord DEF Served
  <2> QED BY <2>1
<1> QED BY <1>1, <1>2, <1>3, <1>4, OwnStep, ServeCases

-----------------------------------------------------------------------------
(* Walks. *)

(* A job whose created_at nobody shares is in the same place in every      *)
(* order: right behind the rows that are newer.                            *)
LEMMA PlaceOfJob ==
  ASSUME TypeOK, NEW f, NEW s \in Orders(Matching(f)),
         NEW j \in Matching(f), Unique(j)
  PROVE  \E p \in 1 .. Len(s) : s[p] = j /\ Cardinality(Ahead(f, j)) = p - 1
<1> DEFINE M == Matching(f)
           n == Len(s)
<1>1. /\ n \in Nat
      /\ s \in [1 .. n -> M]
      /\ \A i, k \in 1 .. n :
           i < k => s[i] # s[k] /\ table[s[i]].created >= table[s[k]].created
      /\ \A x \in M : \E i \in 1 .. n : s[i] = x
  <2>1. IsFiniteSet(M) /\ s \in Orders(M)
    BY StoredFinite
  <2> HIDE DEF M
  <2> QED BY <2>1, OrderFacts
<1>2. /\ M \subseteq Stored
      /\ \A x \in Stored : table[x].created \in Nat
  <2>1. table \in [Jobs -> Row \cup {NoRow}]
    BY DEF TypeOK
  <2>2. \A x \in Stored : table[x] \in Row
    BY <2>1 DEF Stored
  <2> QED BY <2>2, NoRowFacts DEF Matching
<1>3. \A x \in M \ {j} : table[x].created # table[j].created
  BY <1>2 DEF Unique
<1>4. PICK p \in 1 .. n : s[p] = j
  BY <1>1
<1> HIDE DEF n, M
<1>5. \A i \in 1 .. n : s[i] \in Ahead(f, j) <=> i < p
  <2> TAKE i \in 1 .. n
  <2>1. s[i] \in M /\ j \in M
    BY <1>1, <1>4
  <2>2. table[s[i]].created \in Nat /\ table[j].created \in Nat
    BY <1>2, <2>1
  <2>3. CASE i < p
    <3>1. s[i] # j /\ table[s[i]].created >= table[j].created
      BY <1>1, <1>4, <2>3
    <3>2. table[s[i]].created # table[j].created
      BY <1>3, <2>1, <3>1
    <3> QED BY <2>1, <2>2, <2>3, <3>1, <3>2 DEF Ahead, M
  <2>4. CASE i = p
    BY <1>4, <2>2, <2>4 DEF Ahead
  <2>5. CASE p < i
    <3>1. table[j].created >= table[s[i]].created
      BY <1>1, <1>4, <2>5
    <3> QED BY <1>1, <2>2, <2>5, <3>1 DEF Ahead
  <2> QED BY <1>1, <2>3, <2>4, <2>5
<1> DEFINE m == p - 1
           front == [i \in 1 .. m |-> s[i]]
<1>6. m \in Nat /\ m < p /\ m <= n /\ \A i \in 1 .. n : i < p <=> i \in 1 .. m
  BY <1>1
<1> HIDE DEF m
<1>7. \A i \in 1 .. m : i \in 1 .. n /\ front[i] = s[i]
  BY <1>1, <1>6
<1> HIDE DEF front
<1>8. front \in [1 .. m -> Ahead(f, j)]
  BY <1>5, <1>6, <1>7 DEF front
<1>9. \A i, k \in 1 .. m : front[i] = front[k] => i = k
  <2> TAKE i, k \in 1 .. m
  <2>1. i < k \/ k < i \/ i = k
    BY <1>6
  <2> QED BY <1>1, <1>7, <2>1
<1>10. front \in Injection(1 .. m, Ahead(f, j))
  BY <1>8, <1>9 DEF Injection, IsInjective
<1>11. \A x \in Ahead(f, j) : \E i \in 1 .. m : front[i] = x
  <2> TAKE x \in Ahead(f, j)
  <2>1. PICK i \in 1 .. n : s[i] = x
    BY <1>1 DEF Ahead, M
  <2>2. i \in 1 .. m
    BY <1>5, <1>6, <2>1
  <2> QED BY <1>7, <2>1, <2>2
<1>12. front \in Surjection(1 .. m, Ahead(f, j))
  BY <1>8, <1>11 DEF Surjection
<1>13. ExistsBijection(1 .. m, Ahead(f, j))
  BY <1>10, <1>12 DEF ExistsBijection, Bijection
<1>14. Cardinality(Ahead(f, j)) = m
  BY <1>6, <1>13, FS_CountingElements
<1> QED BY <1>4, <1>14 DEF m, n

(* A page that starts before job j shows it, or is full and ends before it. *)
LEMMA PageOrBehind ==
  ASSUME TypeOK, NEW f, NEW s \in Orders(Matching(f)),
         NEW j \in Matching(f), Unique(j),
         NEW next \in Nat, next <= Cardinality(Ahead(f, j)),
         NEW page, page = PageOf(s, PageSize, next)
  PROVE  \/ j \in {page[i] : i \in DOMAIN page}
         \/ /\ Len(page) >= PageSize
            /\ next + PageSize <= Cardinality(Ahead(f, j))
<1>1. PageSize \in Nat \ {0}
  BY ApiServerAssumption DEF ApiServerAssumption
<1>2. PICK p \in 1 .. Len(s) : s[p] = j /\ Cardinality(Ahead(f, j)) = p - 1
  BY PlaceOfJob
<1>3. s \in Seq(Matching(f)) /\ Len(s) \in Nat
  BY StoredFinite, OrderFacts
<1> DEFINE n == PageLength(Len(s), PageSize, next)
<1>4. Len(page) = n /\ page = [i \in 1 .. n |-> s[next + i]]
  BY <1>1, <1>3, PageOfFacts DEF PageOf
<1>5. n = IF next >= Len(s) THEN 0
          ELSE IF PageSize <= Len(s) - next THEN PageSize ELSE Len(s) - next
  BY DEF PageLength
<1> HIDE DEF n
<1>6. p \in Nat /\ next <= p - 1 /\ p <= Len(s)
  BY <1>2, <1>3
<1>7. CASE p <= next + PageSize
  <2>1. p - next \in 1 .. n
    BY <1>1, <1>3, <1>5, <1>6, <1>7
  <2>2. page[p - next] = s[next + (p - next)] /\ p - next \in DOMAIN page
    BY <1>4, <2>1
  <2>3. next + (p - next) = p
    BY <1>6
  <2> QED BY <1>2, <2>2, <2>3
<1>8. CASE p > next + PageSize
  <2>1. n = PageSize
    BY <1>1, <1>3, <1>5, <1>6, <1>8
  <2>2. next + PageSize <= p - 1
    BY <1>1, <1>6, <1>8
  <2> QED BY <1>1, <1>2, <1>4, <2>1, <2>2
<1> QED BY <1>1, <1>6, <1>7, <1>8

(* Time and insertions only make a job less unique, and put more before it. *)
LEMMA UniqueBefore ==
  ASSUME ReadInv, [Next]_vars, NEW j \in Stored, Unique(j)'
  PROVE  Unique(j)
<1>1. /\ Stored \subseteq Stored'
      /\ \A i \in Stored : table'[i].created = table[i].created
  BY StoredGrows
<1> QED BY <1>1 DEF Unique

LEMMA AheadGrows ==
  ASSUME ReadInv, [Next]_vars, NEW f \in Filter, NEW j \in Stored,
         Matching(f) \subseteq Matching(f)'
  PROVE  /\ Cardinality(Ahead(f, j)) \in Nat
         /\ Cardinality(Ahead(f, j)') \in Nat
         /\ Cardinality(Ahead(f, j)) <= Cardinality(Ahead(f, j)')
<1>1. /\ IsFiniteSet(Jobs)
      /\ Ahead(f, j) \in SUBSET Jobs /\ Ahead(f, j)' \in SUBSET Jobs
  BY ApiServerAssumption DEF ApiServerAssumption, Ahead, Matching, Stored
<1>2. Ahead(f, j) \in SUBSET Ahead(f, j)'
  <2>1. Matching(f) \subseteq Stored
    BY DEF Matching
  <2> QED BY <2>1, StoredGrows DEF Ahead
<1>3. IsFiniteSet(Ahead(f, j)) /\ IsFiniteSet(Ahead(f, j)')
  BY <1>1, FS_Subset
<1> QED BY <1>2, <1>3, FS_Subset, FS_CardinalityType

LEMMA WalkStays ==
  ASSUME ReadInv, [Next]_vars, NEW w \in Walk, WalkOK(w),
         w.pc = "on" => Matching(w.filter) \subseteq Matching(w.filter)'
  PROVE  WalkOK(w)'
<1> SUFFICES ASSUME ~w.moved
             PROVE  /\ w.due \subseteq Stored'
                    /\ w.pc = "on" => w.due \subseteq Matching(w.filter)'
                    /\ \A j \in w.due :
                         Unique(j)' =>
                           \/ j \in w.seen
                           \/ /\ w.pc = "on"
                              /\ w.next <= Cardinality(Ahead(w.filter, j)')
  BY DEF WalkOK
<1>1. w # NoWalk /\ w.filter \in Filter /\ w.next \in Nat
  BY DEF Walk, NoWalk
<1>2. /\ w.due \subseteq Stored
      /\ w.pc = "on" => w.due \subseteq Matching(w.filter)
      /\ \A j \in w.due :
           Unique(j) =>
             \/ j \in w.seen
             \/ w.pc = "on" /\ w.next <= Cardinality(Ahead(w.filter, j))
  BY <1>1 DEF WalkOK
<1>3. w.due \subseteq Stored' /\ (w.pc = "on" => w.due \subseteq Matching(w.filter)')
  BY <1>2, StoredGrows
<1>4. ASSUME NEW j \in w.due, Unique(j)', j \notin w.seen
      PROVE  w.pc = "on" /\ w.next <= Cardinality(Ahead(w.filter, j)')
  <2>1. j \in Stored /\ Unique(j)
    BY <1>2, <1>4, UniqueBefore
  <2>2. w.pc = "on" /\ w.next <= Cardinality(Ahead(w.filter, j))
    BY <1>2, <1>4, <2>1
  <2>3. /\ Cardinality(Ahead(w.filter, j)) \in Nat
        /\ Cardinality(Ahead(w.filter, j)') \in Nat
        /\ Cardinality(Ahead(w.filter, j)) <= Cardinality(Ahead(w.filter, j)')
    BY <1>1, <2>1, <2>2, AheadGrows
  <2> QED BY <1>1, <2>2, <2>3
<1> QED BY <1>3, <1>4

LEMMA WalkBegins ==
  ASSUME TypeOK, NEW f \in Filter
  PROVE  WalkOK([pc |-> "on", filter |-> f, next |-> 0, seen |-> {},
                 due |-> Matching(f), moved |-> FALSE])
<1> DEFINE w == [pc |-> "on", filter |-> f, next |-> 0, seen |-> {},
                 due |-> Matching(f), moved |-> FALSE]
<1>1. /\ w.pc = "on" /\ w.filter = f /\ w.next = 0 /\ w.due = Matching(f)
  OBVIOUS
<1>2. \A j : Cardinality(Ahead(f, j)) \in Nat
  <2> TAKE j
  <2>1. Ahead(f, j) \in SUBSET Jobs
    BY DEF Ahead, Matching, Stored
  <2> QED BY <2>1, FS_Subset, FS_CardinalityType, ApiServerAssumption
          DEF ApiServerAssumption
<1>3. \A j : 0 <= Cardinality(Ahead(f, j))
  BY <1>2
<1>4. Matching(f) \subseteq Stored
  BY DEF Matching
<1> HIDE DEF w
<1>5. WalkOK(w)
  BY <1>1, <1>3, <1>4 DEF WalkOK
<1> QED BY <1>5 DEF w

(* A page of the walk itself. *)
LEMMA WalkProceeds ==
  ASSUME ReadInv, NEW c \in Clients, NEW s, NEW page, NEW total,
         Served(c, s, page, total), Follows(c)
  PROVE  WalkOK(walk'[c])
<1> DEFINE w == walk[c]
           pages == {page[i] : i \in DOMAIN page}
           pc == IF Len(page) >= PageSize THEN "on" ELSE "done"
           v == [pc |-> pc, filter |-> w.filter, next |-> w.next + PageSize,
                 seen |-> w.seen \cup pages, due |-> w.due, moved |-> w.moved]
<1>1. /\ w \in Walk /\ w.pc = "on"
      /\ s \in Orders(Matching(w.filter))
      /\ page = PageOf(s, PageSize, w.next)
  BY ServedPage DEF Follows, Served
<1>2. walk' = [walk EXCEPT ![c] = v] /\ walk = [d \in Clients |-> walk[d]]
  BY NextPage DEF ReadInv, TypeOK
<1> HIDE DEF v
<1>3. walk'[c] = v
  BY <1>2
<1>4. /\ v.pc = pc /\ v.filter = w.filter /\ v.next = w.next + PageSize
      /\ v.seen = w.seen \cup pages /\ v.due = w.due /\ v.moved = w.moved
  BY DEF v
<1> SUFFICES ASSUME ~w.moved
             PROVE  WalkOK(v)
  BY <1>3, <1>4 DEF WalkOK
<1>5. w # NoWalk /\ w.next \in Nat
  BY <1>1 DEF Walk, NoWalk
<1>6. /\ w.due \subseteq Stored
      /\ w.due \subseteq Matching(w.filter)
      /\ \A j \in w.due :
           Unique(j) =>
             j \in w.seen \/ w.next <= Cardinality(Ahead(w.filter, j))
  BY <1>1, <1>5 DEF ReadInv, WalkInv, WalkOK
<1>7. ASSUME NEW j \in w.due, Unique(j)
      PROVE  \/ j \in w.seen \cup pages
             \/ pc = "on" /\ w.next + PageSize <= Cardinality(Ahead(w.filter, j))
  <2>1. CASE j \in w.seen
    BY <2>1
  <2>2. CASE w.next <= Cardinality(Ahead(w.filter, j))
    <3>1. \/ j \in pages
          \/ /\ Len(page) >= PageSize
             /\ w.next + PageSize <= Cardinality(Ahead(w.filter, j))
      BY <1>1, <1>5, <1>6, <1>7, <2>2, PageOrBehind DEF ReadInv
    <3> QED BY <3>1
  <2> QED BY <1>6, <1>7, <2>1, <2>2
<1> HIDE DEF w, pages, pc
<1> QED BY <1>4, <1>6, <1>7 DEF WalkOK

LEMMA MatchingGrows ==
  ASSUME ReadInv, NEW f \in Filter,
         \/ table' = table
         \/ \E j \in Jobs : InsertRow(j)
         \/ f # "QUEUED" /\ \E j \in Jobs : SettleRow(j)
  PROVE  Matching(f) \subseteq Matching(f)'
<1>1. NoRow' = NoRow /\ AnyStatus' = AnyStatus
      /\ table = [i \in Jobs |-> table[i]]
  BY DEF NoRow, AnyStatus, ReadInv, TypeOK
<1>2. CASE table' = table
  BY <1>1, <1>2 DEF Matching, Stored
<1>3. ASSUME NEW j \in Jobs, InsertRow(j)
      PROVE  Matching(f) \subseteq Matching(f)'
  <2>1. table[j] = NoRow /\ \A i \in Jobs \ {j} : table'[i] = table[i]
    BY <1>1, <1>3 DEF InsertRow
  <2> QED BY <1>1, <2>1 DEF Matching, Stored
<1>4. ASSUME f # "QUEUED", NEW j \in Jobs, SettleRow(j)
      PROVE  Matching(f) \subseteq Matching(f)'
  <2>1. f = AnyStatus
    BY <1>4 DEF Filter
  <2>2. [Next]_vars
    BY <1>4 DEF Next
  <2>3. Stored \subseteq Stored'
    BY <2>2, StoredGrows
  <2> QED BY <1>1, <2>1, <2>3 DEF Matching
<1> QED BY <1>2, <1>3, <1>4

LEMMA NextWalkInv ==
  ASSUME ReadInv, [Next]_vars
  PROVE  WalkInv'
<1>1. /\ walk = [d \in Clients |-> walk[d]]
      /\ \A d \in Clients : walk[d] \in Walk \cup {NoWalk} /\ WalkOK(walk[d])
  BY DEF ReadInv, TypeOK, WalkInv
<1>2. WalkOK(NoWalk)'
  BY DEF WalkOK, NoWalk
(* Whoever does not ask walks on over the same rows, or over more of them. *)
<1>3. ASSUME NEW d \in Clients, walk'[d] = walk[d],
             \/ table' = table
             \/ \E j \in Jobs : InsertRow(j)
             \/ /\ \E j \in Jobs : SettleRow(j)
                /\ walk[d].pc = "on" => walk[d].filter # "QUEUED"
      PROVE  WalkOK(walk[d])'
  <2>1. CASE walk[d] = NoWalk
    BY <1>2, <1>3, <2>1
  <2>2. CASE walk[d] \in Walk
    <3> DEFINE w == walk[d]
    <3>1. w.filter \in Filter
      BY <2>2 DEF Walk
    <3>2. w.pc = "on" => Matching(w.filter) \subseteq Matching(w.filter)'
      BY <1>3, <3>1, MatchingGrows
    <3> QED BY <1>1, <1>3, <2>2, <3>2, WalkStays
  <2> QED BY <1>1, <2>1, <2>2
<1>4. ASSUME NEW c \in Clients, walk' = [walk EXCEPT ![c] = walk'[c]],
             table' = table, WalkOK(walk'[c])
      PROVE  WalkInv'
  <2>1. WalkOK(walk[c])'
    BY <1>4 DEF WalkOK, NoWalk, Unique, Ahead, Matching, Stored, NoRow, AnyStatus
  <2>2. \A d \in Clients \ {c} : walk'[d] = walk[d]
    BY <1>1, <1>4
  <2>3. \A d \in Clients \ {c} : WalkOK(walk[d])'
    BY <1>3, <1>4, <2>2
  <2> QED BY <2>1, <2>3 DEF WalkInv
<1>5. CASE walk' = walk /\ (table' = table \/ \E j \in Jobs : InsertRow(j))
  BY <1>3, <1>5 DEF WalkInv
<1>6. ASSUME NEW j \in Jobs, SettleRow(j)
      PROVE  WalkInv'
  <2>1. ASSUME NEW d \in Clients
        PROVE  WalkOK(walk[d])'
    <3>1. CASE /\ walk'[d] = walk[d]
               /\ walk[d].pc = "on" => walk[d].filter # "QUEUED"
      <4>1. WalkOK(walk[d])'
        BY <1>3, <1>6, <3>1
      <4> QED BY <4>1
    <3>2. CASE walk'[d].moved
      BY <3>2 DEF WalkOK
    <3> QED BY <1>6, <3>1, <3>2, SettledWalk DEF ReadInv
  <2> QED BY <2>1 DEF WalkInv
<1>7. ASSUME NEW c \in Clients, Ask(c)
      PROVE  WalkInv'
  <2>1. table' = table
    BY <1>7, AskCases DEF Send, tableVars
  <2>2. ASSUME NEW f \in Filter, BeginWalk(c, f)
        PROVE  WalkInv'
    <3> DEFINE w == [pc |-> "on", filter |-> f, next |-> 0, seen |-> {},
                     due |-> Matching(f), moved |-> FALSE]
    <3>1. walk' = [walk EXCEPT ![c] = w]
      BY <2>2 DEF BeginWalk
    <3>2. WalkOK(w)
      BY WalkBegins DEF ReadInv
    <3> HIDE DEF w
    <3>3. walk'[c] = w
      BY <1>1, <3>1
    <3> QED BY <1>4, <2>1, <3>1, <3>2, <3>3
  <2> QED BY <1>5, <1>7, <2>1, <2>2, AskCases
<1>8. ASSUME NEW c \in Clients, Lists(c)
      PROVE  WalkInv'
  <2>1. PICK s, page, total : Served(c, s, page, total)
    BY <1>8 DEF Lists
  <2>2. table' = table
    BY <1>8 DEF Lists, tableVars
  <2>3. CASE Follows(c)
    <3>1. PICK v : walk' = [walk EXCEPT ![c] = v]
      BY <2>1, <2>3, NextPage
    <3>2. walk' = [walk EXCEPT ![c] = walk'[c]]
      BY <1>1, <3>1
    <3> QED BY <1>4, <2>1, <2>2, <2>3, <3>2, WalkProceeds
  <2>4. CASE ~Follows(c)
    BY <1>5, <2>1, <2>2, <2>4 DEF Served, AnswerPage, Follows
  <2> QED BY <2>3, <2>4
<1>9. ASSUME NEW c \in Clients,
             Limit(c) \/ Admit(c) \/ CountJobs(c) \/ Replies(c) \/ Breaks(c)
      PROVE  WalkInv'
  BY <1>5, <1>9 DEF Limit, Admit, CountJobs, Replies, Breaks, Panics, tableVars
<1>10. ASSUME NEW j \in Jobs, StampRow(j) \/ InsertRow(j)
       PROVE  WalkInv'
  BY <1>5, <1>10 DEF StampRow, InsertRow, clientVars
<1>11. CASE TimePasses \/ UNCHANGED vars
  BY <1>5, <1>11 DEF TimePasses, vars, clientVars, tableVars
<1> QED BY <1>6, <1>7, <1>8, <1>9, <1>10, <1>11, ServeCases DEF Next

(* The invariant of the reading side. *)
LEMMA InitReadInv == Init => ReadInv
<1> SUFFICES ASSUME Init PROVE ReadInv
  OBVIOUS
<1>1. RateInv
  BY InitRateInv
<1>2. TypeOK
  <2>1. LimiterTypeOK
    BY DEF Init, LimiterInit, LimiterTypeOK
  <2>2. [driver |-> driver, limited |-> limited] \in Configs
    <3>1. PICK config \in Configs :
            driver = config.driver /\ limited = config.limited
      BY DEF Init
    <3>2. config = [driver |-> driver, limited |-> limited]
      BY <3>1, ApiServerAssumption DEF ApiServerAssumption
    <3> QED BY <3>2
  <2>3. \A c \in Clients : answer[c].code \in {0, 200, 404, 429, 500}
    BY DEF Init, NoAnswer
  <2> QED BY <2>1, <2>2, <2>3 DEF Init, TypeOK
<1>3. \A c \in Clients : /\ req[c] = Idle /\ answer[c] = NoAnswer
                         /\ walk[c] = NoWalk
  BY DEF Init
<1>4. \A c \in Clients : CountOK(c) /\ PanicOK(c)
  BY <1>3 DEF CountOK, PanicOK, At, Idle
<1>5. ShortOK(NoAnswer) /\ WalkOK(NoWalk)
  BY DEF ShortOK, NoAnswer, WalkOK
<1> QED BY <1>1, <1>2, <1>3, <1>4, <1>5, ClientParts DEF ReadInv, WalkInv

LEMMA NextReadInv == ReadInv /\ [Next]_vars => ReadInv'
<1> SUFFICES ASSUME ReadInv, [Next]_vars PROVE ReadInv'
  OBVIOUS
<1>1. RateInv'
  BY NextRateInv DEF ReadInv
<1>2. \A c \in Clients : CountOK(c)' /\ PanicOK(c)' /\ ShortOK(answer[c])'
  BY NextClientOK DEF ShortOK, Proper, AnyStatus
<1>3. TotalsInv' /\ PanicsInv' /\ ShortPageReachesTotal'
  BY <1>2 DEF TotalsInv, PanicsInv, ShortPageReachesTotal, CountOK, PanicOK,
     ShortOK, ListAnswered
<1> QED BY <1>1, <1>3, NextTypeOK, NextWalkInv DEF ReadInv

LEMMA ReadCorrect == Spec => []ReadInv
BY InitReadInv, NextReadInv, PTL DEF Spec

(***************************************************************************)
(* Requests, answers, walks, rows and buckets keep their types, whatever   *)
(* range a request asks for and whichever store answers it.                *)
(***************************************************************************)
THEOREM ApiTypeCorrect == Spec => []TypeOK
<1>1. ReadInv => TypeOK
  BY DEF ReadInv
<1> QED BY <1>1, ReadCorrect, PTL

(***************************************************************************)
(* A page of all jobs that is not full reaches the total it comes with,    *)
(* for any number of inserts between ListJobs' COUNT and its SELECT.       *)
(***************************************************************************)
THEOREM TotalsCorrect == Spec => []ShortPageReachesTotal
<1>1. ReadInv => ShortPageReachesTotal
  BY DEF ReadInv
<1> QED BY <1>1, ReadCorrect, PTL

(***************************************************************************)
(* Unless its own statement failed, a request is answered 500 only for the *)
(* range it asked for, or with pgx for a job that is not stored when       *)
(* GetJob looks it up.                                                     *)
(***************************************************************************)
THEOREM FailuresCorrect == Spec => FailuresExplained
<1>1. ReadInv /\ [Next]_vars =>
        [\A c \in Clients :
           answer'[c] # answer[c] /\ answer'[c].code = 500 /\ faults' = faults
             => Explained(Asked(c))]_vars
  BY NextExplained
<1> QED BY <1>1, ReadCorrect, PTL DEF Spec, FailuresExplained

(***************************************************************************)
(* A client that asks ListJobs for page after page sees every job that was *)
(* there when it began, for any page size and any number of rows inserted  *)
(* and settled meanwhile, if no other job has its created_at and, with a   *)
(* status filter, no job left the status.                                  *)
(***************************************************************************)
THEOREM WalksCorrect == Spec => []WalkSkipsNothing
<1>1. ReadInv => WalkSkipsNothing
  <2> SUFFICES ASSUME ReadInv, NEW c \in Clients, walk[c].pc = "done",
                      ~walk[c].moved, NEW j \in walk[c].due, Unique(j)
               PROVE  j \in walk[c].seen
    BY DEF WalkSkipsNothing
  <2>1. walk[c] # NoWalk /\ walk[c].pc # "on"
    BY DEF NoWalk
  <2> QED BY <2>1 DEF ReadInv, WalkInv, WalkOK
<1> QED BY <1>1, ReadCorrect, PTL

(* The pages of StoresAgree, and all others a proper request can ask for.  *)
PagesAgree ==
  \A s \in Orders(Stored), limit \in Nat \ {0}, offset \in Nat :
    SamePage(s, limit, offset)

(***************************************************************************)
(* The three stores cut the same page out of the same rows, in every state *)
(* and for every positive limit and every offset that is not negative.     *)
(***************************************************************************)
THEOREM StoresCorrect == Spec => [](StoresAgree /\ PagesAgree)
<1>1. PagesAgree
  <2> SUFFICES ASSUME NEW s \in Orders(Stored),
                      NEW limit \in Nat \ {0}, NEW offset \in Nat
               PROVE  SamePage(s, limit, offset)
    BY DEF PagesAgree
  <2>1. s \in Seq(Stored)
    BY StoredFinite, OrderFacts
  <2> QED BY <2>1, ProperPages DEF SamePage
<1>2. StoresAgree
  <2> SUFFICES ASSUME NEW s \in Orders(Stored),
                      NEW limit \in 1 .. Len(s) + 1,
                      NEW offset \in 0 .. Len(s) + 1
               PROVE  SamePage(s, limit, offset)
    BY DEF StoresAgree
  <2>1. limit \in Nat \ {0} /\ offset \in Nat
    OBVIOUS
  <2> QED BY <1>1, <2>1 DEF PagesAgree
<1> QED BY <1>1, <1>2, PTL
=============================================================================
