-------------------------- MODULE RateLimiterProofs --------------------------
(***************************************************************************)
(* The limit of the token bucket, for any capacity, rate and clock, any    *)
(* clients and any way their connections map to addresses.                 *)
(***************************************************************************)
EXTENDS RateLimiter, TLAPS

Bucket(c) == buckets[AddressOf[c]]

\* What a client has used since each of its requests, and what its bucket
\* still holds, are together within the limit.
BudgetInv ==
  \A c \in Clients : \A i \in 1..Len(passed[c]) :
    /\ Bucket(c) # NoBucket
    /\ passed[c][i] <= Bucket(c).last
    /\ Used(c, i) + Bucket(c).level <= Full + (Bucket(c).last - passed[c][i])

\* The bucket holds exactly what the limit leaves, counted from one of the
\* requests that were let through; only when no two clients share it.
AnchoredInv ==
  \A c \in Clients :
    Bucket(c) # NoBucket =>
      \E i \in 1..Len(passed[c]) :
        Used(c, i) + Bucket(c).level = Full + (Bucket(c).last - passed[c][i])

\* Every client has an address of its own.
Unshared == \A c, d \in Clients : AddressOf[c] = AddressOf[d] => c = d

LimiterInv == TypeOK /\ BudgetInv /\ WindowBound

LEMMA FullIs == Full \in Nat /\ Full >= Refill /\ Refill \in Nat /\ Refill > 0
<1>1. Capacity \in Nat /\ Capacity >= 1 /\ Refill \in Nat /\ Refill > 0
  BY LimiterAssumption
<1>2. \A x, y \in Nat : x >= 1 => x * y \in Nat /\ x * y >= y
  BY SMT
<1>3. QED
  BY <1>1, <1>2 DEF Full

\* One more request uses one more token.
LEMMA OneMore == \A m \in Int : (m + 1) * Refill = m * Refill + Refill
BY FullIs

\* The values a client's history is made of.
LEMMA HistoryValues ==
  ASSUME TypeOK, NEW d \in Clients
  PROVE  /\ passed[d] \in Seq(Nat) /\ Len(passed[d]) \in Nat
         /\ \A k \in 1..Len(passed[d]) : passed[d][k] \in Nat /\ Used(d, k) \in Int
<1>1. passed[d] \in Seq(Nat)
  BY DEF TypeOK
<1>2. Len(passed[d]) \in Nat
  BY <1>1
<1>3. ASSUME NEW k \in 1..Len(passed[d])
      PROVE  passed[d][k] \in Nat /\ Used(d, k) \in Int
  <2>1. passed[d][k] \in Nat
    BY <1>1, <1>2
  <2>2. Len(passed[d]) - k + 1 \in Int
    BY <1>2
  <2>3. \A m \in Int : m * Refill \in Int
    BY FullIs
  <2>4. QED
    BY <2>1, <2>2, <2>3 DEF Used
<1>4. QED
  BY <1>1, <1>2, <1>3

LEMMA BucketType ==
  ASSUME TypeOK, NEW c \in Clients
  PROVE  /\ AddressOf[c] \in Addresses
         /\ Bucket(c) = NoBucket \/ (Bucket(c).level \in 0..Full /\ Bucket(c).last \in Nat)
         /\ Bucket(c).last <= now
BY LimiterAssumption DEF TypeOK, Bucket, Buckets

Cost(allowed) == IF allowed THEN Refill ELSE 0

\* What a call does to the bucket of its client: at most the refill comes in,
\* and a token goes out when it is let through.
Charged(c, allowed, level) ==
  LET total == level + Cost(allowed) IN
  /\ total <= Full
  /\ Bucket(c) = NoBucket => allowed /\ total = Full
  /\ Bucket(c) # NoBucket =>
       /\ total <= Bucket(c).level + (now - Bucket(c).last)
       /\ total = Full \/ total = Bucket(c).level + (now - Bucket(c).last)
       /\ ~allowed => total < Refill

Served(c, allowed) ==
  /\ Answered(c, allowed)
  /\ now' = now
  /\ \E level \in 0..Full :
       /\ buckets' = [buckets EXCEPT ![AddressOf[c]] = [level |-> level, last |-> now]]
       /\ Charged(c, allowed, level)

LEMMA CallsServe ==
  ASSUME TypeOK, NEW c \in Clients, AllowFirst(c) \/ AllowNext(c) \/ Refuse(c)
  PROVE  \E allowed \in BOOLEAN : Served(c, allowed)
<1> DEFINE b == Bucket(c)
           r == Refilled(b)
<1>1. CASE AllowFirst(c)
  <2>1. Full - Refill \in 0..Full /\ (Full - Refill) + Refill = Full
    BY FullIs
  <2>2. Charged(c, TRUE, Full - Refill)
    BY <1>1, <2>1, FullIs DEF AllowFirst, Charged, Cost, Bucket
  <2>3. Served(c, TRUE)
    BY <1>1, <2>1, <2>2 DEF AllowFirst, Served
  <2>4. QED
    BY <2>3
<1>2. ASSUME b # NoBucket
      PROVE  /\ r \in 0..Full /\ r <= b.level + (now - b.last)
             /\ r = Full \/ r = b.level + (now - b.last)
  <2>1. b.level \in 0..Full /\ b.last \in Nat /\ b.last <= now /\ now \in Nat
    BY <1>2, BucketType DEF TypeOK
  <2> HIDE DEF b
  <2>2. QED
    BY <2>1, FullIs DEF Refilled
<1>3. CASE AllowNext(c)
  <2>1. b # NoBucket /\ r >= Refill
        /\ buckets' = [buckets EXCEPT ![AddressOf[c]] = [level |-> r - Refill, last |-> now]]
    BY <1>3 DEF AllowNext, Bucket
  <2>2. r - Refill \in 0..Full /\ (r - Refill) + Refill = r /\ r <= Full
    BY <1>2, <2>1, FullIs
  <2>3. Charged(c, TRUE, r - Refill)
    BY <1>2, <2>1, <2>2 DEF Charged, Cost
  <2> HIDE DEF r
  <2>4. Served(c, TRUE)
    BY <1>3, <2>1, <2>2, <2>3 DEF Served, AllowNext
  <2>5. QED
    BY <2>4
<1>4. CASE Refuse(c)
  <2>1. b # NoBucket /\ r < Refill
        /\ buckets' = [buckets EXCEPT ![AddressOf[c]] = [level |-> r, last |-> now]]
    BY <1>4 DEF Refuse, Bucket
  <2>2. r + 0 = r /\ r \in 0..Full /\ r <= Full
    BY <1>2, <2>1, FullIs
  <2>3. Charged(c, FALSE, r)
    BY <1>2, <2>1, <2>2 DEF Charged, Cost
  <2> HIDE DEF r
  <2>4. Served(c, FALSE)
    BY <1>4, <2>1, <2>2, <2>3 DEF Served, Refuse
  <2>5. QED
    BY <2>4
<1>5. QED
  BY <1>1, <1>3, <1>4

-----------------------------------------------------------------------------
\* A call, seen from any client d.
LEMMA ServedTypes ==
  ASSUME TypeOK, NEW c \in Clients, NEW allowed \in BOOLEAN, Served(c, allowed)
  PROVE  TypeOK'
<1>1. buckets' \in [Addresses -> Buckets \cup {NoBucket}]
  <2>1. PICK level \in 0..Full :
          buckets' = [buckets EXCEPT ![AddressOf[c]] = [level |-> level, last |-> now]]
    BY DEF Served
  <2>2. [level |-> level, last |-> now] \in Buckets
    BY DEF TypeOK, Buckets
  <2>3. QED
    BY <2>1, <2>2 DEF TypeOK
<1>2. \A a \in Addresses : buckets'[a].last <= now
  BY DEF TypeOK, Served
<1>3. passed' \in [Clients -> Seq(Nat)]
  BY DEF TypeOK, Served, Answered
<1>4. QED
  BY <1>1, <1>2, <1>3 DEF TypeOK, Served, Answered

\* The history of the client that was let through grows by the current time.
LEMMA ServedHistory ==
  ASSUME TypeOK, NEW c \in Clients, NEW allowed \in BOOLEAN, Served(c, allowed),
         NEW d \in Clients
  PROVE  /\ passed[d] \in Seq(Nat) /\ Len(passed[d]) \in Nat
         /\ ~(allowed /\ d = c) => passed'[d] = passed[d]
         /\ allowed /\ d = c =>
              /\ Len(passed'[d]) = Len(passed[d]) + 1
              /\ \A i \in 1..Len(passed[d]) : passed'[d][i] = passed[d][i]
              /\ passed'[d][Len(passed[d]) + 1] = now
         /\ \A i \in 1..Len(passed[d]) :
              Used(d, i)' = Used(d, i) + Cost(allowed /\ d = c)
<1>1. passed[d] \in Seq(Nat) /\ Len(passed[d]) \in Nat /\ now \in Nat
  BY DEF TypeOK
<1>2. CASE allowed /\ d = c
  <2>1. passed'[d] = Append(passed[d], now)
    BY <1>2 DEF TypeOK, Served, Answered
  <2>2. /\ Len(passed'[d]) = Len(passed[d]) + 1
        /\ \A i \in 1..Len(passed[d]) : passed'[d][i] = passed[d][i]
        /\ passed'[d][Len(passed[d]) + 1] = now
    BY <1>1, <2>1
  <2>3. ASSUME NEW i \in 1..Len(passed[d])
        PROVE  Used(d, i)' = Used(d, i) + Refill
    <3>1. (Len(passed[d]) + 1) - i + 1 = (Len(passed[d]) - i + 1) + 1
      BY <1>1
    <3>2. QED
      BY <1>1, <2>2, <3>1, OneMore DEF Used
  <2>4. QED
    BY <1>1, <1>2, <2>2, <2>3 DEF Cost
<1>3. CASE ~(allowed /\ d = c)
  <2>1. passed'[d] = passed[d]
    BY <1>3 DEF TypeOK, Served, Answered
  <2>2. \A i \in 1..Len(passed[d]) : Used(d, i)' = Used(d, i) /\ Used(d, i) \in Int
    BY <1>1, <2>1, HistoryValues DEF Used
  <2>3. QED
    BY <1>1, <1>3, <2>1, <2>2 DEF Cost
<1>4. QED
  BY <1>2, <1>3

LEMMA ServedBudget ==
  ASSUME LimiterInv, NEW c \in Clients, NEW allowed \in BOOLEAN, Served(c, allowed)
  PROVE  BudgetInv'
<1>1. SUFFICES ASSUME NEW d \in Clients, NEW i \in 1..Len(passed'[d])
               PROVE  /\ Bucket(d)' # NoBucket
                      /\ passed'[d][i] <= Bucket(d)'.last
                      /\ Used(d, i)' + Bucket(d)'.level
                           <= Full + (Bucket(d)'.last - passed'[d][i])
  BY DEF BudgetInv
<1> DEFINE L == Len(passed[d])
<1>2. TypeOK /\ AddressOf[c] \in Addresses /\ AddressOf[d] \in Addresses /\ now \in Nat
  BY BucketType DEF LimiterInv, TypeOK
<1>3. /\ passed[d] \in Seq(Nat) /\ L \in Nat
      /\ \A k \in 1..L : passed[d][k] \in Nat /\ Used(d, k) \in Int
  BY <1>2, HistoryValues
<1>4. PICK level \in 0..Full :
        /\ buckets' = [buckets EXCEPT ![AddressOf[c]] = [level |-> level, last |-> now]]
        /\ level + Cost(allowed) <= Full
        /\ Bucket(c) # NoBucket => level + Cost(allowed) <= Bucket(c).level + (now - Bucket(c).last)
  BY DEF Served, Charged
<1>5. CASE AddressOf[d] = AddressOf[c]
  <2>1. Bucket(d)' = [level |-> level, last |-> now] /\ Bucket(c) = Bucket(d)
    BY <1>2, <1>4, <1>5 DEF Bucket, TypeOK
  <2>2. Bucket(d)'.level = level /\ Bucket(d)'.last = now /\ Bucket(d)' # NoBucket
    BY <2>1 DEF NoBucket
  <2>3. CASE i \in 1..L
    <3>1. /\ Bucket(d) # NoBucket /\ passed[d][i] <= Bucket(d).last
          /\ Used(d, i) + Bucket(d).level <= Full + (Bucket(d).last - passed[d][i])
      BY <2>3 DEF LimiterInv, BudgetInv
    <3>2. Bucket(d).level \in 0..Full /\ Bucket(d).last \in Nat /\ Bucket(d).last <= now
      BY <1>2, <3>1, BucketType
    <3>3. passed'[d][i] = passed[d][i] /\ Used(d, i)' <= Used(d, i) + Cost(allowed)
          /\ Used(d, i)' \in Int
      BY <1>2, <1>3, <2>3, ServedHistory, FullIs DEF Cost
    <3>4. level + Cost(allowed) <= Bucket(d).level + (now - Bucket(d).last)
      BY <1>4, <2>1, <3>1
    <3>5. passed[d][i] \in Nat /\ Used(d, i) \in Int /\ Cost(allowed) \in Int
      BY <1>3, <2>3, FullIs DEF Cost
    <3> DEFINE u == Used(d, i)
               v == Used(d, i)'
               b == Bucket(d)
               p == passed[d][i]
    <3>6. v + level <= Full + (now - p)
      <4> HIDE DEF u, v, b, p
      <4>1. /\ v \in Int /\ u \in Int /\ Cost(allowed) \in Int /\ p \in Nat
            /\ v <= u + Cost(allowed)
            /\ level + Cost(allowed) <= b.level + (now - b.last)
            /\ u + b.level <= Full + (b.last - p)
            /\ b.level \in Int /\ b.last \in Int
        BY <3>1, <3>2, <3>3, <3>4, <3>5 DEF u, v, b, p
      <4>2. QED
        BY <1>2, <4>1, FullIs
    <3>7. QED
      BY <1>2, <2>2, <3>1, <3>2, <3>3, <3>5, <3>6
  <2>4. CASE i \notin 1..L
    <3>1. allowed /\ d = c /\ i = L + 1 /\ passed'[d][i] = now /\ Len(passed'[d]) = L + 1
      BY <1>1, <1>2, <1>3, <2>4, ServedHistory
    <3>2. Used(d, i)' = Refill
      <4>1. Used(d, i)' = ((L + 1) - (L + 1) + 1) * Refill
        BY <3>1 DEF Used
      <4>2. QED
        BY <1>3, <4>1, FullIs
    <3>3. QED
      BY <1>2, <1>4, <2>2, <3>1, <3>2, FullIs DEF Cost
  <2>5. QED
    BY <2>3, <2>4
<1>6. CASE AddressOf[d] # AddressOf[c]
  <2>1. Bucket(d)' = Bucket(d) /\ d # c
    BY <1>2, <1>4, <1>6 DEF Bucket, TypeOK
  <2>2. passed'[d] = passed[d] /\ \A k \in 1..L : Used(d, k)' = Used(d, k)
    <3>1. Cost(allowed /\ d = c) = 0
      BY <2>1 DEF Cost
    <3>2. QED
      BY <1>2, <1>3, <2>1, <3>1, ServedHistory
  <2>3. QED
    BY <1>1, <2>1, <2>2 DEF LimiterInv, BudgetInv
<1>7. QED
  BY <1>5, <1>6

LEMMA ServedWindow ==
  ASSUME LimiterInv, NEW c \in Clients, NEW allowed \in BOOLEAN, Served(c, allowed)
  PROVE  WindowBound'
<1>1. TypeOK /\ BudgetInv' /\ now \in Nat
  BY ServedBudget DEF LimiterInv, TypeOK
<1>2. SUFFICES ASSUME NEW d \in Clients, NEW i \in 1..Len(passed'[d]),
                      NEW j \in 1..Len(passed'[d]), i <= j
               PROVE  (j - i + 1) * Refill <= Full + (passed'[d][j] - passed'[d][i])
  BY DEF WindowBound
<1> DEFINE L == Len(passed[d])
<1>3. passed[d] \in Seq(Nat) /\ L \in Nat
  BY <1>1 DEF TypeOK
<1>4. CASE j \in 1..L
  <2>1. i \in 1..L
    BY <1>2, <1>3, <1>4
  <2>2. passed'[d][i] = passed[d][i] /\ passed'[d][j] = passed[d][j]
    BY <1>1, <1>4, <2>1, ServedHistory
  <2>3. QED
    BY <1>2, <1>4, <2>1, <2>2 DEF LimiterInv, WindowBound
<1>5. CASE j \notin 1..L
  <2>1. allowed /\ d = c /\ j = L + 1 /\ passed'[d][j] = now /\ Len(passed'[d]) = L + 1
    BY <1>1, <1>2, <1>3, <1>5, ServedHistory
  <2>2. PICK level \in 0..Full : Bucket(d)' = [level |-> level, last |-> now]
    BY <1>1, <2>1, BucketType DEF Served, Bucket, TypeOK
  <2>3. Used(d, i)' + level <= Full + (now - passed'[d][i])
    BY <1>1, <2>2 DEF BudgetInv
  <2>4. Used(d, i)' = (j - i + 1) * Refill
    BY <2>1 DEF Used
  <2>5. passed'[d][i] \in Nat
    <3>1. TypeOK'
      BY <1>1, ServedTypes
    <3>2. passed'[d] \in Seq(Nat)
      BY <3>1 DEF TypeOK
    <3>3. QED
      BY <3>2
  <2>6. (j - i + 1) * Refill \in Int
    BY <1>2, <2>1, <1>3, FullIs
  <2> DEFINE w == (j - i + 1) * Refill
             p == passed'[d][i]
  <2> HIDE DEF w, p
  <2>7. w <= Full + (now - p)
    BY <1>1, <2>2, <2>3, <2>4, <2>5, <2>6, FullIs DEF w, p
  <2>8. QED
    BY <2>1, <2>7 DEF w, p
<1>6. QED
  BY <1>4, <1>5

LEMMA LimiterStep ==
  ASSUME LimiterInv, [Next]_vars PROVE LimiterInv'
<1>1. CASE UNCHANGED vars
  BY <1>1 DEF LimiterInv, TypeOK, BudgetInv, WindowBound, Used, Bucket, vars
<1>2. CASE Tick
  <2>1. buckets' = buckets /\ passed' = passed /\ now' = now + 1 /\ reply' = NoReply
    BY <1>2 DEF Tick
  <2>2. TypeOK'
    BY <2>1 DEF LimiterInv, TypeOK, Buckets, NoBucket
  <2>3. QED
    BY <2>1, <2>2 DEF LimiterInv, BudgetInv, WindowBound, Used, Bucket
<1>3. ASSUME NEW c \in Clients, AllowFirst(c) \/ AllowNext(c) \/ Refuse(c)
      PROVE  LimiterInv'
  <2>1. PICK allowed \in BOOLEAN : Served(c, allowed)
    BY <1>3, CallsServe DEF LimiterInv
  <2>2. QED
    BY <2>1, ServedTypes, ServedBudget, ServedWindow DEF LimiterInv
<1>4. QED
  BY <1>1, <1>2, <1>3 DEF Next

LEMMA LimiterInit == Init => LimiterInv
<1> SUFFICES ASSUME Init PROVE LimiterInv
  OBVIOUS
<1>1. \A c \in Clients : passed[c] = <<>> /\ Len(passed[c]) = 0
  BY DEF Init
<1>2. TypeOK
  BY <1>1 DEF Init, TypeOK, NoBucket
<1>3. QED
  BY <1>1, <1>2 DEF LimiterInv, BudgetInv, WindowBound

\* A level never leaves what the bucket holds and no bucket is of the future
\* (ratelimit.go:29-49).
THEOREM LimiterTypesCorrect == Spec => []TypeOK
<1>1. LimiterInv => TypeOK
  BY DEF LimiterInv
<1>2. LimiterInv /\ [Next]_vars => LimiterInv'
  BY LimiterStep
<1>3. QED
  BY <1>1, <1>2, LimiterInit, PTL DEF Spec

\* No client ever gets more through than the burst plus the rate's share, in
\* any span of time, shared address or not (public.go:20).
THEOREM WindowBounded == Spec => []WindowBound
<1>1. LimiterInv => WindowBound
  BY DEF LimiterInv
<1>2. QED
  BY <1>1, LimiterInit, LimiterStep, PTL DEF Spec

-----------------------------------------------------------------------------
\* The converse.

\* A balance at time y, carried on to time z.
LEMMA Balance ==
  \A u, x, y, z, f, p \in Int :
    u + x = f + (y - p) => u + (x + (z - y)) = f + (z - p)
OBVIOUS

\* A call of a client alone at its address leaves its bucket anchored: at the
\* new request when the refill filled the bucket up, else where it was.
LEMMA ServedAnchored ==
  ASSUME Unshared, TypeOK, AnchoredInv,
         NEW c \in Clients, NEW allowed \in BOOLEAN, Served(c, allowed)
  PROVE  AnchoredInv'
<1>1. SUFFICES ASSUME NEW d \in Clients, Bucket(d)' # NoBucket
               PROVE  \E i \in 1..Len(passed'[d]) :
                        Used(d, i)' + Bucket(d)'.level
                          = Full + (Bucket(d)'.last - passed'[d][i])
  BY DEF AnchoredInv
<1>0. PICK L \in Nat : L = Len(passed[d])
  BY DEF TypeOK
<1>2. /\ AddressOf[c] \in Addresses /\ AddressOf[d] \in Addresses /\ now \in Nat
      /\ passed[d] \in Seq(Nat) /\ L = Len(passed[d])
      /\ \A k \in 1..L : passed[d][k] \in Nat /\ Used(d, k) \in Int
  BY <1>0, BucketType, HistoryValues DEF TypeOK
<1>3. PICK level \in 0..Full :
        /\ buckets' = [buckets EXCEPT ![AddressOf[c]] = [level |-> level, last |-> now]]
        /\ Charged(c, allowed, level)
  BY DEF Served
<1>4. CASE d # c
  <2>1. Bucket(d)' = Bucket(d)
    BY <1>2, <1>3, <1>4 DEF Unshared, Bucket, TypeOK
  <2>2. Cost(allowed /\ d = c) = 0
    BY <1>4 DEF Cost
  <2>3. passed'[d] = passed[d] /\ \A k \in 1..L : Used(d, k)' = Used(d, k)
    BY <1>2, <1>4, <2>2, ServedHistory
  <2>4. QED
    BY <1>0, <1>1, <2>1, <2>3 DEF AnchoredInv
<1>5. CASE d = c
  <2>1. Bucket(d)' = [level |-> level, last |-> now]
    BY <1>2, <1>3, <1>5 DEF Bucket, TypeOK
  <2>2. Bucket(d)'.level = level /\ Bucket(d)'.last = now
    BY <2>1
  <2>3. CASE allowed /\ level + Refill = Full
    <3>1. /\ Len(passed'[d]) = L + 1 /\ passed'[d][L + 1] = now
      BY <1>2, <1>5, <2>3, ServedHistory
    <3>2. Used(d, L + 1)' = Refill
      <4>1. Used(d, L + 1)' = ((L + 1) - (L + 1) + 1) * Refill
        BY <3>1 DEF Used
      <4>2. QED
        BY <1>2, <4>1, FullIs
    <3>3. L + 1 \in 1..Len(passed'[d])
      BY <1>2, <3>1
    <3>4. Used(d, L + 1)' + level = Full + (now - passed'[d][L + 1])
      BY <1>2, <2>3, <3>1, <3>2, FullIs
    <3>5. QED
      BY <2>2, <3>3, <3>4
  <2>4. CASE ~(allowed /\ level + Refill = Full)
    <3>1. /\ Bucket(d) # NoBucket
          /\ level + Cost(allowed) = Bucket(d).level + (now - Bucket(d).last)
      BY <1>3, <1>5, <2>4, FullIs DEF Charged, Cost
    <3>2. PICK i \in 1..L :
            Used(d, i) + Bucket(d).level = Full + (Bucket(d).last - passed[d][i])
      BY <1>0, <3>1 DEF AnchoredInv
    <3>3. /\ Used(d, i)' = Used(d, i) + Cost(allowed) /\ passed'[d][i] = passed[d][i]
          /\ i \in 1..Len(passed'[d])
      <4>1. Cost(allowed /\ d = c) = Cost(allowed)
        BY <1>5 DEF Cost
      <4>2. QED
        BY <1>2, <1>5, <4>1, ServedHistory
    <3>4. Bucket(d).level \in 0..Full /\ Bucket(d).last \in Nat
      BY <3>1, BucketType
    <3> DEFINE u == Used(d, i)
               v == Used(d, i)'
               b == Bucket(d)
               p == passed[d][i]
    <3>5. v + level = Full + (now - p)
      <4> HIDE DEF u, v, b, p
      <4>1. /\ u \in Int /\ p \in Nat /\ b.level \in Int /\ b.last \in Int
            /\ Cost(allowed) \in Int /\ now \in Int /\ Full \in Int
            /\ level + Cost(allowed) = b.level + (now - b.last)
            /\ u + b.level = Full + (b.last - p)
            /\ v = u + Cost(allowed)
        BY <1>2, <3>1, <3>2, <3>3, <3>4, FullIs DEF u, v, b, p, Cost
      <4>2. v \in Int /\ v + level = u + (level + Cost(allowed))
        BY <4>1
      <4>3. u + (b.level + (now - b.last)) = Full + (now - p)
        BY <4>1, Balance
      <4>4. QED
        BY <4>1, <4>2, <4>3
    <3>6. QED
      BY <2>2, <3>3, <3>5
  <2>5. QED
    BY <2>3, <2>4
<1>6. QED
  BY <1>4, <1>5

\* What refuses a client is its own last anchor.
LEMMA ServedJustly ==
  ASSUME Unshared, TypeOK, AnchoredInv,
         NEW c \in Clients, NEW allowed \in BOOLEAN, Served(c, allowed)
  PROVE  RefusedOnlyAtLimit'
<1>1. reply' = [client |-> c, allowed |-> allowed] /\ now' = now /\ now \in Nat
  BY DEF Served, Answered, TypeOK
<1>2. SUFFICES ASSUME ~allowed PROVE AtLimit(c)'
  BY <1>1 DEF RefusedOnlyAtLimit, AtLimit, Used
<1>3. PICK level \in 0..Full :
        /\ buckets' = [buckets EXCEPT ![AddressOf[c]] = [level |-> level, last |-> now]]
        /\ Charged(c, allowed, level)
  BY DEF Served
<1>4. Bucket(c)' = [level |-> level, last |-> now] /\ Bucket(c)' # NoBucket
  BY <1>3, BucketType DEF Bucket, TypeOK, NoBucket
<1>5. level < Refill
  BY <1>2, <1>3 DEF Charged, Cost
<1>6. PICK i \in 1..Len(passed'[c]) :
        Used(c, i)' + level = Full + (now - passed'[c][i])
  BY <1>4, ServedAnchored DEF AnchoredInv
<1>7. Used(c, i)' \in Int /\ passed'[c][i] \in Int
  <2>1. TypeOK'
    BY ServedTypes
  <2>2. passed'[c] \in Seq(Nat)
    BY <2>1 DEF TypeOK
  <2>3. QED
    BY <2>2, FullIs DEF Used
<1> DEFINE u == Used(c, i)'
           p == passed'[c][i]
<1>8. u + Refill > Full + (now' - p)
  <2> HIDE DEF u, p
  <2>1. u \in Int /\ p \in Int /\ u + level = Full + (now - p)
    BY <1>6, <1>7 DEF u, p
  <2>2. QED
    BY <1>1, <1>5, <2>1, FullIs
<1>9. QED
  BY <1>8 DEF AtLimit

\* A client with an address of its own is refused only when one request more
\* would exceed the limit: the bound of WindowBounded is exact (public.go:20).
THEOREM RefusalsJustified == ASSUME Unshared PROVE Spec => []RefusedOnlyAtLimit
<1> DEFINE I == LimiterInv /\ AnchoredInv /\ RefusedOnlyAtLimit
<1>1. Init => I
  BY LimiterInit, LimiterAssumption DEF Init, AnchoredInv, RefusedOnlyAtLimit, NoReply, Bucket
<1>2. I /\ [Next]_vars => I'
  <2> SUFFICES ASSUME I, [Next]_vars PROVE I'
    OBVIOUS
  <2>1. LimiterInv'
    BY LimiterStep
  <2>2. CASE UNCHANGED vars
    BY <2>1, <2>2 DEF AnchoredInv, RefusedOnlyAtLimit, AtLimit, Used, Bucket, vars
  <2>3. CASE Tick
    BY <2>1, <2>3 DEF Tick, AnchoredInv, RefusedOnlyAtLimit, Used, Bucket, NoReply
  <2>4. ASSUME NEW c \in Clients, AllowFirst(c) \/ AllowNext(c) \/ Refuse(c)
        PROVE  I'
    <3>1. PICK allowed \in BOOLEAN : Served(c, allowed)
      BY <2>4, CallsServe DEF LimiterInv
    <3>2. QED
      BY <2>1, <3>1, ServedAnchored, ServedJustly DEF LimiterInv
  <2>5. QED
    BY <2>2, <2>3, <2>4 DEF Next
<1>3. QED
  BY <1>1, <1>2, PTL DEF Spec
=============================================================================
