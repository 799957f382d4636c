----------------------------- MODULE RateLimiter -----------------------------
(***************************************************************************)
(* The token bucket in front of anonymous submissions                      *)
(* (internal/lib/ratelimit) and the address it is keyed by                 *)
(* (server/http/public.go, server.go).  A level counts ticks: one token is *)
(* Refill ticks' worth, so a bucket gains one per tick, where the program  *)
(* adds elapsed seconds times the rate to a float.                         *)
(***************************************************************************)
EXTENDS Integers, Sequences

CONSTANTS
  Clients,
  Addresses,
  AddressOf,    \* RemoteAddr of a client's connection as the backend sees it
  Capacity,     \* tokens in a full bucket
  Refill,       \* ticks in which one token comes back
  MaxTime       \* bound of the clock, for TLC

ASSUME LimiterAssumption ==
  /\ AddressOf \in [Clients -> Addresses]
  /\ Capacity \in Nat \ {0}
  /\ Refill \in Nat \ {0}
  /\ MaxTime \in Nat

VARIABLES
  now,
  buckets,      \* the map, by address
  passed,       \* history: when each client's requests were let through
  reply         \* history: the answer given last, until time moves on

vars == <<now, buckets, passed, reply>>

Full == Capacity * Refill

Buckets == [level : 0..Full, last : Nat]

NoBucket == [level |-> -1, last |-> 0]

NoReply == [client |-> "none", allowed |-> TRUE]

Init ==
  /\ now = 0
  /\ buckets = [a \in Addresses |-> NoBucket]
  /\ passed = [c \in Clients |-> <<>>]
  /\ reply = NoReply

Answered(c, allowed) ==
  /\ reply' = [client |-> c, allowed |-> allowed]
  /\ passed' = IF allowed THEN [passed EXCEPT ![c] = Append(@, now)] ELSE passed

\* Faulty variant: an idle address saves up without end.
Refilled_NoCap(b) == b.level + (now - b.last)

\* The level after the refill since the last call, at most full.
Refilled(b) ==
  IF b.level + (now - b.last) > Full THEN Full ELSE b.level + (now - b.last)

\* An address that has no bucket yet gets a full one, less a token.
AllowFirst(c) ==
  /\ buckets[AddressOf[c]] = NoBucket
  /\ buckets' = [buckets EXCEPT ![AddressOf[c]] = [level |-> Full - Refill, last |-> now]]
  /\ Answered(c, TRUE)
  /\ UNCHANGED now

AllowNext(c) ==
  LET level == Refilled(buckets[AddressOf[c]]) IN
  /\ buckets[AddressOf[c]] # NoBucket
  /\ level >= Refill
  /\ buckets' = [buckets EXCEPT ![AddressOf[c]] = [level |-> level - Refill, last |-> now]]
  /\ Answered(c, TRUE)
  /\ UNCHANGED now

\* Faulty variant: the time of the refill is kept only when a token is taken.
Refuse_KeepsTime(c) ==
  LET level == Refilled(buckets[AddressOf[c]]) IN
  /\ buckets[AddressOf[c]] # NoBucket
  /\ level < Refill
  /\ buckets' = [buckets EXCEPT ![AddressOf[c]].level = level]
  /\ Answered(c, FALSE)
  /\ UNCHANGED now

\* Faulty variant: what was refilled since the last call is lost.
Refuse_DropsRefill(c) ==
  LET level == Refilled(buckets[AddressOf[c]]) IN
  /\ buckets[AddressOf[c]] # NoBucket
  /\ level < Refill
  /\ buckets' = [buckets EXCEPT ![AddressOf[c]].last = now]
  /\ Answered(c, FALSE)
  /\ UNCHANGED now

\* A refused request keeps what was refilled for it.
Refuse(c) ==
  LET level == Refilled(buckets[AddressOf[c]]) IN
  /\ buckets[AddressOf[c]] # NoBucket
  /\ level < Refill
  /\ buckets' = [buckets EXCEPT ![AddressOf[c]] = [level |-> level, last |-> now]]
  /\ Answered(c, FALSE)
  /\ UNCHANGED now

\* time.Now is read under the mutex, so calls see it in the order they run.
Tick ==
  /\ now < MaxTime
  /\ now' = now + 1
  /\ reply' = NoReply
  /\ UNCHANGED <<buckets, passed>>

Next == Tick \/ \E c \in Clients : AllowFirst(c) \/ AllowNext(c) \/ Refuse(c)

Spec == Init /\ [][Next]_vars

-----------------------------------------------------------------------------
\* Types: a level never leaves 0..capacity, a bucket is never of the future.
TypeOK ==
  /\ now \in Nat
  /\ buckets \in [Addresses -> Buckets \cup {NoBucket}]
  /\ \A a \in Addresses : buckets[a].last <= now
  /\ passed \in [Clients -> Seq(Nat)]
  /\ reply = NoReply \/ (reply.client \in Clients /\ reply.allowed \in BOOLEAN)

\* What the requests from the i-th on have used up.
Used(c, i) == (Len(passed[c]) - i + 1) * Refill

\* In any span of time a client gets through no more requests than the burst
\* plus what the rate gives for the span, whichever way calls, refusals and
\* pauses alternate (public.go:20: one per second on average, a burst of 10).
WindowBound ==
  \A c \in Clients : \A i \in 1..Len(passed[c]), j \in 1..Len(passed[c]) :
    i <= j => (j - i + 1) * Refill <= Full + (passed[c][j] - passed[c][i])

\* One more request of the client would break WindowBound.
AtLimit(c) ==
  \E i \in 1..Len(passed[c]) : Used(c, i) + Refill > Full + (now - passed[c][i])

\* A client is refused only when it is itself at the limit: no refill is lost
\* by calling too often, none by others' calls (public.go:20, ratelimit.go:29).
RefusedOnlyAtLimit ==
  ~reply.allowed => AtLimit(reply.client)
=============================================================================
