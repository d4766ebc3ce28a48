------------------------------ MODULE RateLimit ------------------------------
(***************************************************************************)
(* The sliding windows that limit the requests of an address, and more     *)
(* narrowly its chats and its evaluations. A request has the address it    *)
(* came from (ip), a route, and a time (at), in Ticks per second. The      *)
(* window is in ticks.                                                     *)
(***************************************************************************)
EXTENDS Naturals, Sequences

CONSTANTS Window, Ticks

ASSUME WindowAssumption == Window \in Nat \ {0} /\ Ticks \in Nat \ {0}

\* The hits that have left the window are popped off the left end.
Fresh(hits, now) ==
  LET gone == CHOOSE n \in 0..Len(hits) :
                /\ \A i \in 1..n : hits[i] + Window <= now
                /\ n = Len(hits) \/ hits[n + 1] + Window > now
  IN  SubSeq(hits, gone + 1, Len(hits))

\* Seconds until the oldest hit has left the window.
RetryAfter(hits, now) == (Window - (now - hits[1])) \div Ticks + 1

\* check: a limit of 0 is none; a refused request is not recorded.
Check(hits, limit, now) ==
  LET fresh == Fresh(hits, now) IN
  IF limit = 0 THEN [allowed |-> TRUE, retry |-> 0, hits |-> hits]
  ELSE IF Len(fresh) >= limit
       THEN [allowed |-> FALSE, retry |-> RetryAfter(fresh, now), hits |-> fresh]
  ELSE [allowed |-> TRUE, retry |-> 0, hits |-> Append(fresh, now)]

-----------------------------------------------------------------------------
(* The middleware: every request meets the window of its address, chats    *)
(* and evaluations one more                                                *)

First(r) == <<"ip", r.ip>>

MeetsSecond(r) == r.route \in {"chat", "evals"}

\* Authentication is further in than the limiter (main.py): it knows no principal
\* yet, whose tenant chats would be counted under.
Second(r) == IF r.route = "chat" THEN <<"chat", r.ip>> ELSE <<"evals", r.ip>>

Meets(r) == IF MeetsSecond(r) THEN {First(r), Second(r)} ELSE {First(r)}

HardeningGivingBack(hits, limits, r) ==
  LET first == Check(hits[First(r)], limits.ip, r.at)
      second == Check(hits[Second(r)], limits[r.route], r.at)
  IN  IF first.allowed /\ MeetsSecond(r)
      THEN [allowed |-> second.allowed, retry |-> second.retry, by |-> Second(r),
            hits |-> IF second.allowed
                     THEN [hits EXCEPT ![First(r)] = first.hits, ![Second(r)] = second.hits]
                     ELSE [hits EXCEPT ![Second(r)] = second.hits]]
      ELSE [allowed |-> first.allowed, retry |-> first.retry, by |-> First(r),
            hits |-> [hits EXCEPT ![First(r)] = first.hits]]

\* A request that the second window refuses has used up its place in the first.
\* "by" is the window that had the last word.
Hardening(hits, limits, r) ==
  LET first == Check(hits[First(r)], limits.ip, r.at)
      second == Check(hits[Second(r)], limits[r.route], r.at)
  IN  IF first.allowed /\ MeetsSecond(r)
      THEN [allowed |-> second.allowed, retry |-> second.retry, by |-> Second(r),
            hits |-> [hits EXCEPT ![First(r)] = first.hits, ![Second(r)] = second.hits]]
      ELSE [allowed |-> first.allowed, retry |-> first.retry, by |-> First(r),
            hits |-> [hits EXCEPT ![First(r)] = first.hits]]

\* Before the first request nothing has been recorded of anybody.
Unasked(requests) ==
  [allowed |-> TRUE, retry |-> 0, by |-> <<>>,
   hits |-> [w \in {First(requests[k]) : k \in 1..Len(requests)}
                   \cup {Second(requests[k]) : k \in 1..Len(requests)} |-> <<>>]]

\* What each of the requests is answered; 0 is before the first.
Checks(requests, limits) ==
  LET answer[k \in 0..Len(requests)] ==
        IF k = 0 THEN Unasked(requests)
        ELSE Hardening(answer[k - 1].hits, limits, requests[k])
  IN  answer
=============================================================================
