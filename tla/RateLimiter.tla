---------------------------- MODULE RateLimiter ----------------------------
(***************************************************************************)
(* The limiter before the scan, authorize and revoke routes                *)
(* (httpHandler.ts): one fixed window for each key, a client's address     *)
(* with the route, that begins with the first request after the last one   *)
(* has passed.  A function of the arrivals; nothing else changes it.       *)
(***************************************************************************)
EXTENDS Integers, Sequences, FiniteSets, SequencesExt

CONSTANTS
    RATE_LIMIT_WINDOW_MS,
    RATE_LIMIT_MAX_REQUESTS,
    Keys,
    Arrivals   \* sequences of requests: a key and a time, in order of time

ASSUME RateLimiterAssumption ==
    /\ RATE_LIMIT_WINDOW_MS \in Nat
    /\ RATE_LIMIT_MAX_REQUESTS \in Nat \ {0}
    /\ Arrivals \subseteq Seq([key : Keys, at : Nat])
    /\ \A requests \in Arrivals :
         \A i, j \in DOMAIN requests : i < j => requests[i].at <= requests[j].at

NoEntry == [count |-> 0, windowStart |-> -1]

NoHits == [k \in Keys |-> NoEntry]

\* Mutant: every request begins the window anew.
HitSliding(hits, request) ==
    LET entry == hits[request.key]
    IN  [hits EXCEPT ![request.key] =
           IF entry = NoEntry \/ request.at - entry.windowStart > RATE_LIMIT_WINDOW_MS
           THEN [count |-> 1, windowStart |-> request.at]
           ELSE [count |-> entry.count + 1, windowStart |-> request.at]]

Hit(hits, request) ==
    LET entry == hits[request.key]
    IN  [hits EXCEPT ![request.key] =
           IF entry = NoEntry \/ request.at - entry.windowStart > RATE_LIMIT_WINDOW_MS
           THEN [count |-> 1, windowStart |-> request.at]
           ELSE [entry EXCEPT !.count = @ + 1]]

\* The answer to the i-th of the requests.
isRateLimited(requests, i) ==
    FoldLeft(Hit, NoHits, SubSeq(requests, 1, i))[requests[i].key].count
      > RATE_LIMIT_MAX_REQUESTS

\* No stretch as long as a window, wherever it begins, admits twice the limit
\* of one key's requests, and a request is only refused when as many of its own
\* key as the limit were admitted within a window before it.
WithinTwice(requests) ==
    LET admitted == {i \in DOMAIN requests : ~isRateLimited(requests, i)}
        Stretch(key, from) ==
          {i \in admitted : /\ requests[i].key = key
                            /\ requests[i].at \in from .. from + RATE_LIMIT_WINDOW_MS}
    IN  \A i \in DOMAIN requests :
          LET r == requests[i]
          IN  /\ Cardinality(Stretch(r.key, r.at)) < 2 * RATE_LIMIT_MAX_REQUESTS
              /\ i \notin admitted =>
                   Cardinality({j \in Stretch(r.key, r.at - RATE_LIMIT_WINDOW_MS) : j < i})
                     >= RATE_LIMIT_MAX_REQUESTS
=============================================================================
