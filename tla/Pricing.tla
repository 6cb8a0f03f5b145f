------------------------------ MODULE Pricing -------------------------------
(***************************************************************************)
(* The price cache (solana/priceCache.ts) and its two consumers in the     *)
(* server: the wallet scan behind /scan (scan/scanWallet.ts), over the     *)
(* retrying transport (solana/resilientFetch.ts), and the indexer's pass   *)
(* (indexer/index.ts with the freshness gate of sweep/sweepAsset.ts).      *)
(*                                                                         *)
(* One action is the code between two awaits.  Time is in the units of     *)
(* oracle_max_staleness_secs.  A quote remembers a moment before which its *)
(* price was not the market's, the moment of the request, which the code   *)
(* does not keep, and the moment the code stamped on it.                   *)
(***************************************************************************)
EXTENDS Quotes, Allocation, Approval, RateLimiter, FiniteSets

CONSTANTS
    Allowlist,      \* mints on the allowlist
    Requests,       \* wallets to scan, with the assets authorized before
    Rows,           \* what a pass may select: sequences of assets
    Wires,          \* prices the market may have
    UnitsPerMicro,  \* 10 ^ (mintDecimals + priceExponentAbs - 6)
    DustThreshold,  \* dust_threshold_usd_micros
    MaxSplAssets,   \* max_spl_assets_per_client
    Caps,           \* caps a client may be given
    MaxStaleness,   \* oracle_max_staleness_secs
    FetchTimeout,   \* PRICE_FETCH_TIMEOUT_MS
    MaxAttempts,    \* MAX_ATTEMPTS of resilientFetch
    MaxAccounts,    \* bound on the token accounts of a wallet
    MaxTime         \* bound on the clock

Assets == {SOL} \cup Allowlist

ASSUME PricingAssumption ==
    /\ Allowlist \subseteq Nat \ {SOL}
    /\ Wires \subseteq Wire
    /\ {UnitsPerMicro, MaxAttempts} \subseteq Nat \ {0}
    /\ Caps \subseteq Nat
    /\ {DustThreshold, MaxSplAssets, MaxStaleness, FetchTimeout, MaxAccounts,
        MaxTime} \subseteq Nat
    /\ \A r \in Requests :
         /\ r.wallet \in [lamports : Nat, accounts : Seq([mint : Nat, amount : Nat])]
         /\ Len(r.wallet.accounts) <= MaxAccounts
         /\ IsFiniteSet(r.already)
    /\ Rows \subseteq Seq(Assets)

VARIABLES
    now,    \* the clock
    cache,  \* price_cache
    flight, \* the requests for a quote under way, one for each who may ask
    scan,   \* the scan request in hand
    pass    \* the indexer's pass

vars == <<now, cache, flight, scan, pass>>

\* The scan asks for SOL as 0 and for its i-th token account as i.
Askers == ({"scan"} \X (0 .. MaxAccounts)) \cup {<<"pass", 0>>}
PassAsker == <<"pass", 0>>

NoQuote == [wire |-> "none"]
Awaited == [wire |-> "awaited"]
NoFlight == [asset |-> SOL, asked |-> -1]

Quote == [wire : Wires, scaled : Nat, quoted : 0 .. MaxTime, fetched : 0 .. MaxTime]

IsQuote(p) == p \notin {NoQuote, Awaited}

C == INSTANCE CapCheck

PriceRatio(price) == [num |-> price.scaled, den |-> UnitsPerMicro]

usdValue(amount, price) == C!ComputeUsdValueMicros(amount, PriceRatio(price))

\* Each wire converted.
Scaled == [wire \in Wires |-> priceScaled(wire)]

Fresh(price, time) == time - price.fetched <= MaxStaleness

\* Mutant: whatever is cached will do.
CachedEver(asset) == IsQuote(cache[asset])

\* getPrice answers from the cache.
Cached(asset) == IsQuote(cache[asset]) /\ Fresh(cache[asset], now)

isPriceFreshEnough(price, nowSecs) ==
    IsQuote(price) /\ Fresh(price, nowSecs) /\ price.scaled > 0

FlightsOf(consumer) ==
    {a \in Askers : a[1] = consumer /\ flight[a] # NoFlight}

NoScan == [step |-> "idle", since |-> 0, attempt |-> 0,
           wallet |-> [lamports |-> 0, accounts |-> <<>>], already |-> {},
           prices |-> [i \in 0 .. MaxAccounts |-> NoQuote]]

NoPass == [step |-> "sleep", rows |-> <<>>, at |-> 0, since |-> 0, time |-> 0,
           price |-> NoQuote]

Init ==
    /\ now = 0
    /\ cache = [a \in Assets |-> NoQuote]
    /\ flight = [a \in Askers |-> NoFlight]
    /\ scan = NoScan
    /\ pass = NoPass

-----------------------------------------------------------------------------
(* The scan.                                                               *)

\* Ask for SOL, while the balance and the accounts are read.
StartScan(wallet, already) ==
    /\ scan.step = "idle"
    /\ FlightsOf("scan") = {}
    /\ scan' = [NoScan EXCEPT !.step = "holdings", !.since = now, !.attempt = 1,
                   !.wallet = wallet, !.already = already,
                   !.prices[0] = IF Cached(SOL) THEN cache[SOL] ELSE Awaited]
    /\ flight' = IF Cached(SOL) THEN flight
                 ELSE [flight EXCEPT ![<<"scan", 0>>] = [asset |-> SOL, asked |-> now]]
    /\ UNCHANGED <<now, cache, pass>>

\* Mutant: counts around.
RetryForever ==
    /\ scan.step = "holdings" /\ scan.attempt > 0
    /\ scan' = [scan EXCEPT !.attempt = (@ % MaxAttempts) + 1]
    /\ UNCHANGED <<now, cache, flight, pass>>

\* Mutant: one attempt too many.
RetryOnceMore ==
    /\ scan.step = "holdings" /\ scan.attempt \in 1 .. MaxAttempts
    /\ scan' = [scan EXCEPT !.attempt = @ + 1]
    /\ UNCHANGED <<now, cache, flight, pass>>

\* A network error, a timeout, a 429 or a 5xx: once more.
RetryRpc ==
    /\ scan.step = "holdings" /\ scan.attempt \in 1 .. MaxAttempts - 1
    /\ scan' = [scan EXCEPT !.attempt = @ + 1]
    /\ UNCHANGED <<now, cache, flight, pass>>

\* Any other answer is the caller's; attempt 0 is a read that has ended.
RpcAnswers ==
    /\ scan.step = "holdings" /\ scan.attempt > 0
    /\ scan' = [scan EXCEPT !.attempt = 0]
    /\ UNCHANGED <<now, cache, flight, pass>>

\* A status that is not retried, or the last attempt failed: Promise.all
\* rejects, and a request for SOL's price goes on without its caller.
RpcFails ==
    /\ scan.step = "holdings" /\ scan.attempt > 0
    /\ scan' = NoScan
    /\ UNCHANGED <<now, cache, flight, pass>>

\* The accounts whose mint is allowlisted and whose balance is not zero.
Relevant(wallet) ==
    {i \in DOMAIN wallet.accounts :
       wallet.accounts[i].mint \in Allowlist /\ wallet.accounts[i].amount > 0}

\* All of them ask at once.
PriceAccounts ==
    /\ scan.step = "holdings" /\ scan.attempt = 0 /\ scan.prices[0] # Awaited
    /\ LET Mint(i) == scan.wallet.accounts[i].mint
           relevant == Relevant(scan.wallet)
           misses == {i \in relevant : ~Cached(Mint(i))}
       IN  /\ scan' = [scan EXCEPT !.step = "prices",
                         !.prices = [i \in DOMAIN @ |->
                            IF i \in misses THEN Awaited
                            ELSE IF i \in relevant THEN cache[Mint(i)] ELSE @[i]]]
           /\ flight' = [a \in Askers |->
                 IF a[1] = "scan" /\ a[2] \in misses
                 THEN [asset |-> Mint(a[2]), asked |-> now] ELSE flight[a]]
    /\ UNCHANGED <<now, cache, pass>>

\* What is held and priced; what is not priced is not held.
Held(s) ==
    LET HeldAt(i) == [mint |-> s.wallet.accounts[i].mint,
                      amount |-> s.wallet.accounts[i].amount,
                      usdValue |-> usdValue(s.wallet.accounts[i].amount, s.prices[i])]
        priced == {i \in Relevant(s.wallet) : isPriceFreshEnough(s.prices[i], s.since)}
        at == Arranged(priced, FirstToLast(priced))
    IN  [k \in 1 .. Cardinality(priced) |-> HeldAt(at[k])]

solEligible(s) ==
    /\ isPriceFreshEnough(s.prices[0], s.since)
    /\ isSolEligible(usdValue(s.wallet.lamports, s.prices[0]), DustThreshold)

SelectedSplAssets(s) ==
    selectSplAssets(Held(s), s.already, DustThreshold, MaxSplAssets)

\* The answer, as the client's browser has it.
Scanned(s) ==
    [lamports |-> s.wallet.lamports, solEligible |-> solEligible(s),
     solUsd |-> IF isPriceFreshEnough(s.prices[0], s.since)
                THEN usdValue(s.wallet.lamports, s.prices[0]) ELSE 0,
     spl |-> SelectedSplAssets(s)]

\* The client's accounts before it signs: of two accounts of one mint, the
\* first listed is the associated one, which the approval names.
Accounts(wallet) ==
    [a \in Assets |->
       LET own == {i \in DOMAIN wallet.accounts : wallet.accounts[i].mint = a}
       IN  [delegated |-> 0,
            balance |-> IF own = {} THEN 0
                        ELSE wallet.accounts[CHOOSE i \in own : \A j \in own : i <= j].amount]]

Priced == /\ scan.step = "prices"
          /\ \A i \in DOMAIN scan.prices : scan.prices[i] # Awaited

\* The answer is solEligible and SelectedSplAssets of the scan.
AnswerScan ==
    /\ Priced
    /\ scan' = NoScan
    /\ UNCHANGED <<now, cache, flight, pass>>

-----------------------------------------------------------------------------
(* The pass.                                                               *)

\* Mutant: a row that fails is tried again at once.
SameRow(p) == [p EXCEPT !.step = "row", !.price = NoQuote]

\* The next row's turn, or the end.
NextRow(p) ==
    IF p.at < Len(p.rows)
    THEN [p EXCEPT !.step = "row", !.at = @ + 1, !.price = NoQuote]
    ELSE NoPass

\* The gate after getPrice, with the clock of the pass's beginning.
PassGate(p, price) ==
    IF isPriceFreshEnough(price, p.since)
    THEN [p EXCEPT !.step = "account", !.price = price]
    ELSE NextRow(p)

StartPass(rows) ==
    /\ pass.step = "sleep"
    /\ rows # <<>>
    /\ pass' = [NoPass EXCEPT !.step = "row", !.rows = rows, !.at = 1, !.since = now]
    /\ UNCHANGED <<now, cache, flight, scan>>

PriceRow ==
    /\ pass.step = "row"
    /\ LET asset == pass.rows[pass.at]
           begun == [pass EXCEPT !.time = now]
       IN  \/ /\ Cached(asset)
              /\ pass' = PassGate(begun, cache[asset])
              /\ UNCHANGED flight
           \/ /\ ~Cached(asset)
              /\ pass' = [begun EXCEPT !.step = "price"]
              /\ flight' = [flight EXCEPT ![PassAsker] = [asset |-> asset, asked |-> now]]
    /\ UNCHANGED <<now, cache, scan>>

\* The destination account, a pending deposit and the token account have been
\* read: sweepAsset tests the row in price_cache, and uses the price it holds.
UsePrice ==
    /\ pass.step = "account"
    /\ pass' = IF /\ IsQuote(cache[pass.rows[pass.at]])
                  /\ Fresh(cache[pass.rows[pass.at]], now)
                  /\ pass.price.scaled > 0
               THEN [pass EXCEPT !.step = "transfer", !.time = now]
               ELSE NextRow(pass)
    /\ UNCHANGED <<now, cache, flight, scan>>

\* sweepAsset returned or threw; at "account" it found nothing to sweep.
EndRow ==
    /\ pass.step \in {"account", "transfer"}
    /\ pass' = NextRow(pass)
    /\ UNCHANGED <<now, cache, flight, scan>>

\* Creating the destination account throws outside the row's try.
AbortPass ==
    /\ pass.step = "account"
    /\ pass' = NoPass
    /\ UNCHANGED <<now, cache, flight, scan>>

-----------------------------------------------------------------------------
(* Quotes.                                                                 *)

\* A scan that failed meanwhile awaits nothing.
Deliver(asker, price) ==
    IF asker = PassAsker
    THEN pass' = PassGate(pass, price) /\ UNCHANGED scan
    ELSE /\ scan' = IF scan.step = "idle" THEN scan
                   ELSE [scan EXCEPT !.prices[asker[2]] = price]
         /\ UNCHANGED pass

\* Mutant: stamped with the moment of the request.
StampedWhenAsked(wire, asked) ==
    [wire |-> wire, scaled |-> Scaled[wire], quoted |-> asked, fetched |-> asked]

Stamped(wire, asked) ==
    [wire |-> wire, scaled |-> Scaled[wire], quoted |-> asked, fetched |-> now]

\* CoinGecko answers, with the market of some moment since the request.
Answer(asker, wire) ==
    LET f == flight[asker]
        price == Stamped(wire, f.asked)
    IN  /\ f # NoFlight
        /\ cache' = [cache EXCEPT ![f.asset] = price]
        /\ flight' = [flight EXCEPT ![asker] = NoFlight]
        /\ Deliver(asker, price)
        /\ UNCHANGED now

\* A timeout, a status that is not 2xx, or no price in the body: for this
\* asset alone there is no price.
FetchFails(asker) ==
    /\ flight[asker] # NoFlight
    /\ flight' = [flight EXCEPT ![asker] = NoFlight]
    /\ Deliver(asker, NoQuote)
    /\ UNCHANGED <<now, cache>>

\* No request outlives its timeout.
Tick ==
    /\ now < MaxTime
    /\ \A a \in Askers : flight[a] # NoFlight => now < flight[a].asked + FetchTimeout
    /\ now' = now + 1
    /\ UNCHANGED <<cache, flight, scan, pass>>

FlightEnds(asker) ==
    \/ \E wire \in Wires : Answer(asker, wire)
    \/ FetchFails(asker)

Rpc == RetryRpc \/ RpcAnswers \/ RpcFails

PassWorks == PriceRow \/ UsePrice \/ EndRow \/ AbortPass

Next ==
    \/ \E request \in Requests : StartScan(request.wallet, request.already)
    \/ Rpc \/ PriceAccounts \/ AnswerScan
    \/ \E rows \in Rows : StartPass(rows)
    \/ PassWorks
    \/ \E asker \in Askers : FlightEnds(asker)
    \/ Tick

\* Every await is bounded by a timeout, and what is ready runs.
Fairness ==
    /\ WF_vars(Rpc) /\ WF_vars(PriceAccounts) /\ WF_vars(AnswerScan)
    /\ WF_vars(PassWorks)
    /\ \A asker \in Askers : WF_vars(FlightEnds(asker))

Spec == Init /\ [][Next]_vars /\ Fairness

-----------------------------------------------------------------------------
(* Properties.                                                             *)

Answered == Quote \cup {NoQuote}

\* Types of the cache, of the requests under way and of the two consumers.
PricingTypeOK ==
    /\ now \in 0 .. MaxTime
    /\ cache \in [Assets -> Answered]
    /\ \A a \in Askers : flight[a] = NoFlight
         \/ flight[a] \in [asset : Assets, asked : 0 .. now]
    /\ scan.step \in {"idle", "holdings", "prices"}
    /\ scan.attempt \in 0 .. MaxAttempts
    /\ scan.prices \in [0 .. MaxAccounts -> Answered \cup {Awaited}]
    /\ pass.step \in {"sleep", "row", "price", "account", "transfer"}
    /\ pass.price \in Answered

\* Whoever refreshed the cache last, the price a consumer works with was
\* stamped at most MaxStaleness before the consumer asked for it, and was the
\* market's at most one request's timeout before its stamp: concurrent
\* requests cannot hand on an older one (priceCache.ts:27-59).
PricesFresh ==
    LET FreshSince(price, time) ==
          /\ price.fetched >= time - MaxStaleness
          /\ price.quoted >= price.fetched - FetchTimeout
    IN  /\ \A i \in DOMAIN scan.prices :
             IsQuote(scan.prices[i]) => FreshSince(scan.prices[i], scan.since)
        /\ pass.step = "account" => FreshSince(pass.price, pass.time)

\* A slower request that overwrites the row of a faster one never makes the
\* row look older, so a price that was fresh enough for one consumer is not
\* stale for the next because of an overlapping request.
RowNeverOlder ==
    [][\A a \in Assets :
         IsQuote(cache[a]) => cache'[a].fetched >= cache[a].fetched]_vars

\* Through scientific notation, padding and cutting off, a cached price is the
\* number on the wire, scaled and floored (pricing.ts:36-78).
QuoteExact ==
    \A a \in Assets : IsQuote(cache[a]) => cache[a].scaled = ScaledFloor(cache[a].wire)

\* What a scan answers is a best choice: no eligible holding left out ranks
\* before one that was taken, nothing ineligible is taken, and only the slots
\* end the list (selectAssets.ts:1-16).
SelectionIsTop ==
    Priced =>
      LET held == Held(scan)
          eligible == {i \in DOMAIN held : /\ held[i].mint \notin scan.already
                                          /\ held[i].usdValue >= DustThreshold}
          selected == SelectedSplAssets(scan)
          taken == {i \in eligible : Contains(selected, held[i])}
      IN  /\ Range(selected) \subseteq {held[i] : i \in eligible}
          /\ Len(selected) <= Cardinality(eligible)
          /\ \A i \in eligible \ taken, j \in taken : ~Precedes(held[i], held[j])
          /\ \A k, l \in DOMAIN selected : k < l => ~Precedes(selected[l], selected[k])
          /\ selected # <<>> => Len(selected) + Cardinality(scan.already) <= MaxSplAssets
          /\ Len(selected) < Cardinality(eligible) =>
               Len(selected) + Cardinality(scan.already) >= MaxSplAssets

\* For every set of holdings a scan can price, and every headroom, the quote
\* allocates as much as fits, in the order of the ranking, and the first asset
\* that is cut is the last that gets anything (allocation-spec.md, sections 1-3).
AllocationIsPrefix ==
    Priced /\ Comparable(Held(scan)) =>
      LET held == Held(scan)
          total == SumFunction([i \in DOMAIN held |-> held[i].usdValue])
      IN  \A headroom \in 0 .. total + 1 :
            LET entries == allocate(held, headroom)
                allocated == [i \in DOMAIN entries |-> entries[i].allocated]
            IN  /\ {<<e.mint, e.usdValue>> : e \in Range(entries)}
                     = {<<a.mint, a.usdValue>> : a \in Range(held)}
                /\ SumFunction(allocated) = Least(headroom, total)
                /\ \A i, j \in DOMAIN entries : i < j =>
                     /\ Precedes(entries[i], entries[j])
                     /\ allocated[j] > 0 => allocated[i] = entries[i].usdValue

\* A selection of SOL is accepted exactly if what stays in the wallet covers
\* both reserves, for every balance scanned and every minimum reserve
\* (reserve-spec.md, section 1; deposit-spec.md, section 5).
ReserveKept ==
    LET lamports == scan.wallet.lamports
    IN  \A minReserve \in 0 .. lamports + 1, selected \in 1 .. lamports :
          assertSolSelectionWithinOffer(selected, computeSolReserve(lamports, minReserve))
            <=> /\ lamports - selected >= minReserve
                /\ lamports - selected >= lamports \div 10

\* What the client signs is enough: at a price the scan valued an asset with,
\* no sweep of an SPL asset, topped up or not, is cut by the approval before
\* balance or cap cut it ("sized to roughly cover the full per-asset cap",
\* authorization.ts:49-50); of SOL, all that is wrapped is approved if the
\* holding is within the cap.  Only what the client chose is approved.
ApprovalSuffices ==
    Priced => \A cap \in Caps, keys \in SUBSET Assets :
      LET before == Accounts(scan.wallet)
          after == Executed(
              buildCombinedAuthorizationTransaction(Scanned(scan), keys, cap), before)
          Suffices(a) == \E i \in Relevant(scan.wallet) :
            /\ scan.wallet.accounts[i].mint = a
            /\ IsQuote(scan.prices[i]) /\ scan.prices[i].scaled > 0
            /\ \A balance \in before[a].balance .. before[a].balance + 2 :
                 C!ComputeSweepAmountNative(after[a].delegated, balance, cap,
                                            PriceRatio(scan.prices[i]))
                   = C!ComputeSweepAmountNative(balance, balance, cap,
                                                PriceRatio(scan.prices[i]))
          offered == {h.mint : h \in Range(SelectedSplAssets(scan))}
      IN  /\ \A a \in keys \cap offered : Suffices(a)
          /\ \A a \in Allowlist \ (keys \cap offered) : after[a] = before[a]
          /\ SOL \in keys /\ solEligible(scan) /\ Scanned(scan).solUsd <= cap
               => after[SOL].delegated >= after[SOL].balance - before[SOL].balance

\* Of a server just started, whatever arrives at the limited routes next: no
\* stretch of time admits twice the limit of one client's requests, and nobody
\* is refused below the limit because of the window's place or of the other
\* clients (httpHandler.ts:68-90).  The limiter reads nothing else, so one
\* state is enough.
LimiterWithinTwice ==
    Init => \A requests \in Arrivals : WithinTwice(requests)

\* A transfer is never sized with a price older than the staleness bound at
\* the time of the test ("it can't be fooled by a caller passing a stale
\* OraclePrice value", sweepAsset.ts:342-343).
SweptPriceFresh ==
    pass.step = "transfer" => Fresh(pass.price, pass.time)

\* A scan is always answered, with a selection or an error: retries and
\* timeouts are bounded (resilientFetch.ts:33-43, pricing.ts:82-88).
ScanAnswered ==
    scan.step # "idle" ~> scan.step = "idle"

\* A pass always ends, whatever fails for each of its rows (index.ts:46-56).
PassEnds == pass.step # "sleep" ~> pass.step = "sleep"
=============================================================================
