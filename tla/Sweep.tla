------------------------------- MODULE Sweep -------------------------------
(***************************************************************************)
(* The custodial sweep: the indexer's passes (indexer/index.ts), the sweep *)
(* of one authorization (sweep/sweepAsset.ts), the rows both work on       *)
(* (db/schema.sql) and the part of Solana they observe.                    *)
(*                                                                         *)
(* Every `await` of the code ends an action, so that workers, request      *)
(* handlers, the client and the chain interleave exactly there; what the   *)
(* code does between two awaits is one action.  pc[w] names the await      *)
(* worker w is suspended in.  A Worker is one process running startIndexer.*)
(***************************************************************************)
EXTENDS CapCheck, FiniteSets, Functions

CONSTANTS
    Auths,          \* rows of client_asset_authorizations
    SolAuths,       \* those for the SOL asset, swept from a wSOL account
    Workers,        \* indexer processes sharing the database
    AssetCap,       \* asset_cap_usd_micros
    Prices,         \* what the price cache may hold
    Validity,       \* blocks for which a blockhash stays valid
    MaxHeight,      \* bound: the chain stops here
    MaxFunds,       \* bound: tokens in one account
    Delegations,    \* amounts a client approves
    MaxApprovals,   \* bound: recorded approvals of one authorization
    NoAuth, NoPrice

ASSUME SweepAssumption ==
    /\ SolAuths \subseteq Auths
    /\ NoAuth \notin Auths
    /\ AssetCap \in Nat
    /\ Prices \subseteq Price
    /\ NoPrice \notin Prices
    /\ {Validity, MaxHeight, MaxFunds, MaxApprovals} \subseteq Nat
    /\ Delegations \subseteq Nat \ {0}

VARIABLES
    \* --- database ---
    status,      \* authorization row: ACTIVE or REVOKED
    credited,    \* authorization row: cumulative_credited_usd_micros
    approvals,   \* authorization row: which recorded approval set authorized_at
    elapsed,     \* the latest approval whose sweep_delay_secs have passed
    request,     \* the /api handler that has read the account, not yet written
    deposits,    \* transaction signature -> deposits row
    \* --- Solana ---
    height,      \* block height at commitment "confirmed"
    account,     \* the token account of each authorization
    txs,         \* transaction signature -> what became of the transfer
    \* --- each worker's memory ---
    pc,          \* the await it is suspended in
    todo,        \* authorizations of this pass not started yet
    rows,        \* their rows as selected when the pass began
    job,         \* the sweepAsset call being executed
    confirmed    \* deposits finalityPass still has to look at

dbVars == <<status, credited, approvals, elapsed, request, deposits>>
chainVars == <<height, account, txs>>
workerVars == <<pc, todo, rows, job, confirmed>>
vars == <<dbVars, chainVars, workerVars>>

(***************************************************************************)
(* Types                                                                   *)
(***************************************************************************)

\* A signed transfer.  Its signature is a function of its contents, so the
\* contents stand for it: two transfers of one amount under one blockhash
\* (named by its last valid height) carry the same signature.
Tx == [auth : Auths, amount : Nat, lvbh : Nat]

DepositStatus == {"PENDING", "CONFIRMED", "FINALIZED", "FAILED"}
Deposit == [usd : Nat, status : DepositStatus]

\* delegated = 0: no delegate.  unsynced: lamports sent to a wSOL account
\* that SyncNative has not yet turned into token balance.
Account == [delegated : Nat, balance : Nat, unsynced : Nat]

\* The columns of an authorization row a pass keeps using.
Row == [credited : Nat, approvals : Nat]

Job == [auth : Auths \cup {NoAuth}, row : Row, price : Prices \cup {NoPrice},
        amount : Nat, lvbh : Nat]

NoRow == [credited |-> 0, approvals |-> 0]
NoJob == [auth |-> NoAuth, row |-> NoRow, price |-> NoPrice,
          amount |-> 0, lvbh |-> 0]

TxOf(j) == [auth |-> j.auth, amount |-> j.amount, lvbh |-> j.lvbh]

RowOf(a) == [credited |-> credited[a], approvals |-> approvals[a]]

\* The rows of the partial unique index
\* idx_one_pending_deposit_per_authorization.
PendingOf(a) ==
    {t \in DOMAIN deposits : t.auth = a /\ deposits[t].status = "PENDING"}

(***************************************************************************)
(* Updates of the deposits table                                           *)
(***************************************************************************)
InsertPending(t, usd) ==
    deposits' = [s \in DOMAIN deposits \cup {t} |->
                    IF s = t THEN [usd |-> usd, status |-> "PENDING"]
                             ELSE deposits[s]]

SetDepositStatus(t, s) ==
    deposits' = [deposits EXCEPT ![t].status = s]

\* Read, added to and written back inside the transaction of its caller.
UpdateCumulativeCredited(a, usd) ==
    credited' = [credited EXCEPT ![a] = @ + usd]

\* Mutants: the sign of the credit, the credit left out of the transaction, one
\* aggregate total for all of a client's assets.
MarkConfirmedAndDebit(t) ==
    /\ SetDepositStatus(t, "CONFIRMED")
    /\ credited' = [credited EXCEPT ![t.auth] = @ - deposits[t].usd]

MarkConfirmedOnly(t) ==
    /\ SetDepositStatus(t, "CONFIRMED")
    /\ UNCHANGED credited

MarkConfirmedAndCreditAll(t) ==
    /\ SetDepositStatus(t, "CONFIRMED")
    /\ credited' = [a \in Auths |-> credited[a] + deposits[t].usd]

\* One SQL transaction; neither statement looks at the present status.
MarkConfirmedAndCredit(t) ==
    /\ SetDepositStatus(t, "CONFIRMED")
    /\ UpdateCumulativeCredited(t.auth, deposits[t].usd)

MarkFailed(t) ==
    /\ SetDepositStatus(t, "FAILED")
    /\ UNCHANGED credited

(***************************************************************************)
(* The pass                                                                *)
(***************************************************************************)
GoTo(w, l) == pc' = [pc EXCEPT ![w] = l]

\* sweepAsset returned or threw: on to the next row.
FinishRow(w) ==
    /\ GoTo(w, "next")
    /\ job' = [job EXCEPT ![w] = NoJob]

\* sweepPass selects every ACTIVE row once, up front.
StartPass(w) ==
    /\ pc[w] = "sleep"
    /\ GoTo(w, "next")
    /\ todo' = [todo EXCEPT ![w] = {a \in Auths : status[a] = "ACTIVE"}]
    /\ rows' = [rows EXCEPT ![w] =
                    [a \in Auths |-> IF status[a] = "ACTIVE" THEN RowOf(a)
                                                             ELSE NoRow]]
    /\ UNCHANGED <<job, confirmed, dbVars, chainVars>>

TakeRow(w, a) ==
    /\ pc[w] = "next"
    /\ a \in todo[w]
    /\ todo' = [todo EXCEPT ![w] = @ \ {a}]
    /\ rows' = [rows EXCEPT ![w][a] = NoRow]

\* Not in the allowlist, no price to be had, or a stale one.
SkipRow(w, a) ==
    /\ TakeRow(w, a)
    /\ UNCHANGED <<pc, job, confirmed, dbVars, chainVars>>

\* Creating the destination account is outside every try: a throw ends
\* sweepPass, and the rows left are not visited in this pass.
AbortPass(w) ==
    /\ pc[w] = "next"
    /\ todo[w] # {}
    /\ todo' = [todo EXCEPT ![w] = {}]
    /\ rows' = [rows EXCEPT ![w] = [a \in Auths |-> NoRow]]
    /\ UNCHANGED <<pc, job, confirmed, dbVars, chainVars>>

\* Mutant: no delay gate.
BeginAttemptAtOnce(w, j) ==
    /\ GoTo(w, IF j.auth \in SolAuths THEN "sync" ELSE "account")
    /\ job' = [job EXCEPT ![w] = j]

\* The code of sweepAsset that runs once no deposit is pending: the delay
\* gate, then either SyncNative (SOL) or reading the token account.
BeginAttempt(w, j) ==
    \/ /\ j.row.approvals <= elapsed[j.auth]
       /\ GoTo(w, IF j.auth \in SolAuths THEN "sync" ELSE "account")
       /\ job' = [job EXCEPT ![w] = j]
    \/ /\ j.row.approvals > elapsed[j.auth]
       /\ FinishRow(w)

\* Mutant: a pending deposit ends the call instead of being reconciled.
SweepAssetUnlessPending(w, a, p) ==
    /\ TakeRow(w, a)
    /\ LET j == [NoJob EXCEPT !.auth = a, !.row = rows[w][a], !.price = p]
       IN  IF PendingOf(a) = {} THEN BeginAttempt(w, j) ELSE FinishRow(w)
    /\ UNCHANGED <<confirmed, dbVars, chainVars>>

\* A price and the destination account are there: sweepAsset is called on
\* the row read when the pass began.
SweepAsset(w, a, p) ==
    /\ TakeRow(w, a)
    /\ LET j == [NoJob EXCEPT !.auth = a, !.row = rows[w][a], !.price = p]
       IN  \/ /\ PendingOf(a) = {}
              /\ BeginAttempt(w, j)
           \/ \E t \in PendingOf(a) :
                 /\ GoTo(w, "reconcile")
                 /\ job' = [job EXCEPT ![w] =
                              [j EXCEPT !.amount = t.amount, !.lvbh = t.lvbh]]
    /\ UNCHANGED <<confirmed, dbVars, chainVars>>

(***************************************************************************)
(* reconcilePendingDeposit                                                 *)
(***************************************************************************)

\* After a confirmation only this column of the row is read again.
Refreshed(j, total) == [j EXCEPT !.row.credited = total]

ChainStatus(t) == IF t \in DOMAIN txs THEN txs[t].state ELSE "unknown"

\* Mutant: the credited total is not read again after a confirmation.
ReconcileWithoutRefresh(w) ==
    /\ pc[w] = "reconcile"
    /\ LET t == TxOf(job[w]) IN
       \/ /\ ChainStatus(t) = "err"
          /\ MarkFailed(t)
          /\ BeginAttempt(w, job[w])
       \/ /\ ChainStatus(t) = "ok"
          /\ MarkConfirmedAndCredit(t)
          /\ BeginAttempt(w, job[w])
       \/ /\ ChainStatus(t) \in {"unknown", "inflight"}
          /\ GoTo(w, "expiry")
          /\ UNCHANGED <<credited, deposits, job>>
    /\ UNCHANGED <<status, approvals, elapsed, request, todo, rows, confirmed,
                   chainVars>>

\* getSignatureStatus answers.  An error or a confirmation settles the row
\* and the same call goes on to a fresh attempt, after a confirmation with
\* the credited total read again.
ReconcilePendingDeposit(w) ==
    /\ pc[w] = "reconcile"
    /\ LET t == TxOf(job[w]) IN
       \/ /\ ChainStatus(t) = "err"
          /\ MarkFailed(t)
          /\ BeginAttempt(w, job[w])
       \/ /\ ChainStatus(t) = "ok"
          /\ MarkConfirmedAndCredit(t)
          /\ BeginAttempt(w, Refreshed(job[w], credited'[t.auth]))
       \/ /\ ChainStatus(t) \in {"unknown", "inflight"}
          /\ GoTo(w, "expiry")
          /\ UNCHANGED <<credited, deposits, job>>
    /\ UNCHANGED <<status, approvals, elapsed, request, todo, rows, confirmed,
                   chainVars>>

\* Mutants: expired one block early, and never.
ReconcileExpiryEarly(w) ==
    /\ pc[w] = "expiry"
    /\ \/ /\ height >= job[w].lvbh
          /\ MarkFailed(TxOf(job[w]))
          /\ BeginAttempt(w, job[w])
       \/ /\ height < job[w].lvbh
          /\ FinishRow(w)
          /\ UNCHANGED <<credited, deposits>>
    /\ UNCHANGED <<status, approvals, elapsed, request, todo, rows, confirmed,
                   chainVars>>

ReconcileNeverExpires(w) ==
    /\ pc[w] = "expiry"
    /\ FinishRow(w)
    /\ UNCHANGED <<status, approvals, elapsed, request, todo, rows, confirmed,
                   credited, deposits, chainVars>>

\* getBlockHeight answers.  The status is the one read before this await.
ReconcileExpiry(w) ==
    /\ pc[w] = "expiry"
    /\ \/ /\ height > job[w].lvbh
          /\ MarkFailed(TxOf(job[w]))
          /\ BeginAttempt(w, job[w])
       \/ /\ height <= job[w].lvbh
          /\ FinishRow(w)
          /\ UNCHANGED <<credited, deposits>>
    /\ UNCHANGED <<status, approvals, elapsed, request, todo, rows, confirmed,
                   chainVars>>

(***************************************************************************)
(* The attempt                                                             *)
(***************************************************************************)

\* SyncNative of the client's wSOL account, sent and awaited.  An ambiguous
\* confirmation does not stop the attempt, an on-chain error does.
Synced(acc) ==
    [acc EXCEPT !.balance = acc.balance + acc.unsynced, !.unsynced = 0]

SyncEffect(a) == account' = [account EXCEPT ![a] = Synced(account[a])]

SyncNative(w) ==
    /\ pc[w] = "sync"
    /\ \/ SyncEffect(job[w].auth) /\ GoTo(w, "account") /\ UNCHANGED job
       \/ GoTo(w, "account") /\ UNCHANGED <<account, job>>
       \/ FinishRow(w) /\ UNCHANGED account
    /\ UNCHANGED <<todo, rows, confirmed, dbVars, height, txs>>

\* getAccount answers: delegate, headroom, price and amount are decided
\* together, the headroom from the row the pass has carried along.
\* fresh: what isPriceFreshForSweep finds in price_cache.
ReadAccount(w) ==
    /\ pc[w] = "account"
    /\ \E fresh \in BOOLEAN :
         LET acc      == account[job[w].auth]
             headroom == ComputeAssetHeadroomUsdMicros(job[w].row.credited, AssetCap)
             amount   == ComputeSweepAmountNative(acc.delegated, acc.balance,
                                                  headroom, job[w].price)
         IN  \/ /\ fresh /\ amount > 0
                /\ GoTo(w, "blockhash")
                /\ job' = [job EXCEPT ![w].amount = amount]
             \/ /\ ~ (fresh /\ amount > 0)
                /\ FinishRow(w)
    /\ UNCHANGED <<todo, rows, confirmed, dbVars, chainVars>>

\* getMint, then getLatestBlockhash.  Bound: no transfer is built that could
\* not expire before the chain stops at MaxHeight.
GetLatestBlockhash(w) ==
    /\ pc[w] = "blockhash"
    /\ height + Validity < MaxHeight
    /\ GoTo(w, "reserve")
    /\ job' = [job EXCEPT ![w].lvbh = height + Validity]
    /\ UNCHANGED <<todo, rows, confirmed, dbVars, chainVars>>

\* Mutant: without idx_one_pending_deposit_per_authorization.
ReserveWithoutIndex(w) ==
    /\ pc[w] = "reserve"
    /\ LET t == TxOf(job[w]) IN
       \/ /\ t \notin DOMAIN deposits
          /\ InsertPending(t, ComputeCreditedUsdMicros(t.amount, job[w].price))
          /\ GoTo(w, "send")
          /\ UNCHANGED job
       \/ /\ t \in DOMAIN deposits
          /\ FinishRow(w)
          /\ UNCHANGED deposits
    /\ UNCHANGED <<todo, rows, confirmed, status, credited, approvals, elapsed,
                   request, chainVars>>

\* Signed; insertPendingDepositOrDetectRace.  The insert fails on either
\* unique index: the signature, or one PENDING row per authorization.
Reserve(w) ==
    /\ pc[w] = "reserve"
    /\ LET t == TxOf(job[w]) IN
       \/ /\ t \notin DOMAIN deposits
          /\ PendingOf(t.auth) = {}
          /\ InsertPending(t, ComputeCreditedUsdMicros(t.amount, job[w].price))
          /\ GoTo(w, "send")
          /\ UNCHANGED job
       \/ /\ t \in DOMAIN deposits \/ PendingOf(t.auth) # {}
          /\ FinishRow(w)
          /\ UNCHANGED deposits
    /\ UNCHANGED <<todo, rows, confirmed, status, credited, approvals, elapsed,
                   request, chainVars>>

\* sendRawTransaction reaches the cluster or not; either way its answer may
\* be lost, which sends the code to the catch block.
Send(w) ==
    /\ pc[w] = "send"
    /\ \/ /\ \E l \in {"confirm", "catch"} : GoTo(w, l)
          /\ txs' = [s \in DOMAIN txs \cup {TxOf(job[w])} |->
                        IF s = TxOf(job[w])
                        THEN [state |-> "inflight", final |-> FALSE]
                        ELSE txs[s]]
       \/ /\ GoTo(w, "catch")
          /\ UNCHANGED txs
    /\ UNCHANGED <<todo, rows, job, confirmed, dbVars, height, account>>

\* confirmTransaction resolves once the transfer is in a confirmed block, in
\* error too: the result's err field is not looked at.
ConfirmTransaction(w) ==
    /\ pc[w] = "confirm"
    /\ ChainStatus(TxOf(job[w])) \in {"ok", "err"}
    /\ MarkConfirmedAndCredit(TxOf(job[w]))
    /\ FinishRow(w)
    /\ UNCHANGED <<status, approvals, elapsed, request, todo, rows, confirmed,
                   chainVars>>

\* ... or throws: expired, timed out, connection lost.
ConfirmThrows(w) ==
    /\ pc[w] = "confirm"
    /\ GoTo(w, "catch")
    /\ UNCHANGED <<todo, rows, job, confirmed, dbVars, chainVars>>

\* The catch block's single getSignatureStatus.  It looks at the level before
\* the error, so a transfer that failed is marked FAILED only if the node
\* asked has not seen its block confirmed.
CatchStatus(w) ==
    /\ pc[w] = "catch"
    /\ LET t == TxOf(job[w]) IN
       \/ ChainStatus(t) \in {"ok", "err"} /\ MarkConfirmedAndCredit(t)
       \/ ChainStatus(t) = "err" /\ MarkFailed(t)
       \/ ChainStatus(t) \in {"unknown", "inflight"} /\ UNCHANGED <<credited, deposits>>
    /\ FinishRow(w)
    /\ UNCHANGED <<status, approvals, elapsed, request, todo, rows, confirmed,
                   chainVars>>

\* Any other awaited call that throws unwinds sweepAsset; sweepPass logs it
\* and goes on with the next row.
RpcThrows(w) ==
    /\ pc[w] \in {"reconcile", "expiry", "sync", "account", "blockhash", "catch"}
    /\ FinishRow(w)
    /\ UNCHANGED <<todo, rows, confirmed, dbVars, chainVars>>

(***************************************************************************)
(* finalityPass, and the end of the loop                                   *)
(***************************************************************************)
\* Mutant: the pass also takes what is not confirmed yet.
StartFinalityPassOnAll(w) ==
    /\ pc[w] = "next"
    /\ todo[w] = {}
    /\ GoTo(w, "finality")
    /\ confirmed' = [confirmed EXCEPT ![w] =
                        {t \in DOMAIN deposits : deposits[t].status # "FINALIZED"}]
    /\ UNCHANGED <<todo, rows, job, dbVars, chainVars>>

StartFinalityPass(w) ==
    /\ pc[w] = "next"
    /\ todo[w] = {}
    /\ GoTo(w, "finality")
    /\ confirmed' = [confirmed EXCEPT ![w] =
                        {t \in DOMAIN deposits : deposits[t].status = "CONFIRMED"}]
    /\ UNCHANGED <<todo, rows, job, dbVars, chainVars>>

FinalityStatus(w, t) ==
    /\ pc[w] = "finality"
    /\ t \in confirmed[w]
    /\ confirmed' = [confirmed EXCEPT ![w] = @ \ {t}]
    /\ \/ /\ t \in DOMAIN txs /\ txs[t].final
          /\ SetDepositStatus(t, "FINALIZED")
       \/ /\ ~ (t \in DOMAIN txs /\ txs[t].final)
          /\ UNCHANGED deposits
    /\ UNCHANGED <<pc, todo, rows, job, status, credited, approvals, elapsed,
                   request, chainVars>>

\* The pass is over, or a throw ended it; the loop sleeps.
EndFinalityPass(w) ==
    /\ pc[w] = "finality"
    /\ GoTo(w, "sleep")
    /\ confirmed' = [confirmed EXCEPT ![w] = {}]
    /\ UNCHANGED <<todo, rows, job, dbVars, chainVars>>

\* The process dies and is started again: what it held in memory is gone.
Crash(w) ==
    /\ GoTo(w, "sleep")
    /\ todo' = [todo EXCEPT ![w] = {}]
    /\ rows' = [rows EXCEPT ![w] = [a \in Auths |-> NoRow]]
    /\ job' = [job EXCEPT ![w] = NoJob]
    /\ confirmed' = [confirmed EXCEPT ![w] = {}]
    /\ UNCHANGED <<dbVars, chainVars>>

(***************************************************************************)
(* The request handlers, as far as the sweep can tell: each verifies the   *)
(* token account on chain, awaits, then writes the row.                    *)
(***************************************************************************)
VerifyApproval(a) ==
    /\ request[a] = "none"
    /\ account[a].delegated > 0
    /\ approvals[a] < MaxApprovals
    /\ request' = [request EXCEPT ![a] = "approved"]
    /\ UNCHANGED <<status, credited, approvals, elapsed, deposits, workerVars,
                   chainVars>>

\* recordAuthorization, the branch that finds the row: a re-approval.
RecordReapproval(a) ==
    /\ request[a] = "approved"
    /\ request' = [request EXCEPT ![a] = "none"]
    /\ status' = [status EXCEPT ![a] = "ACTIVE"]
    /\ approvals' = [approvals EXCEPT ![a] = @ + 1]
    /\ UNCHANGED <<credited, elapsed, deposits, workerVars, chainVars>>

VerifyRevocation(a) ==
    /\ request[a] = "none"
    /\ account[a].delegated = 0
    /\ request' = [request EXCEPT ![a] = "revoked"]
    /\ UNCHANGED <<status, credited, approvals, elapsed, deposits, workerVars,
                   chainVars>>

RecordRevocation(a) ==
    /\ request[a] = "revoked"
    /\ request' = [request EXCEPT ![a] = "none"]
    /\ status' = [status EXCEPT ![a] = "REVOKED"]
    /\ UNCHANGED <<credited, approvals, elapsed, deposits, workerVars, chainVars>>

\* sweep_delay_secs pass after an approval (isSweepDelayElapsed turns true).
DelayElapses(a) ==
    /\ elapsed[a] < approvals[a]
    /\ elapsed' = [elapsed EXCEPT ![a] = @ + 1]
    /\ UNCHANGED <<status, credited, approvals, request, deposits, workerVars,
                   chainVars>>

(***************************************************************************)
(* Solana and the client                                                   *)
(***************************************************************************)

Debited(acc, n) ==
    [acc EXCEPT !.delegated = acc.delegated - n, !.balance = acc.balance - n]

\* A broadcast transfer is included while its blockhash is valid: it moves
\* the tokens, or fails because delegation or balance no longer cover it.
Land(t) ==
    /\ t \in DOMAIN txs
    /\ txs[t].state = "inflight"
    /\ height <= t.lvbh
    /\ LET covered == /\ t.amount <= account[t.auth].delegated
                      /\ t.amount <= account[t.auth].balance
       IN  \/ /\ covered
              /\ txs' = [txs EXCEPT ![t].state = "ok"]
              /\ account' = [account EXCEPT ![t.auth] = Debited(@, t.amount)]
           \/ /\ ~ covered
              /\ txs' = [txs EXCEPT ![t].state = "err"]
              /\ UNCHANGED account
    /\ UNCHANGED <<height, dbVars, workerVars>>

Finalize(t) ==
    /\ t \in DOMAIN txs
    /\ txs[t].state \in {"ok", "err"}
    /\ ~ txs[t].final
    /\ txs' = [txs EXCEPT ![t].final = TRUE]
    /\ UNCHANGED <<height, account, dbVars, workerVars>>

NewBlock ==
    /\ height < MaxHeight
    /\ height' = height + 1
    /\ UNCHANGED <<account, txs, dbVars, workerVars>>

SetAccount(a, acc) ==
    /\ account' = [account EXCEPT ![a] = acc]
    /\ UNCHANGED <<height, txs, dbVars, workerVars>>

Approve(a) ==
    \E n \in Delegations : SetAccount(a, [account[a] EXCEPT !.delegated = n])

Revoke(a) ==
    SetAccount(a, [account[a] EXCEPT !.delegated = 0])

TopUp(a) ==
    /\ account[a].balance + account[a].unsynced < MaxFunds
    /\ SetAccount(a, IF a \in SolAuths
                     THEN [account[a] EXCEPT !.unsynced = @ + 1]
                     ELSE [account[a] EXCEPT !.balance = @ + 1])

Spend(a) ==
    /\ account[a].balance > 0
    /\ SetAccount(a, [account[a] EXCEPT !.balance = @ - 1])

\* SyncNative is permissionless, and one a worker sent may land late.
SyncLands(a) ==
    /\ a \in SolAuths
    /\ SetAccount(a, Synced(account[a]))

(***************************************************************************)
(* The specification                                                       *)
(***************************************************************************)

\* Every authorization has just been approved and recorded, the workers are
\* about to start.
Init ==
    /\ status = [a \in Auths |-> "ACTIVE"]
    /\ credited = [a \in Auths |-> 0]
    /\ approvals = [a \in Auths |-> 1]
    /\ elapsed = [a \in Auths |-> 0]
    /\ request = [a \in Auths |-> "none"]
    /\ deposits = [t \in {} |-> NoRow]
    /\ height = 0
    /\ \E n \in Delegations :
         account = [a \in Auths |->
                      [delegated |-> n, balance |-> MaxFunds, unsynced |-> 0]]
    /\ txs = [t \in {} |-> NoRow]
    /\ pc = [w \in Workers |-> "sleep"]
    /\ todo = [w \in Workers |-> {}]
    /\ rows = [w \in Workers |-> [a \in Auths |-> NoRow]]
    /\ job = [w \in Workers |-> NoJob]
    /\ confirmed = [w \in Workers |-> {}]

\* One step of worker w.
Work(w) ==
    \/ StartPass(w)
    \/ \E a \in Auths : SkipRow(w, a)
    \/ AbortPass(w)
    \/ \E a \in Auths, p \in Prices : SweepAsset(w, a, p)
    \/ ReconcilePendingDeposit(w)
    \/ ReconcileExpiry(w)
    \/ SyncNative(w)
    \/ ReadAccount(w)
    \/ GetLatestBlockhash(w)
    \/ Reserve(w)
    \/ Send(w)
    \/ ConfirmTransaction(w)
    \/ ConfirmThrows(w)
    \/ CatchStatus(w)
    \/ RpcThrows(w)
    \/ StartFinalityPass(w)
    \/ \E t \in confirmed[w] : FinalityStatus(w, t)
    \/ EndFinalityPass(w)

Handlers ==
    \E a \in Auths :
        \/ VerifyApproval(a)
        \/ RecordReapproval(a)
        \/ VerifyRevocation(a)
        \/ RecordRevocation(a)
        \/ DelayElapses(a)

Chain ==
    \/ \E t \in DOMAIN txs : Land(t) \/ Finalize(t)
    \/ NewBlock

Client ==
    \E a \in Auths : Approve(a) \/ Revoke(a) \/ TopUp(a) \/ Spend(a) \/ SyncLands(a)

Next ==
    \/ \E w \in Workers : Work(w) \/ Crash(w)
    \/ Handlers
    \/ Chain
    \/ Client

Spec == Init /\ [][Next]_vars

(***************************************************************************)
(* Properties                                                              *)
(***************************************************************************)
PCs == {"sleep", "next", "reconcile", "expiry", "sync", "account",
        "blockhash", "reserve", "send", "confirm", "catch", "finality"}

\* Every variable keeps its type.
TypeOK ==
    /\ status \in [Auths -> {"ACTIVE", "REVOKED"}]
    /\ credited \in [Auths -> Nat]
    /\ approvals \in [Auths -> Nat]
    /\ elapsed \in [Auths -> Nat]
    /\ request \in [Auths -> {"none", "approved", "revoked"}]
    /\ DOMAIN deposits \subseteq Tx
    /\ deposits \in [DOMAIN deposits -> Deposit]
    /\ height \in Nat
    /\ account \in [Auths -> Account]
    /\ DOMAIN txs \subseteq Tx
    /\ txs \in [DOMAIN txs -> [state : {"inflight", "ok", "err"}, final : BOOLEAN]]
    /\ pc \in [Workers -> PCs]
    /\ todo \in [Workers -> SUBSET Auths]
    /\ rows \in [Workers -> [Auths -> Row]]
    /\ job \in [Workers -> Job]
    /\ confirmed \in [Workers -> SUBSET Tx]

\* Two sweeps of one authorization are never in flight together, however many
\* workers race for it (sweepAsset.ts 17-28, schema.sql 93-102).
OnePendingPerAuthorization ==
    \A a \in Auths : Cardinality(PendingOf(a)) <= 1

\* A transfer the chain can still include always has a PENDING row, so it is
\* never forgotten, retried or given up while it may yet move tokens
\* (sweepAsset.ts 6-15, 30-39).
LiveTransferIsPending ==
    \A t \in DOMAIN txs :
        /\ t \in DOMAIN deposits
        /\ txs[t].state = "inflight" /\ height <= t.lvbh
              => deposits[t].status = "PENDING"

\* What is credited, together with what is reserved, never exceeds the
\* per-asset cap (sweepAsset.ts 24-28).
CapRespected ==
    \A a \in Auths :
        /\ credited[a] <= AssetCap
        /\ \A t \in PendingOf(a) : credited[a] + deposits[t].usd <= AssetCap

CreditedDeposits(a) ==
    {t \in DOMAIN deposits :
        t.auth = a /\ deposits[t].status \in {"CONFIRMED", "FINALIZED"}}

\* The credited total is exactly the value of the deposits that were
\* confirmed: through crashes and retries each is credited once, none twice
\* and none not at all (sweepAsset.ts 40-44).
CreditedExactlyOnce ==
    \A a \in Auths :
        credited[a] = SumFunctionOnSet([t \in DOMAIN deposits |-> deposits[t].usd],
                                       CreditedDeposits(a))

\* No sweep is reserved before the delay of the first approval has passed
\* (sweepTiming.ts, sweepAsset.ts 261-275).
NoDepositBeforeDelay ==
    \A t \in DOMAIN deposits : elapsed[t.auth] >= 1

\* A deposit only moves PENDING -> CONFIRMED or FAILED, CONFIRMED -> FINALIZED,
\* and no row disappears or changes its value (schema.sql 129-146).
DepositLifecycle ==
    [][\A t \in DOMAIN deposits :
          /\ t \in DOMAIN deposits'
          /\ deposits'[t].usd = deposits[t].usd
          /\ <<deposits[t].status, deposits'[t].status>> \in
                {<<s, s>> : s \in DepositStatus}
                \cup {<<"PENDING", "CONFIRMED">>, <<"PENDING", "FAILED">>,
                      <<"CONFIRMED", "FINALIZED">>}]_vars

\* Credit is given only for tokens that moved: a transfer that "genuinely
\* erred on-chain (no effect happened)" is FAILED (sweepAsset.ts 256-258).
CreditBackedByTransfer ==
    \A t \in DOMAIN deposits :
        deposits[t].status \in {"CONFIRMED", "FINALIZED"} => ChainStatus(t) = "ok"

(***************************************************************************)
(* Refinement: the PENDING row is the reservation.                         *)
(***************************************************************************)
Ledger == INSTANCE CapLedger
    WITH reserved <- [a \in Auths |-> {deposits[t].usd : t \in PendingOf(a)}]

\* The sweep keeps the promises of CapLedger.
ImplementsCapLedger == Ledger!LedgerSpec

(***************************************************************************)
(* Liveness                                                                *)
(***************************************************************************)

\* The workers keep running, blocks keep coming, and a call that is retried
\* for ever is answered some time: a price is found, the destination account
\* is there, getSignatureStatus and getBlockHeight return.
Fairness ==
    /\ WF_vars(NewBlock)
    /\ \A w \in Workers :
        /\ WF_vars(Work(w))
        /\ \A a \in Auths : SF_vars(\E p \in Prices : SweepAsset(w, a, p))
        /\ SF_vars(ReconcilePendingDeposit(w))
        /\ SF_vars(ReconcileExpiry(w))

FairSpec == Spec /\ Fairness

\* A reserved sweep is settled in the end: "Every pass reconciles any existing
\* PENDING row ... never silently lost" (docs/prototype-guide.md 162-166).
PendingResolved ==
    \A a \in Auths : PendingOf(a) # {} ~> PendingOf(a) = {}
=============================================================================
