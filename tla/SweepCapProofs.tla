--------------------------- MODULE SweepCapProofs ---------------------------
(***************************************************************************)
(* With one indexer process, for every cap, price, balance and bound: the  *)
(* sweep keeps the cap, implements CapLedger, and credits each deposit     *)
(* exactly once, along the one path its status may take.                   *)
(*                                                                         *)
(* One process is what makes the headroom current: the credited total a    *)
(* job carries is the one in the database until the transfer is reserved,  *)
(* because only that process confirms deposits.                            *)
(***************************************************************************)
EXTENDS SweepProofs

SingleWorker == \A v, w \in Workers : v = w

BeforeReserve == {"reconcile", "expiry", "sync", "account", "blockhash", "reserve"}

Value(j) == ComputeCreditedUsdMicros(j.amount, j.price)

\* The rows still to be visited carry the present credited totals.
RowsFresh(w) == \A a \in todo[w] : rows[w][a].credited = credited[a]

\* So does the job, whose row is not visited again; once an amount is decided
\* its value fits, and a deposit that is waited for is PENDING.
JobFresh(w) ==
    /\ pc[w] \in InSweepAsset => job[w].auth \notin todo[w]
    /\ pc[w] \in BeforeReserve => job[w].row.credited = credited[job[w].auth]
    /\ pc[w] \in {"blockhash", "reserve"}
          => credited[job[w].auth] + Value(job[w]) <= AssetCap
    /\ pc[w] \in HoldsDeposit => Pending(TxOf(job[w]))

\* finalityPass holds deposits that are CONFIRMED, until it has finalized them.
Confirmed(t) == t \in DOMAIN deposits /\ deposits[t].status = "CONFIRMED"

HoldsConfirmed(w) == \A t \in confirmed[w] : Confirmed(t)

FreshWorker(w) == RowsFresh(w) /\ JobFresh(w) /\ HoldsConfirmed(w)

CapInv == LiveInv /\ CapRespected /\ \A w \in Workers : FreshWorker(w)

(***************************************************************************)
(* What a step does to credited totals and reservations.                   *)
(***************************************************************************)
ReservesFitting(t, usd) ==
    /\ t \in Tx /\ t \notin DOMAIN deposits
    /\ PendingOf(t.auth) = {}
    /\ usd \in Nat /\ credited[t.auth] + usd <= AssetCap
    /\ InsertPending(t, usd)
    /\ UNCHANGED credited

SettlesPending(t) == Pending(t) /\ (MarkConfirmedAndCredit(t) \/ MarkFailed(t))

Finalizes(t) == Confirmed(t) /\ SetDepositStatus(t, "FINALIZED") /\ UNCHANGED credited

CapStep ==
    \/ UNCHANGED <<credited, deposits>>
    \/ \E t \in Tx, usd \in Nat : ReservesFitting(t, usd)
    \/ \E t \in Tx : SettlesPending(t) \/ Finalizes(t)

\* The types of everything the invariant speaks of.
LEMMA CapTypes ==
    ASSUME CapInv
    PROVE  /\ TypeOK /\ TypeInv /\ LiveInv
           /\ AssetCap \in Nat
           /\ credited \in [Auths -> Nat]
           /\ \A t \in DOMAIN deposits : t \in Tx /\ t.auth \in Auths /\ deposits[t].usd \in Nat
BY SweepAssumption DEF CapInv, LiveInv, TypeInv, TypeOK, Tx, Deposit

\* What a settled deposit does to rows and totals.
LEMMA SettlesEffect ==
    ASSUME CapInv, NEW t \in Tx, SettlesPending(t)
    PROVE  /\ DOMAIN deposits' = DOMAIN deposits
           /\ deposits'[t].status # "PENDING"
           /\ \A u \in DOMAIN deposits : u # t => deposits'[u] = deposits[u]
           /\ \A u \in DOMAIN deposits : deposits'[u].usd = deposits[u].usd
           /\ credited' \in [Auths -> Nat]
           /\ \A a \in Auths : a # t.auth => credited'[a] = credited[a]
           /\ \/ credited'[t.auth] = credited[t.auth] + deposits[t].usd
              \/ credited'[t.auth] = credited[t.auth]
<1>1. TypeOK /\ t \in DOMAIN deposits /\ credited \in [Auths -> Nat]
  BY CapTypes DEF SettlesPending, Pending
<1>2. CASE MarkConfirmedAndCredit(t)
  <2>1. /\ DOMAIN deposits' = DOMAIN deposits
        /\ \A r \in DOMAIN deposits : deposits'[r].usd = deposits[r].usd
        /\ deposits'[t].status = "CONFIRMED"
        /\ \A r \in DOMAIN deposits \ {t} : deposits'[r] = deposits[r]
        /\ credited' \in [Auths -> Nat]
        /\ credited'[t.auth] = credited[t.auth] + deposits[t].usd
        /\ \A a \in Auths \ {t.auth} : credited'[a] = credited[a]
    BY <1>1, <1>2, MarkConfirmedStep
  <2> QED
    BY <2>1
<1>3. CASE MarkFailed(t)
  <2>1. /\ DOMAIN deposits' = DOMAIN deposits
        /\ \A r \in DOMAIN deposits : deposits'[r].usd = deposits[r].usd
        /\ deposits'[t].status = "FAILED"
        /\ \A r \in DOMAIN deposits \ {t} : deposits'[r] = deposits[r]
        /\ credited' = credited
    BY <1>1, <1>3, MarkFailedStep
  <2> QED
    BY <1>1, <2>1
<1> QED
  BY <1>2, <1>3 DEF SettlesPending

\* A confirmed deposit was reserved within the cap, a new one is, and there is
\* never a second reservation beside either.
LEMMA CapStepKeepsCap ==
    ASSUME CapInv, CapStep
    PROVE  CapRespected'
<1>0. /\ CapRespected /\ UniquePending
      /\ AssetCap \in Nat /\ credited \in [Auths -> Nat]
      /\ \A t \in DOMAIN deposits : t \in Tx /\ t.auth \in Auths /\ deposits[t].usd \in Nat
  BY CapTypes DEF CapInv, LiveInv
<1>1. CASE UNCHANGED <<credited, deposits>>
  BY <1>0, <1>1 DEF CapRespected, PendingOf
<1>2. ASSUME NEW t \in Tx, NEW usd \in Nat, ReservesFitting(t, usd)
      PROVE  CapRespected'
  <2>1. /\ DOMAIN deposits' = DOMAIN deposits \cup {t}
        /\ deposits'[t] = [usd |-> usd, status |-> "PENDING"]
        /\ \A u \in DOMAIN deposits : deposits'[u] = deposits[u]
    BY <1>2, CapTypes, InsertPendingStep DEF ReservesFitting
  <2>2. credited' = credited /\ PendingOf(t.auth) = {} /\ credited[t.auth] + usd <= AssetCap
    BY <1>2 DEF ReservesFitting
  <2>3. ASSUME NEW a \in Auths, NEW u \in PendingOf(a)'
        PROVE  credited[a] + deposits'[u].usd <= AssetCap
    <3>1. CASE u = t
      BY <2>1, <2>2, <2>3, <3>1 DEF PendingOf
    <3>2. CASE u # t
      BY <1>0, <2>1, <2>3, <3>2 DEF PendingOf, CapRespected
    <3> QED
      BY <3>1, <3>2
  <2> QED
    BY <1>0, <2>2, <2>3 DEF CapRespected
<1>3. ASSUME NEW t \in Tx, SettlesPending(t) PROVE CapRespected'
  <2>1. /\ DOMAIN deposits' = DOMAIN deposits
        /\ deposits'[t].status # "PENDING"
        /\ \A u \in DOMAIN deposits : u # t => deposits'[u] = deposits[u]
        /\ \A a \in Auths : a # t.auth => credited'[a] = credited[a]
        /\ \/ credited'[t.auth] = credited[t.auth] + deposits[t].usd
           \/ credited'[t.auth] = credited[t.auth]
    BY <1>3, SettlesEffect
  <2>2. t \in PendingOf(t.auth) /\ t.auth \in Auths
    BY <1>0, <1>3 DEF SettlesPending, Pending, PendingOf
  <2>3. ASSUME NEW a \in Auths PROVE credited'[a] <= AssetCap
    BY <1>0, <2>1, <2>2 DEF CapRespected
  <2>4. ASSUME NEW a \in Auths, NEW u \in PendingOf(a)'
        PROVE  credited'[a] + deposits'[u].usd <= AssetCap
    <3>1. u # t /\ u \in DOMAIN deposits /\ u \in PendingOf(a) /\ u.auth = a
      BY <2>1, <2>4 DEF PendingOf
    <3>2. a # t.auth
      BY <1>0, <1>3, <2>2, <3>1 DEF UniquePending, Pending, PendingOf
    <3> QED
      BY <1>0, <2>1, <3>1, <3>2 DEF CapRespected
  <2> QED
    BY <2>3, <2>4 DEF CapRespected
<1>4. ASSUME NEW t \in Tx, Finalizes(t) PROVE CapRespected'
  <2>1. /\ DOMAIN deposits' = DOMAIN deposits
        /\ deposits'[t].status = "FINALIZED"
        /\ \A u \in DOMAIN deposits : u # t => deposits'[u] = deposits[u]
        /\ credited' = credited
    BY <1>4, CapTypes, SetStatusStep DEF Finalizes, Confirmed, DepositStatus
  <2>2. \A a \in Auths : \A u \in PendingOf(a)' : u \in PendingOf(a) /\ deposits'[u] = deposits[u]
    BY <2>1 DEF PendingOf
  <2> QED
    BY <1>0, <2>1, <2>2 DEF CapRespected
<1> QED
  BY <1>1, <1>2, <1>3, <1>4 DEF CapStep

(***************************************************************************)
(* What each piece of FreshWorker needs to survive a step of its worker.   *)
(***************************************************************************)

\* The rows of a pass stay fresh: only the job's own total can change, and the
\* job's row is not among them.
LEMMA RowsStayFresh ==
    ASSUME CapInv, NEW w \in Workers, NEW b,
           \A a \in Auths : a # b => credited'[a] = credited[a],
           b \notin todo[w], UNCHANGED <<todo, rows>>
    PROVE  RowsFresh(w)'
BY DEF CapInv, LiveInv, TypeInv, TypeOK, FreshWorker, RowsFresh

\* Deposits that are CONFIRMED stay so while they are not touched.
LEMMA ConfirmedStay ==
    ASSUME CapInv, NEW w \in Workers, confirmed'[w] \subseteq confirmed[w],
           DOMAIN deposits \subseteq DOMAIN deposits',
           \A t \in confirmed'[w] : Confirmed(t) => deposits'[t] = deposits[t]
    PROVE  HoldsConfirmed(w)'
BY DEF CapInv, FreshWorker, HoldsConfirmed, Confirmed

\* Between calls of sweepAsset, a worker owes nothing about a job.
LEMMA IdleFresh ==
    ASSUME NEW w \in Workers, pc'[w] \in {"sleep", "next", "finality"}
    PROVE  JobFresh(w)'
BY DEF JobFresh, InSweepAsset, BeforeReserve, HoldsDeposit

\* Such a worker with the totals and the deposits as they were, and nothing
\* more to confirm.
LEMMA QuietFresh ==
    ASSUME CapInv, NEW w \in Workers, UNCHANGED <<credited, deposits>>,
           \A t \in confirmed'[w] : Confirmed(t)
    PROVE  HoldsConfirmed(w)'
BY DEF HoldsConfirmed, Confirmed

\* Between rows, a worker owes nothing about a job.
LEMMA FinishFresh ==
    ASSUME TypeOK, NEW w \in Workers, FinishRow(w)
    PROVE  JobFresh(w)'
BY FinishRowStep, IdleFresh

\* An attempt begun on a job with the present total is fresh.
LEMMA BeginFresh ==
    ASSUME TypeOK, NEW w \in Workers, NEW j \in Job, BeginAttempt(w, j),
           j.auth \notin todo'[w], j.row.credited = credited'[j.auth]
    PROVE  JobFresh(w)'
<1>1. \/ pc'[w] \in {"sync", "account"} /\ job'[w] = j
      \/ pc'[w] = "next" /\ job'[w] = NoJob
  BY BeginAttemptStep
<1> QED
  BY <1>1 DEF JobFresh, InSweepAsset, BeforeReserve, HoldsDeposit

(***************************************************************************)
(* The actions of the worker.                                              *)
(***************************************************************************)

\* Passes begin with the totals of the database, and skip or drop rows.
LEMMA PassFresh ==
    ASSUME CapInv, NEW w \in Workers,
           \/ StartPass(w) \/ AbortPass(w) \/ StartFinalityPass(w)
           \/ EndFinalityPass(w) \/ Crash(w)
           \/ \E a \in Auths : SkipRow(w, a)
    PROVE  CapStep /\ FreshWorker(w)'
<1>0. TypeOK /\ RowsFresh(w) /\ JobFresh(w) /\ HoldsConfirmed(w)
  BY CapTypes DEF CapInv, FreshWorker
<1>1. UNCHANGED <<credited, deposits>>
  BY DEF StartPass, AbortPass, StartFinalityPass, EndFinalityPass, Crash, SkipRow, dbVars
<1>a. \A t \in confirmed[w] : Confirmed(t)
  BY <1>0 DEF HoldsConfirmed
<1>b. CapStep
  BY <1>1 DEF CapStep
<1>2. CASE StartPass(w)
  <2>1. /\ pc'[w] = "next" /\ confirmed' = confirmed
        /\ todo'[w] = {a \in Auths : status[a] = "ACTIVE"}
        /\ rows'[w] = [a \in Auths |-> IF status[a] = "ACTIVE" THEN RowOf(a) ELSE NoRow]
    BY <1>0, <1>2 DEF StartPass, GoTo, TypeOK
  <2>2. RowsFresh(w)'
    BY <1>1, <2>1 DEF RowsFresh, RowOf
  <2>3. JobFresh(w)'
    BY <2>1, IdleFresh
  <2>4. HoldsConfirmed(w)'
    BY <1>1, <1>a, <2>1, QuietFresh
  <2> QED
    BY <1>b, <2>2, <2>3, <2>4 DEF FreshWorker
<1>3. CASE AbortPass(w)
  <2>1. todo'[w] = {} /\ UNCHANGED <<pc, job, confirmed>> /\ pc[w] = "next"
    BY <1>0, <1>3 DEF AbortPass, TypeOK
  <2>2. RowsFresh(w)'
    BY <2>1 DEF RowsFresh
  <2>3. JobFresh(w)'
    BY <2>1, IdleFresh
  <2>4. HoldsConfirmed(w)'
    BY <1>1, <1>a, <2>1, QuietFresh
  <2> QED
    BY <1>b, <2>2, <2>3, <2>4 DEF FreshWorker
<1>4. CASE StartFinalityPass(w)
  <2>1. /\ pc'[w] = "finality" /\ UNCHANGED <<todo, rows>>
        /\ confirmed'[w] = {t \in DOMAIN deposits : deposits[t].status = "CONFIRMED"}
    BY <1>0, <1>4 DEF StartFinalityPass, GoTo, TypeOK
  <2>2. RowsFresh(w)'
    BY <1>0, <1>1, <2>1 DEF RowsFresh
  <2>3. JobFresh(w)'
    BY <2>1, IdleFresh
  <2>4. HoldsConfirmed(w)'
    <3>1. \A t \in confirmed'[w] : Confirmed(t)
      BY <2>1 DEF Confirmed
    <3> QED
      BY <1>1, <2>1, <3>1, QuietFresh
  <2> QED
    BY <1>b, <2>2, <2>3, <2>4 DEF FreshWorker
<1>5. CASE EndFinalityPass(w)
  <2>1. pc'[w] = "sleep" /\ UNCHANGED <<todo, rows>> /\ confirmed'[w] = {}
    BY <1>0, <1>5 DEF EndFinalityPass, GoTo, TypeOK
  <2>2. RowsFresh(w)'
    BY <1>0, <1>1, <2>1 DEF RowsFresh
  <2>3. JobFresh(w)'
    BY <2>1, IdleFresh
  <2>4. HoldsConfirmed(w)'
    BY <1>1, <2>1, QuietFresh
  <2> QED
    BY <1>b, <2>2, <2>3, <2>4 DEF FreshWorker
<1>6. CASE Crash(w)
  <2>1. pc'[w] = "sleep" /\ todo'[w] = {} /\ confirmed'[w] = {}
    BY <1>0, <1>6 DEF Crash, GoTo, TypeOK
  <2>2. RowsFresh(w)'
    BY <2>1 DEF RowsFresh
  <2>3. JobFresh(w)'
    BY <2>1, IdleFresh
  <2>4. HoldsConfirmed(w)'
    BY <1>1, <2>1, QuietFresh
  <2> QED
    BY <1>b, <2>2, <2>3, <2>4 DEF FreshWorker
<1>7. ASSUME NEW a \in Auths, SkipRow(w, a) PROVE FreshWorker(w)'
  <2>1. /\ UNCHANGED <<pc, job, confirmed>> /\ pc[w] = "next"
        /\ todo'[w] = todo[w] \ {a}
        /\ \A b \in todo[w] : b # a => rows'[w][b] = rows[w][b]
    BY <1>0, <1>7 DEF SkipRow, TakeRow, TypeOK
  <2>2. RowsFresh(w)'
    BY <1>0, <1>1, <2>1 DEF RowsFresh
  <2>3. JobFresh(w)'
    BY <2>1, IdleFresh
  <2>4. HoldsConfirmed(w)'
    BY <1>1, <1>a, <2>1, QuietFresh
  <2> QED
    BY <1>b, <2>2, <2>3, <2>4 DEF FreshWorker
<1> QED
  BY <1>b, <1>2, <1>3, <1>4, <1>5, <1>6, <1>7

\* sweepAsset is called on a fresh row, and what it finds PENDING is PENDING.
LEMMA SweepAssetFresh ==
    ASSUME CapInv, NEW w \in Workers, NEW a \in Auths, NEW p \in Prices,
           SweepAsset(w, a, p)
    PROVE  CapStep /\ FreshWorker(w)'
<1> DEFINE j == [NoJob EXCEPT !.auth = a, !.row = rows[w][a], !.price = p]
<1>0. TypeOK /\ RowsFresh(w) /\ HoldsConfirmed(w)
  BY CapTypes DEF CapInv, FreshWorker
<1>1. UNCHANGED <<credited, deposits, confirmed>>
  BY DEF SweepAsset, dbVars
<1>2. /\ a \in todo[w] /\ todo'[w] = todo[w] \ {a}
      /\ \A b \in todo[w] : b # a => rows'[w][b] = rows[w][b]
  BY <1>0 DEF SweepAsset, TakeRow, TypeOK
<1>3. j \in Job /\ j.auth = a /\ j.row.credited = credited[a]
  <2>1. rows[w][a] \in Row /\ rows[w][a].credited = credited[a]
    BY <1>0, <1>2 DEF TypeOK, RowsFresh
  <2>2. j \in Job /\ j.auth = a
    BY <1>0 DEF TypeOK, NoJob, Job
  <2>3. j.row = rows[w][a]
    BY DEF NoJob
  <2> QED
    BY <2>1, <2>2, <2>3
<1>4. RowsFresh(w)' /\ HoldsConfirmed(w)'
  BY <1>0, <1>1, <1>2 DEF RowsFresh, HoldsConfirmed, Confirmed, Pending
<1> HIDE DEF j
<1>5. CASE BeginAttempt(w, j)
  <2>1. JobFresh(w)'
    BY <1>0, <1>1, <1>2, <1>3, <1>5, BeginFresh
  <2> QED
    BY <1>1, <1>4, <2>1 DEF FreshWorker, CapStep
<1>6. ASSUME NEW t \in PendingOf(a), GoTo(w, "reconcile"),
             job' = [job EXCEPT ![w] = [j EXCEPT !.amount = t.amount, !.lvbh = t.lvbh]]
      PROVE  CapStep /\ FreshWorker(w)'
  <2> DEFINE k == [j EXCEPT !.amount = t.amount, !.lvbh = t.lvbh]
  <2>1. t \in Tx /\ t.auth = a /\ Pending(t)
    BY <1>0, <1>6 DEF PendingOf, Pending, TypeOK
  <2>2. k.auth = a /\ k.row.credited = credited[a] /\ TxOf(k) = t
    BY <1>3, <2>1 DEF TxOf, Tx, Job
  <2>3. pc'[w] = "reconcile" /\ job'[w] = k
    BY <1>0, <1>6 DEF GoTo, TypeOK
  <2> HIDE DEF k
  <2>4. JobFresh(w)'
    BY <1>1, <1>2, <2>1, <2>2, <2>3
       DEF JobFresh, InSweepAsset, BeforeReserve, HoldsDeposit, Pending, TxOf
  <2> QED
    BY <1>1, <1>4, <2>4 DEF FreshWorker, CapStep
<1>7. \/ BeginAttempt(w, j)
      \/ \E t \in PendingOf(a) :
            /\ GoTo(w, "reconcile")
            /\ job' = [job EXCEPT ![w] = [j EXCEPT !.amount = t.amount, !.lvbh = t.lvbh]]
  BY DEF SweepAsset, j
<1> QED
  BY <1>5, <1>6, <1>7

\* Settling the deposit a job waits for leaves the other rows fresh.
LEMMA SettleFresh ==
    ASSUME CapInv, NEW w \in Workers, pc[w] \in HoldsDeposit,
           MarkConfirmedAndCredit(TxOf(job[w])) \/ MarkFailed(TxOf(job[w])),
           UNCHANGED <<todo, rows, confirmed>>
    PROVE  CapStep /\ RowsFresh(w)' /\ HoldsConfirmed(w)'
<1> DEFINE t == TxOf(job[w])
<1>1. t \in Tx /\ Pending(t) /\ t.auth \notin todo[w]
  BY HeldDeposit, CapTypes
     DEF CapInv, FreshWorker, JobFresh, InSweepAsset, HoldsDeposit, PCs, TxOf
<1>2. SettlesPending(t)
  BY <1>1 DEF SettlesPending
<1> HIDE DEF t
<1>3. CapStep
  BY <1>1, <1>2 DEF CapStep
<1>4. /\ DOMAIN deposits' = DOMAIN deposits
      /\ deposits'[t].status # "PENDING"
      /\ \A u \in DOMAIN deposits : u # t => deposits'[u] = deposits[u]
      /\ \A a \in Auths : a # t.auth => credited'[a] = credited[a]
  BY <1>1, <1>2, SettlesEffect
<1>5. RowsFresh(w)'
  BY <1>1, <1>4, RowsStayFresh
<1>6. \A u \in confirmed'[w] : Confirmed(u) => deposits'[u] = deposits[u]
  BY <1>1, <1>4 DEF Confirmed, Pending
<1>7. HoldsConfirmed(w)'
  BY <1>4, <1>6, ConfirmedStay
<1> QED
  BY <1>3, <1>5, <1>7

\* Reconciling settles the deposit, and reads the total again if it changed.
LEMMA ReconcileFresh ==
    ASSUME CapInv, NEW w \in Workers, ReconcilePendingDeposit(w)
    PROVE  CapStep /\ FreshWorker(w)'
<1> DEFINE t == TxOf(job[w])
<1>0. /\ TypeOK /\ RowsFresh(w) /\ JobFresh(w) /\ HoldsConfirmed(w)
      /\ pc[w] = "reconcile" /\ UNCHANGED <<todo, rows, confirmed>>
  BY CapTypes DEF CapInv, FreshWorker, ReconcilePendingDeposit, Refreshed
<1>1. /\ pc[w] \in HoldsDeposit /\ t \in DOMAIN deposits /\ t \in Tx /\ job[w] \in Job
      /\ job[w].auth \in Auths /\ t.auth = job[w].auth
  BY <1>0, HeldDeposit, CapTypes DEF HoldsDeposit
<1>2. job[w].auth \notin todo[w] /\ job[w].row.credited = credited[job[w].auth]
      /\ Pending(t)
  BY <1>0 DEF JobFresh, InSweepAsset, BeforeReserve, HoldsDeposit, PCs
<1> HIDE DEF t
<1>3. CASE MarkFailed(t) /\ BeginAttempt(w, job[w])
  <2>1. CapStep /\ RowsFresh(w)' /\ HoldsConfirmed(w)'
    BY <1>0, <1>1, <1>3, SettleFresh DEF t
  <2>2. credited' = credited
    BY <1>3 DEF MarkFailed
  <2>3. JobFresh(w)'
    BY <1>0, <1>1, <1>2, <1>3, <2>2, BeginFresh
  <2> QED
    BY <2>1, <2>3 DEF FreshWorker
<1>4. CASE /\ MarkConfirmedAndCredit(t)
           /\ BeginAttempt(w, [job[w] EXCEPT !.row.credited = credited'[t.auth]])
  <2> DEFINE j == [job[w] EXCEPT !.row.credited = credited'[t.auth]]
  <2>1. CapStep /\ RowsFresh(w)' /\ HoldsConfirmed(w)'
    BY <1>0, <1>1, <1>4, SettleFresh DEF t
  <2>2. credited' \in [Auths -> Nat]
    BY <1>0, <1>1, <1>4, MarkConfirmedStep
  <2>3. j \in Job /\ j.auth = job[w].auth /\ j.row.credited = credited'[job[w].auth]
    BY <1>1, <2>2 DEF Job, Row
  <2> HIDE DEF j
  <2>4. BeginAttempt(w, j)
    BY <1>4 DEF j
  <2>5. JobFresh(w)'
    BY <1>0, <1>2, <2>3, <2>4, BeginFresh
  <2> QED
    BY <2>1, <2>5 DEF FreshWorker
<1>5. CASE GoTo(w, "expiry") /\ UNCHANGED <<credited, deposits, job>>
  <2>1. pc'[w] = "expiry"
    BY <1>0, <1>5 DEF GoTo, TypeOK
  <2>2. JobFresh(w)'
    BY <1>2, <1>0, <1>5, <2>1
       DEF JobFresh, InSweepAsset, BeforeReserve, HoldsDeposit, Pending, t, TxOf
  <2> QED
    BY <1>0, <1>5, <2>2 DEF FreshWorker, RowsFresh, HoldsConfirmed, Confirmed, Pending, CapStep
<1> QED
  BY <1>3, <1>4, <1>5 DEF ReconcilePendingDeposit, Refreshed, t

\* Giving a deposit up releases its reservation and credits nothing.
LEMMA ExpiryFresh ==
    ASSUME CapInv, NEW w \in Workers, ReconcileExpiry(w)
    PROVE  CapStep /\ FreshWorker(w)'
<1> DEFINE t == TxOf(job[w])
<1>0. /\ TypeOK /\ RowsFresh(w) /\ JobFresh(w) /\ HoldsConfirmed(w)
      /\ pc[w] = "expiry" /\ UNCHANGED <<todo, rows, confirmed>>
  BY CapTypes DEF CapInv, FreshWorker, ReconcileExpiry
<1>1. pc[w] \in HoldsDeposit /\ job[w] \in Job
  BY <1>0, HeldDeposit, CapTypes DEF HoldsDeposit
<1>2. job[w].auth \notin todo[w] /\ job[w].row.credited = credited[job[w].auth]
  BY <1>0 DEF JobFresh, InSweepAsset, BeforeReserve, PCs
<1> HIDE DEF t
<1>3. CASE MarkFailed(t) /\ BeginAttempt(w, job[w])
  <2>1. CapStep /\ RowsFresh(w)' /\ HoldsConfirmed(w)'
    BY <1>0, <1>1, <1>3, SettleFresh DEF t
  <2>2. credited' = credited
    BY <1>3 DEF MarkFailed
  <2>3. JobFresh(w)'
    BY <1>0, <1>1, <1>2, <1>3, <2>2, BeginFresh
  <2> QED
    BY <2>1, <2>3 DEF FreshWorker
<1>4. CASE FinishRow(w) /\ UNCHANGED <<credited, deposits>>
  <2>1. JobFresh(w)'
    BY <1>0, <1>4, FinishFresh
  <2> QED
    BY <1>0, <1>4, <2>1 DEF FreshWorker, RowsFresh, HoldsConfirmed, Confirmed, Pending, CapStep
<1> QED
  BY <1>3, <1>4 DEF ReconcileExpiry, t

\* Whatever unwinds sweepAsset without touching the tables.
LEMMA QuietFinishFresh ==
    ASSUME CapInv, NEW w \in Workers, FinishRow(w),
           UNCHANGED <<todo, rows, confirmed, credited, deposits>>
    PROVE  CapStep /\ FreshWorker(w)'
<1>1. JobFresh(w)'
  BY CapTypes, FinishFresh
<1> QED
  BY <1>1 DEF CapInv, FreshWorker, RowsFresh, HoldsConfirmed, Confirmed, Pending, CapStep

\* The amount decided in ReadAccount is worth no more than what is left.
LEMMA AmountFits ==
    ASSUME CapInv, NEW w \in Workers, NEW acc \in Account, pc[w] = "account",
           NEW amount,
           amount = ComputeSweepAmountNative(acc.delegated, acc.balance,
                        ComputeAssetHeadroomUsdMicros(job[w].row.credited, AssetCap),
                        job[w].price)
    PROVE  credited[job[w].auth] + ComputeCreditedUsdMicros(amount, job[w].price) <= AssetCap
<1> DEFINE c == credited[job[w].auth]
           h == ComputeAssetHeadroomUsdMicros(c, AssetCap)
           v == ComputeCreditedUsdMicros(amount, job[w].price)
<1>1. job[w].auth \in Auths /\ job[w].price \in Price
  BY HeldJob, CapTypes DEF InSweepAsset, PCs
<1>2. job[w].row.credited = c
  BY DEF CapInv, FreshWorker, JobFresh, BeforeReserve
<1>3. c \in Nat /\ AssetCap \in Nat /\ c <= AssetCap
  BY <1>1, CapTypes DEF CapInv, CapRespected
<1>4. acc.delegated \in Nat /\ acc.balance \in Nat
  BY DEF Account
<1> HIDE DEF c
<1>5. h \in Nat /\ c + h <= AssetCap
  BY <1>3 DEF ComputeAssetHeadroomUsdMicros
<1>6. amount = ComputeSweepAmountNative(acc.delegated, acc.balance, h, job[w].price)
  BY <1>2
<1> HIDE DEF h
<1>7. v \in Nat /\ v <= h
  BY <1>1, <1>4, <1>5, <1>6, CreditWithinHeadroom
<1> HIDE DEF v
<1>8. c + v <= AssetCap
  BY <1>3, <1>5, <1>7
<1> QED
  BY <1>8 DEF c, v

\* The awaits between the account and the reservation carry a fitting amount.
LEMMA AttemptFresh ==
    ASSUME CapInv, NEW w \in Workers,
           SyncNative(w) \/ ReadAccount(w) \/ GetLatestBlockhash(w)
    PROVE  CapStep /\ FreshWorker(w)'
<1>0. /\ TypeOK /\ RowsFresh(w) /\ JobFresh(w) /\ HoldsConfirmed(w)
      /\ UNCHANGED <<todo, rows, confirmed, credited, deposits>>
  BY CapTypes DEF CapInv, FreshWorker, SyncNative, ReadAccount, GetLatestBlockhash, dbVars
<1>1. /\ pc[w] \in {"sync", "account", "blockhash"}
      /\ job[w].auth \notin todo[w] /\ job[w].row.credited = credited[job[w].auth]
      /\ job[w] \in Job /\ job[w].auth \in Auths
  BY <1>0, HeldJob, CapTypes
     DEF SyncNative, ReadAccount, GetLatestBlockhash, JobFresh, InSweepAsset,
         BeforeReserve, PCs
<1>2. CASE FinishRow(w)
  BY <1>0, <1>2, QuietFinishFresh
<1>3. CASE GoTo(w, "account") /\ UNCHANGED job
  <2>1. pc'[w] = "account" /\ job' = job
    BY <1>0, <1>3 DEF GoTo, TypeOK
  <2>2. JobFresh(w)'
    BY <1>0, <1>1, <2>1 DEF JobFresh, InSweepAsset, BeforeReserve, HoldsDeposit
  <2> QED
    BY <1>0, <2>2 DEF FreshWorker, RowsFresh, HoldsConfirmed, Confirmed, Pending, CapStep
<1>4. CASE ReadAccount(w) /\ ~ FinishRow(w)
  <2>1. PICK amount :
          /\ amount = ComputeSweepAmountNative(account[job[w].auth].delegated,
                          account[job[w].auth].balance,
                          ComputeAssetHeadroomUsdMicros(job[w].row.credited, AssetCap),
                          job[w].price)
          /\ GoTo(w, "blockhash")
          /\ job' = [job EXCEPT ![w].amount = amount]
    BY <1>4 DEF ReadAccount
  <2>2. account[job[w].auth] \in Account /\ pc[w] = "account"
    BY <1>0, <1>1, <1>4 DEF TypeOK, ReadAccount
  <2>3. credited[job[w].auth] + ComputeCreditedUsdMicros(amount, job[w].price) <= AssetCap
    BY <2>1, <2>2, AmountFits
  <2>4. /\ pc'[w] = "blockhash" /\ job'[w].auth = job[w].auth /\ job'[w].row = job[w].row
        /\ job'[w].amount = amount /\ job'[w].price = job[w].price
    BY <1>0, <1>1, <2>1 DEF GoTo, TypeOK, Job
  <2>5. JobFresh(w)'
    BY <1>0, <1>1, <2>3, <2>4
       DEF JobFresh, InSweepAsset, BeforeReserve, HoldsDeposit, Value
  <2> QED
    BY <1>0, <2>5 DEF FreshWorker, RowsFresh, HoldsConfirmed, Confirmed, Pending, CapStep
<1>5. CASE GetLatestBlockhash(w)
  <2>1. /\ pc[w] = "blockhash" /\ pc'[w] = "reserve"
        /\ job'[w].auth = job[w].auth /\ job'[w].row = job[w].row
        /\ job'[w].amount = job[w].amount /\ job'[w].price = job[w].price
    BY <1>0, <1>1, <1>5 DEF GetLatestBlockhash, GoTo, TypeOK, Job
  <2>2. JobFresh(w)'
    BY <1>0, <1>1, <2>1
       DEF JobFresh, InSweepAsset, BeforeReserve, HoldsDeposit, Value
  <2> QED
    BY <1>0, <2>2 DEF FreshWorker, RowsFresh, HoldsConfirmed, Confirmed, Pending, CapStep
<1> QED
  BY <1>2, <1>3, <1>4, <1>5 DEF SyncNative

\* A reservation fits, and the sender waits on a PENDING deposit.
LEMMA ReserveFresh ==
    ASSUME CapInv, NEW w \in Workers, Reserve(w)
    PROVE  CapStep /\ FreshWorker(w)'
<1> DEFINE t == TxOf(job[w])
           usd == ComputeCreditedUsdMicros(t.amount, job[w].price)
<1>0. /\ TypeOK /\ RowsFresh(w) /\ JobFresh(w) /\ HoldsConfirmed(w)
      /\ pc[w] = "reserve" /\ UNCHANGED <<todo, rows, confirmed, credited>>
  BY CapTypes DEF CapInv, FreshWorker, Reserve
<1>1. t \in Tx /\ job[w] \in Job /\ job[w].price \in Price /\ t.auth = job[w].auth
      /\ t.amount = job[w].amount
  BY <1>0, HeldJob, CapTypes DEF InSweepAsset, PCs, TxOf
<1>2. usd \in Nat
  BY <1>1, ValueType DEF Job
<1>3. credited[t.auth] + usd <= AssetCap /\ job[w].auth \notin todo[w]
  BY <1>0, <1>1 DEF JobFresh, InSweepAsset, PCs, Value
<1> HIDE DEF t, usd
<1>4. CASE /\ t \notin DOMAIN deposits
           /\ PendingOf(t.auth) = {}
           /\ InsertPending(t, usd)
           /\ GoTo(w, "send")
           /\ UNCHANGED job
  <2>1. CapStep
    BY <1>0, <1>1, <1>2, <1>3, <1>4 DEF ReservesFitting, CapStep
  <2>2. /\ DOMAIN deposits' = DOMAIN deposits \cup {t}
        /\ deposits'[t] = [usd |-> usd, status |-> "PENDING"]
        /\ \A u \in DOMAIN deposits : deposits'[u] = deposits[u]
    BY <1>0, <1>1, <1>2, <1>4, InsertPendingStep
  <2>3. pc'[w] = "send" /\ job' = job
    BY <1>0, <1>4 DEF GoTo, TypeOK
  <2>4. JobFresh(w)'
    BY <1>0, <1>3, <2>2, <2>3
       DEF JobFresh, InSweepAsset, BeforeReserve, HoldsDeposit, Pending, t, TxOf
  <2>5. HoldsConfirmed(w)'
    BY <1>0, <2>2, ConfirmedStay DEF Confirmed
  <2> QED
    BY <1>0, <2>1, <2>4, <2>5 DEF FreshWorker, RowsFresh
<1>5. CASE FinishRow(w) /\ UNCHANGED deposits
  BY <1>0, <1>5, QuietFinishFresh
<1> QED
  BY <1>4, <1>5 DEF Reserve, t, usd

\* From the broadcast on, the job waits for its PENDING deposit.
LEMMA SendFresh ==
    ASSUME CapInv, NEW w \in Workers, Send(w) \/ ConfirmThrows(w)
    PROVE  CapStep /\ FreshWorker(w)'
<1>0. /\ TypeOK /\ RowsFresh(w) /\ JobFresh(w) /\ HoldsConfirmed(w)
      /\ pc[w] \in {"send", "confirm"}
      /\ UNCHANGED <<todo, rows, confirmed, credited, deposits, job>>
  BY CapTypes DEF CapInv, FreshWorker, Send, ConfirmThrows, dbVars
<1>1. pc'[w] \in {"confirm", "catch"}
  BY <1>0 DEF Send, ConfirmThrows, GoTo, TypeOK
<1>2. JobFresh(w)'
  BY <1>0, <1>1
     DEF JobFresh, InSweepAsset, BeforeReserve, HoldsDeposit, PCs, Pending, TxOf
<1> QED
  BY <1>0, <1>2 DEF FreshWorker, RowsFresh, HoldsConfirmed, Confirmed, Pending, CapStep

\* The two ways sweepAsset settles its own transfer.
LEMMA ConfirmFresh ==
    ASSUME CapInv, NEW w \in Workers, ConfirmTransaction(w) \/ CatchStatus(w)
    PROVE  CapStep /\ FreshWorker(w)'
<1> DEFINE t == TxOf(job[w])
<1>0. /\ TypeOK /\ pc[w] \in HoldsDeposit /\ FinishRow(w)
      /\ UNCHANGED <<todo, rows, confirmed>>
  BY CapTypes DEF ConfirmTransaction, CatchStatus, HoldsDeposit
<1> HIDE DEF t
<1>1. CASE MarkConfirmedAndCredit(t) \/ MarkFailed(t)
  <2>1. CapStep /\ RowsFresh(w)' /\ HoldsConfirmed(w)'
    BY <1>0, <1>1, SettleFresh DEF t
  <2>2. JobFresh(w)'
    BY <1>0, FinishFresh
  <2> QED
    BY <2>1, <2>2 DEF FreshWorker
<1>2. CASE UNCHANGED <<credited, deposits>>
  BY <1>0, <1>2, QuietFinishFresh
<1> QED
  BY <1>1, <1>2 DEF ConfirmTransaction, CatchStatus, t

\* finalityPass touches no PENDING deposit.
LEMMA FinalityFresh ==
    ASSUME CapInv, NEW w \in Workers, NEW t \in confirmed[w], FinalityStatus(w, t)
    PROVE  CapStep /\ FreshWorker(w)'
<1>0. /\ TypeOK /\ RowsFresh(w) /\ JobFresh(w) /\ HoldsConfirmed(w)
      /\ pc[w] = "finality" /\ UNCHANGED <<pc, todo, rows, job, credited>>
      /\ t \in Tx /\ t \in DOMAIN deposits /\ Confirmed(t)
      /\ confirmed'[w] = confirmed[w] \ {t}
  BY CapTypes DEF CapInv, FreshWorker, FinalityStatus, TypeOK, HoldsConfirmed, Confirmed
<1>1. RowsFresh(w)' /\ JobFresh(w)'
  BY <1>0 DEF RowsFresh, JobFresh, InSweepAsset, BeforeReserve, HoldsDeposit
<1>2. CASE SetDepositStatus(t, "FINALIZED")
  <2>1. CapStep
    BY <1>0, <1>2 DEF CapStep, Finalizes
  <2>2. /\ DOMAIN deposits' = DOMAIN deposits
        /\ deposits'[t].status = "FINALIZED"
        /\ \A u \in DOMAIN deposits \ {t} : deposits'[u] = deposits[u]
    BY <1>0, <1>2, SetStatusStep DEF DepositStatus
  <2>3. \A u \in confirmed'[w] : Confirmed(u) => deposits'[u] = deposits[u]
    BY <1>0, <2>2 DEF Confirmed
  <2>4. HoldsConfirmed(w)'
    BY <1>0, <2>2, <2>3, ConfirmedStay
  <2> QED
    BY <1>1, <2>1, <2>4 DEF FreshWorker
<1>3. CASE UNCHANGED deposits
  <2>1. HoldsConfirmed(w)'
    BY <1>0, <1>3, ConfirmedStay
  <2> QED
    BY <1>0, <1>1, <1>3, <2>1 DEF FreshWorker, CapStep
<1> QED
  BY <1>2, <1>3 DEF FinalityStatus

\* A worker's step, or its crash, leaves it fresh and does only what CapStep allows.
LEMMA WorkerFresh ==
    ASSUME CapInv, NEW w \in Workers, Work(w) \/ Crash(w)
    PROVE  CapStep /\ FreshWorker(w)'
<1>1. CASE RpcThrows(w)
  BY <1>1, QuietFinishFresh DEF RpcThrows, dbVars
<1> QED
  BY <1>1, PassFresh, SweepAssetFresh, ReconcileFresh, ExpiryFresh, AttemptFresh,
     ReserveFresh, SendFresh, ConfirmFresh, FinalityFresh DEF Work

\* Nobody else writes what FreshWorker reads.
LEMMA OutsideFresh ==
    ASSUME CapInv, Handlers \/ Chain \/ Client \/ UNCHANGED vars
    PROVE  CapStep /\ \A w \in Workers : FreshWorker(w)'
<1>1. UNCHANGED <<credited, deposits, pc, todo, rows, job, confirmed>>
  BY DEF Handlers, VerifyApproval, RecordReapproval, VerifyRevocation, RecordRevocation,
         DelayElapses, Client, Approve, Revoke, TopUp, Spend, SyncLands, SetAccount,
         Chain, Land, Finalize, NewBlock, vars, dbVars, chainVars, workerVars
<1> QED
  BY <1>1 DEF CapInv, FreshWorker, RowsFresh, JobFresh, HoldsConfirmed, Confirmed, Pending, TxOf,
              Value, CapStep

\* With one worker every step is a CapStep and keeps every worker fresh.
LEMMA StepFresh ==
    ASSUME SingleWorker, CapInv, [Next]_vars
    PROVE  CapStep /\ \A w \in Workers : FreshWorker(w)'
<1>1. ASSUME NEW w \in Workers, Work(w) \/ Crash(w)
      PROVE  CapStep /\ \A v \in Workers : FreshWorker(v)'
  <2>1. \A v \in Workers : v = w
    BY DEF SingleWorker
  <2> QED
    BY <1>1, <2>1, WorkerFresh
<1> QED
  BY <1>1, OutsideFresh DEF Next

\* CapInv is inductive.
LEMMA CapInductive ==
    ASSUME SingleWorker, CapInv, [Next]_vars
    PROVE  CapInv'
<1>1. LiveInv'
  BY LiveInductive DEF CapInv
<1>2. CapStep /\ \A w \in Workers : FreshWorker(w)'
  BY StepFresh
<1>3. CapRespected'
  BY <1>2, CapStepKeepsCap
<1> QED
  BY <1>1, <1>2, <1>3 DEF CapInv

\* The initial states satisfy it.
LEMMA CapInit == Init => CapInv
<1> SUFFICES ASSUME Init PROVE CapInv
  OBVIOUS
<1>1. LiveInv
  BY LiveInit
<1>2. CapRespected
  BY SweepAssumption DEF Init, CapRespected, PendingOf
<1>3. \A w \in Workers : FreshWorker(w)
  BY DEF Init, FreshWorker, RowsFresh, JobFresh, HoldsConfirmed, InSweepAsset,
         BeforeReserve, HoldsDeposit
<1> QED
  BY <1>1, <1>2, <1>3 DEF CapInv

\* One indexer process never takes a client over the cap, through crashes, lost
\* answers, expired transfers and moving prices (sweepAsset.ts 24-28).
THEOREM CapKept ==
    ASSUME SingleWorker
    PROVE  Spec => []CapRespected
<1>1. CapInv /\ [Next]_vars => CapInv'
  BY CapInductive
<1>2. CapInv => CapRespected
  BY DEF CapInv
<1> QED
  BY <1>1, <1>2, CapInit, PTL DEF Spec

(***************************************************************************)
(* Refinement.                                                             *)
(***************************************************************************)
Reserved == [a \in Auths |-> {deposits[t].usd : t \in PendingOf(a)}]

\* The reservations after a step that changes them for one authorization.
LEMMA ReservedExcept ==
    ASSUME NEW b \in Auths, NEW S,
           {deposits'[t].usd : t \in PendingOf(b)'} = S,
           \A a \in Auths : a # b =>
              {deposits'[t].usd : t \in PendingOf(a)'} = {deposits[t].usd : t \in PendingOf(a)}
    PROVE  Reserved' = [Reserved EXCEPT ![b] = S]
BY DEF Reserved

\* Every step is a step of CapLedger or leaves its variables alone.
LEMMA StepRefines ==
    ASSUME CapInv, CapStep
    PROVE  [Ledger!LedgerNext]_(Ledger!ledgerVars)
<1>0. /\ TypeOK /\ CapRespected /\ UniquePending
      /\ AssetCap \in Nat /\ credited \in [Auths -> Nat]
      /\ \A t \in DOMAIN deposits : t \in Tx /\ t.auth \in Auths /\ deposits[t].usd \in Nat
  BY CapTypes DEF CapInv, LiveInv
<1>1. CASE UNCHANGED <<credited, deposits>>
  BY <1>1 DEF Ledger!ledgerVars, PendingOf
<1>2. ASSUME NEW t \in Tx, NEW usd \in Nat, ReservesFitting(t, usd)
      PROVE  Ledger!LedgerNext
  <2>1. /\ DOMAIN deposits' = DOMAIN deposits \cup {t}
        /\ deposits'[t] = [usd |-> usd, status |-> "PENDING"]
        /\ \A u \in DOMAIN deposits : deposits'[u] = deposits[u]
    BY <1>0, <1>2, InsertPendingStep DEF ReservesFitting
  <2>2. /\ credited' = credited /\ PendingOf(t.auth) = {}
        /\ credited[t.auth] + usd <= AssetCap /\ t \notin DOMAIN deposits
        /\ t.auth \in Auths
    BY <1>2 DEF ReservesFitting, Tx
  <2>3. PendingOf(t.auth)' = {t}
    BY <2>1, <2>2 DEF PendingOf
  <2>4. {deposits'[u].usd : u \in PendingOf(t.auth)'} = {usd}
    BY <2>1, <2>3
  <2>5. ASSUME NEW a \in Auths, a # t.auth
        PROVE  {deposits'[u].usd : u \in PendingOf(a)'} = {deposits[u].usd : u \in PendingOf(a)}
    <3>1. PendingOf(a)' = PendingOf(a)
      BY <2>1, <2>2, <2>5 DEF PendingOf
    <3>2. \A u \in PendingOf(a) : deposits'[u] = deposits[u]
      BY <2>1 DEF PendingOf
    <3> QED
      BY <3>1, <3>2
  <2>6. Reserved' = [Reserved EXCEPT ![t.auth] = {usd}]
    BY <2>2, <2>4, <2>5, ReservedExcept
  <2>7. Reserved[t.auth] = {}
    BY <2>2 DEF Reserved
  <2>8. usd \in 0 .. AssetCap
    BY <1>0, <2>2
  <2>9. Ledger!ReserveWithinCap(t.auth, usd)
    BY <2>2, <2>6, <2>7 DEF Ledger!ReserveWithinCap, Reserved
  <2> QED
    BY <2>2, <2>8, <2>9 DEF Ledger!LedgerNext
<1>3. ASSUME NEW t \in Tx, SettlesPending(t)
      PROVE  Ledger!LedgerNext
  <2>1. /\ DOMAIN deposits' = DOMAIN deposits
        /\ deposits'[t].status # "PENDING"
        /\ \A u \in DOMAIN deposits : u # t => deposits'[u] = deposits[u]
    BY <1>3, SettlesEffect, CapTypes
  <2>2. t \in PendingOf(t.auth) /\ t.auth \in Auths
    BY <1>0, <1>3 DEF SettlesPending, Pending, PendingOf
  <2>3. PendingOf(t.auth) = {t}
    BY <1>0, <2>2 DEF UniquePending, Pending, PendingOf
  <2>4. PendingOf(t.auth)' = {}
    BY <2>1, <2>3 DEF PendingOf
  <2>5. ASSUME NEW a \in Auths, a # t.auth
        PROVE  {deposits'[u].usd : u \in PendingOf(a)'} = {deposits[u].usd : u \in PendingOf(a)}
    <3>1. PendingOf(a)' = PendingOf(a)
      BY <2>1, <2>2, <2>5 DEF PendingOf
    <3>2. \A u \in PendingOf(a) : deposits'[u] = deposits[u]
      BY <2>1, <2>5 DEF PendingOf
    <3> QED
      BY <3>1, <3>2
  <2>6. {deposits'[u].usd : u \in PendingOf(t.auth)'} = {}
    BY <2>4
  <2>7. Reserved' = [Reserved EXCEPT ![t.auth] = {}]
    BY <2>2, <2>5, <2>6, ReservedExcept
  <2>8. Reserved[t.auth] = {deposits[t].usd}
    BY <2>2, <2>3 DEF Reserved
  <2>9. CASE MarkConfirmedAndCredit(t)
    <3>1. credited' = [credited EXCEPT ![t.auth] = @ + deposits[t].usd]
      BY <2>9 DEF MarkConfirmedAndCredit, UpdateCumulativeCredited
    <3>2. PICK usd \in Nat : usd = deposits[t].usd
      BY <1>0, <2>2 DEF PendingOf
    <3>3. usd \in Reserved[t.auth]
      BY <2>8, <3>2
    <3>4. Ledger!Settle(t.auth, usd)
      BY <2>7, <2>8, <3>1, <3>2 DEF Ledger!Settle, Reserved
    <3> QED
      BY <2>2, <3>3, <3>4 DEF Ledger!LedgerNext, Reserved
  <2>10. CASE MarkFailed(t)
    <3>1. Ledger!Release(t.auth)
      BY <2>7, <2>8, <2>10 DEF MarkFailed, Ledger!Release, Reserved
    <3> QED
      BY <2>2, <3>1 DEF Ledger!LedgerNext
  <2> QED
    BY <1>3, <2>9, <2>10 DEF SettlesPending
<1>4. ASSUME NEW t \in Tx, Finalizes(t)
      PROVE  UNCHANGED Ledger!ledgerVars
  <2>1. /\ DOMAIN deposits' = DOMAIN deposits
        /\ deposits'[t].status = "FINALIZED"
        /\ \A u \in DOMAIN deposits \ {t} : deposits'[u] = deposits[u]
        /\ credited' = credited /\ t \in DOMAIN deposits /\ deposits[t].status # "PENDING"
    BY <1>0, <1>4, SetStatusStep DEF Finalizes, Confirmed, DepositStatus
  <2>2. ASSUME NEW a \in Auths
        PROVE  {deposits'[u].usd : u \in PendingOf(a)'} = {deposits[u].usd : u \in PendingOf(a)}
    <3>1. PendingOf(a)' = PendingOf(a)
      BY <2>1 DEF PendingOf
    <3>2. \A u \in PendingOf(a) : deposits'[u] = deposits[u]
      BY <2>1 DEF PendingOf
    <3> QED
      BY <3>1, <3>2
  <2>3. Reserved' = Reserved
    BY <2>2 DEF Reserved
  <2> QED
    BY <2>1, <2>3 DEF Ledger!ledgerVars, Reserved
<1> QED
  BY <1>1, <1>2, <1>3, <1>4 DEF CapStep

\* One indexer process implements CapLedger: each authorization has at most
\* one reservation, made within the cap, and settled once or released.
THEOREM SweepImplementsCapLedger ==
    ASSUME SingleWorker
    PROVE  Spec => ImplementsCapLedger
<1>1. Init => Ledger!LedgerInit
  <2> SUFFICES ASSUME Init PROVE Ledger!LedgerInit
    OBVIOUS
  <2>1. \A a \in Auths : PendingOf(a) = {}
    BY DEF Init, PendingOf
  <2> QED
    BY <2>1 DEF Init, Ledger!LedgerInit
<1>2. CapInv /\ [Next]_vars => [Ledger!LedgerNext]_(Ledger!ledgerVars)
  BY StepFresh, StepRefines
<1>3. CapInv /\ [Next]_vars => CapInv'
  BY CapInductive
<1> QED
  BY <1>1, <1>2, <1>3, CapInit, PTL DEF Spec, ImplementsCapLedger, Ledger!LedgerSpec

(***************************************************************************)
(* The same steps, seen from the history of a deposit.                     *)
(***************************************************************************)
Usd == [t \in DOMAIN deposits |-> deposits[t].usd]

\* A deposit is only made PENDING, settled once from there, and finalized from
\* CONFIRMED.
LEMMA CapStepKeepsLifecycle ==
    ASSUME CapInv, CapStep
    PROVE  \A t \in DOMAIN deposits :
              /\ t \in DOMAIN deposits'
              /\ deposits'[t].usd = deposits[t].usd
              /\ <<deposits[t].status, deposits'[t].status>> \in
                    {<<s, s>> : s \in DepositStatus}
                    \cup {<<"PENDING", "CONFIRMED">>, <<"PENDING", "FAILED">>,
                          <<"CONFIRMED", "FINALIZED">>}
<1>0. TypeOK /\ \A u \in DOMAIN deposits : deposits[u].status \in DepositStatus
  BY CapTypes DEF TypeOK, Deposit
<1> SUFFICES ASSUME NEW t \in DOMAIN deposits
             PROVE  /\ t \in DOMAIN deposits'
                    /\ deposits'[t].usd = deposits[t].usd
                    /\ \/ deposits'[t].status = deposits[t].status
                       \/ deposits[t].status = "PENDING" /\ deposits'[t].status \in {"CONFIRMED", "FAILED"}
                       \/ deposits[t].status = "CONFIRMED" /\ deposits'[t].status = "FINALIZED"
  BY <1>0
<1>1. CASE UNCHANGED <<credited, deposits>>
  BY <1>1
<1>2. ASSUME NEW u \in Tx, NEW usd \in Nat, ReservesFitting(u, usd)
      PROVE  t \in DOMAIN deposits' /\ deposits'[t] = deposits[t]
  BY <1>0, <1>2, InsertPendingStep DEF ReservesFitting
<1>3. ASSUME NEW u \in Tx, Pending(u), NEW s \in {"CONFIRMED", "FAILED"},
             SetDepositStatus(u, s)
      PROVE  /\ t \in DOMAIN deposits'
             /\ deposits'[t].usd = deposits[t].usd
             /\ \/ deposits'[t] = deposits[t]
                \/ deposits[t].status = "PENDING" /\ deposits'[t].status = s
  BY <1>0, <1>3, SetStatusStep DEF Pending, DepositStatus
<1>4. ASSUME NEW u \in Tx, SettlesPending(u)
      PROVE  /\ t \in DOMAIN deposits'
             /\ deposits'[t].usd = deposits[t].usd
             /\ \/ deposits'[t] = deposits[t]
                \/ deposits[t].status = "PENDING" /\ deposits'[t].status \in {"CONFIRMED", "FAILED"}
  BY <1>3, <1>4 DEF SettlesPending, MarkConfirmedAndCredit, MarkFailed
<1>5. ASSUME NEW u \in Tx, Finalizes(u)
      PROVE  /\ t \in DOMAIN deposits'
             /\ deposits'[t].usd = deposits[t].usd
             /\ \/ deposits'[t] = deposits[t]
                \/ deposits[t].status = "CONFIRMED" /\ deposits'[t].status = "FINALIZED"
  BY <1>0, <1>5, SetStatusStep DEF Finalizes, Confirmed, DepositStatus
<1> QED
  BY <1>1, <1>2, <1>4, <1>5 DEF CapStep

\* With one indexer process a deposit only moves PENDING -> CONFIRMED or FAILED,
\* CONFIRMED -> FINALIZED, whatever is lost and retried; no row disappears or
\* changes its value (schema.sql 129-146).
THEOREM LifecycleKept ==
    ASSUME SingleWorker
    PROVE  Spec => DepositLifecycle
<1>1. CapInv /\ [Next]_vars => CapInv'
  BY CapInductive
<1>2. CapInv /\ [Next]_vars =>
        [\A t \in DOMAIN deposits :
          /\ t \in DOMAIN deposits'
          /\ deposits'[t].usd = deposits[t].usd
          /\ <<deposits[t].status, deposits'[t].status>> \in
                {<<s, s>> : s \in DepositStatus}
                \cup {<<"PENDING", "CONFIRMED">>, <<"PENDING", "FAILED">>,
                      <<"CONFIRMED", "FINALIZED">>}]_vars
  BY StepFresh, CapStepKeepsLifecycle
<1> QED
  BY <1>1, <1>2, CapInit, PTL DEF Spec, DepositLifecycle

(***************************************************************************)
(* Credit.  The total of a row and the sum over its settled deposits grow  *)
(* together: both in the one step in which a PENDING deposit is confirmed. *)
(***************************************************************************)
CreditInv == CapInv /\ IsFiniteSet(DOMAIN deposits) /\ CreditedExactlyOnce

\* The deposits of an authorization are finitely many, with natural values.
LEMMA CreditTypes ==
    ASSUME CreditInv, NEW a \in Auths
    PROVE  /\ IsFiniteSet(CreditedDeposits(a))
           /\ \A t \in CreditedDeposits(a) : Usd[t] \in Nat
           /\ credited[a] = SumFunctionOnSet(Usd, CreditedDeposits(a))
<1>1. CreditedDeposits(a) \subseteq DOMAIN deposits
  BY DEF CreditedDeposits
<1>2. \A t \in DOMAIN deposits : Usd[t] \in Nat
  BY CapTypes DEF CreditInv, Usd
<1>3. IsFiniteSet(CreditedDeposits(a))
  BY <1>1, FS_Subset DEF CreditInv
<1> QED
  BY <1>1, <1>2, <1>3 DEF CreditInv, CreditedExactlyOnce, Usd

\* While the deposits that count are the same and worth the same, so is their sum.
LEMMA SameCredit ==
    ASSUME CreditInv, NEW a \in Auths, credited'[a] = credited[a],
           CreditedDeposits(a)' = CreditedDeposits(a),
           \A t \in CreditedDeposits(a) : t \in DOMAIN deposits' /\ deposits'[t].usd = deposits[t].usd
    PROVE  credited'[a] = SumFunctionOnSet(Usd', CreditedDeposits(a)')
<1>1. \A t \in CreditedDeposits(a) : Usd[t] = Usd'[t]
  BY DEF Usd, CreditedDeposits
<1>2. SumFunctionOnSet(Usd, CreditedDeposits(a)) = SumFunctionOnSet(Usd', CreditedDeposits(a))
  BY <1>1, CreditTypes, SumAgree, Zenon
<1> QED
  BY <1>2, CreditTypes, Zenon

\* A confirmation adds one deposit to those that count, and its value to the total.
LEMMA ConfirmedOnce ==
    ASSUME CreditInv, NEW t \in Tx, Pending(t), MarkConfirmedAndCredit(t),
           NEW a \in Auths
    PROVE  credited'[a] = SumFunctionOnSet(Usd', CreditedDeposits(a)')
<1>0. TypeOK /\ t \in DOMAIN deposits
  BY CapTypes DEF CreditInv, Pending
<1>1. /\ DOMAIN deposits' = DOMAIN deposits
      /\ \A r \in DOMAIN deposits : deposits'[r].usd = deposits[r].usd
      /\ deposits'[t].status = "CONFIRMED"
      /\ \A r \in DOMAIN deposits \ {t} : deposits'[r] = deposits[r]
      /\ credited'[t.auth] = credited[t.auth] + deposits[t].usd
      /\ \A b \in Auths \ {t.auth} : credited'[b] = credited[b]
  BY <1>0, MarkConfirmedStep
<1>2. CASE a # t.auth
  <2>1. CreditedDeposits(a)' = CreditedDeposits(a)
    BY <1>1, <1>2 DEF CreditedDeposits
  <2>2. \A r \in CreditedDeposits(a) : r \in DOMAIN deposits' /\ deposits'[r].usd = deposits[r].usd
    BY <1>1 DEF CreditedDeposits
  <2>3. credited'[a] = credited[a]
    BY <1>1, <1>2
  <2> QED
    BY <2>1, <2>2, <2>3, SameCredit
<1>3. CASE a = t.auth
  <2> DEFINE S == CreditedDeposits(a)
  <2>1. t \notin S /\ CreditedDeposits(a)' = S \cup {t}
    BY <1>0, <1>1, <1>3 DEF CreditedDeposits, Pending
  <2>2. \A r \in S : r \in DOMAIN deposits
    BY DEF CreditedDeposits
  <2>3. IsFiniteSet(S) /\ (\A r \in S : Usd[r] \in Nat) /\ credited[a] = SumFunctionOnSet(Usd, S)
    BY CreditTypes
  <2>4. Usd'[t] = deposits[t].usd /\ Usd'[t] \in Nat /\ \A r \in S : Usd[r] = Usd'[r]
    BY <1>0, <1>1, <2>2, CapTypes DEF Usd, CreditInv
  <2> HIDE DEF S
  <2>5. IsFiniteSet(S \cup {t}) /\ (S \cup {t}) \ {t} = S /\ t \in S \cup {t}
    BY <2>1, <2>3, FS_AddElement
  <2>6. \A r \in S \cup {t} : Usd'[r] \in Int
    BY <2>3, <2>4
  <2>7. SumFunctionOnSet(Usd', S \cup {t})
          = Usd'[t] + SumFunctionOnSet(Usd', (S \cup {t}) \ {t})
    <3> DEFINE U == S \cup {t}
               f == Usd'
    <3>1. IsFiniteSet(U) /\ t \in U /\ \A r \in U : f[r] \in Int
      BY <2>5, <2>6
    <3> HIDE DEF U, f
    <3>2. SumFunctionOnSet(f, U) = f[t] + SumFunctionOnSet(f, U \ {t})
      BY <3>1, SumLess
    <3> QED
      BY <3>2 DEF U, f
  <2>8. SumFunctionOnSet(Usd, S) = SumFunctionOnSet(Usd', S)
    BY <2>3, <2>4, SumAgree, Zenon
  <2>9. SumFunctionOnSet(Usd', S \cup {t}) = deposits[t].usd + credited[a]
    BY <2>3, <2>4, <2>5, <2>7, <2>8, Zenon
  <2>10. credited[a] \in Int /\ deposits[t].usd \in Int
    BY <1>0, <2>4 DEF TypeOK
  <2>11. credited'[a] = deposits[t].usd + credited[a]
    BY <1>1, <1>3, <2>10
  <2> QED
    BY <2>1, <2>9, <2>11, Zenon
<1> QED
  BY <1>2, <1>3

\* Every step keeps total and sum together.
LEMMA CapStepKeepsCredit ==
    ASSUME CreditInv, CapStep
    PROVE  IsFiniteSet(DOMAIN deposits)' /\ CreditedExactlyOnce'
<1>0. /\ TypeOK /\ CapInv /\ IsFiniteSet(DOMAIN deposits)
      /\ \A t \in DOMAIN deposits : t \in Tx /\ t.auth \in Auths
  BY CapTypes DEF CreditInv
<1> DEFINE Kept == \A a \in Auths : credited'[a] = SumFunctionOnSet(Usd', CreditedDeposits(a)')
<1>1. CASE UNCHANGED <<credited, deposits>>
  BY <1>1 DEF CreditInv, CreditedExactlyOnce, CreditedDeposits
<1>2. ASSUME NEW t \in Tx, NEW usd \in Nat, ReservesFitting(t, usd)
      PROVE  IsFiniteSet(DOMAIN deposits)' /\ Kept
  <2>1. /\ DOMAIN deposits' = DOMAIN deposits \cup {t} /\ t \notin DOMAIN deposits
        /\ deposits'[t] = [usd |-> usd, status |-> "PENDING"]
        /\ \A u \in DOMAIN deposits : deposits'[u] = deposits[u]
        /\ credited' = credited
    BY <1>0, <1>2, InsertPendingStep DEF ReservesFitting
  <2>2. IsFiniteSet(DOMAIN deposits)'
    BY <1>0, <2>1, FS_AddElement
  <2>3. ASSUME NEW a \in Auths
        PROVE  credited'[a] = SumFunctionOnSet(Usd', CreditedDeposits(a)')
    <3>1. CreditedDeposits(a)' = CreditedDeposits(a)
      BY <2>1 DEF CreditedDeposits
    <3>2. \A r \in CreditedDeposits(a) : r \in DOMAIN deposits' /\ deposits'[r].usd = deposits[r].usd
      BY <2>1 DEF CreditedDeposits
    <3> QED
      BY <2>1, <3>1, <3>2, SameCredit
  <2> QED
    BY <2>2, <2>3
<1>3. ASSUME NEW t \in Tx, Pending(t), MarkFailed(t)
      PROVE  IsFiniteSet(DOMAIN deposits)' /\ Kept
  <2>1. /\ DOMAIN deposits' = DOMAIN deposits
        /\ \A r \in DOMAIN deposits : deposits'[r].usd = deposits[r].usd
        /\ deposits'[t].status = "FAILED"
        /\ \A r \in DOMAIN deposits \ {t} : deposits'[r] = deposits[r]
        /\ credited' = credited /\ deposits[t].status = "PENDING"
    BY <1>0, <1>3, MarkFailedStep DEF Pending
  <2>2. ASSUME NEW a \in Auths
        PROVE  credited'[a] = SumFunctionOnSet(Usd', CreditedDeposits(a)')
    <3>1. CreditedDeposits(a)' = CreditedDeposits(a)
      BY <2>1 DEF CreditedDeposits
    <3>2. \A r \in CreditedDeposits(a) : r \in DOMAIN deposits' /\ deposits'[r].usd = deposits[r].usd
      BY <2>1 DEF CreditedDeposits
    <3> QED
      BY <2>1, <3>1, <3>2, SameCredit
  <2> QED
    BY <1>0, <2>1, <2>2
<1>4. ASSUME NEW t \in Tx, Pending(t), MarkConfirmedAndCredit(t)
      PROVE  IsFiniteSet(DOMAIN deposits)' /\ Kept
  <2>1. DOMAIN deposits' = DOMAIN deposits
    BY <1>0, <1>4, MarkConfirmedStep DEF Pending
  <2> QED
    BY <1>0, <1>4, <2>1, ConfirmedOnce
<1>5. ASSUME NEW t \in Tx, Finalizes(t)
      PROVE  IsFiniteSet(DOMAIN deposits)' /\ Kept
  <2>1. /\ DOMAIN deposits' = DOMAIN deposits
        /\ \A r \in DOMAIN deposits : deposits'[r].usd = deposits[r].usd
        /\ deposits'[t].status = "FINALIZED"
        /\ \A r \in DOMAIN deposits \ {t} : deposits'[r] = deposits[r]
        /\ credited' = credited /\ deposits[t].status = "CONFIRMED"
    BY <1>0, <1>5, SetStatusStep DEF Finalizes, Confirmed, DepositStatus
  <2>2. ASSUME NEW a \in Auths
        PROVE  credited'[a] = SumFunctionOnSet(Usd', CreditedDeposits(a)')
    <3>1. CreditedDeposits(a)' = CreditedDeposits(a)
      BY <2>1 DEF CreditedDeposits
    <3>2. \A r \in CreditedDeposits(a) : r \in DOMAIN deposits' /\ deposits'[r].usd = deposits[r].usd
      BY <2>1 DEF CreditedDeposits
    <3> QED
      BY <2>1, <3>1, <3>2, SameCredit
  <2> QED
    BY <1>0, <2>1, <2>2
<1>6. CASE IsFiniteSet(DOMAIN deposits)' /\ Kept
  BY <1>6 DEF CreditedExactlyOnce, Usd
<1>7. CASE UNCHANGED <<credited, deposits>>
  BY <1>0, <1>1, <1>7
<1> QED
  BY <1>2, <1>3, <1>4, <1>5, <1>6, <1>7 DEF CapStep, SettlesPending

\* One indexer process credits every confirmed deposit exactly once, through
\* crashes between the steps, answers that were lost, and retries
\* (sweepAsset.ts 40-44).
THEOREM CreditedOnce ==
    ASSUME SingleWorker
    PROVE  Spec => []CreditedExactlyOnce
<1>1. Init => CreditInv
  <2> SUFFICES ASSUME Init PROVE CreditInv
    OBVIOUS
  <2>1. DOMAIN deposits = {} /\ credited = [a \in Auths |-> 0]
    BY DEF Init
  <2>2. ASSUME NEW a \in Auths
        PROVE  credited[a] = SumFunctionOnSet(Usd, CreditedDeposits(a))
    <3>1. CreditedDeposits(a) = {}
      BY <2>1 DEF CreditedDeposits
    <3>2. SumFunctionOnSet(Usd, {}) = 0
      BY SumEmpty, Zenon
    <3> QED
      BY <2>1, <3>1, <3>2
  <2>3. CreditedExactlyOnce
    BY <2>2 DEF CreditedExactlyOnce, Usd
  <2> QED
    BY <2>1, <2>3, CapInit, FS_EmptySet DEF CreditInv
<1>2. CreditInv /\ [Next]_vars => CreditInv'
  <2> SUFFICES ASSUME CreditInv, [Next]_vars PROVE CreditInv'
    OBVIOUS
  <2>1. CapInv' /\ CapStep
    BY CapInductive, StepFresh DEF CreditInv
  <2> QED
    BY <2>1, CapStepKeepsCredit DEF CreditInv
<1>3. CreditInv => CreditedExactlyOnce
  BY DEF CreditInv
<1> QED
  BY <1>1, <1>2, <1>3, PTL DEF Spec
=============================================================================
