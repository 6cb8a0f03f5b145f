---------------------------- MODULE SweepProofs ----------------------------
(***************************************************************************)
(* Theorems about Sweep, for every set of authorizations and workers, every *)
(* cap, every price and every bound.                                       *)
(***************************************************************************)
EXTENDS Sweep, ArithmeticProofs

(***************************************************************************)
(* Types.  TypeOK is not inductive by itself: that a reserved transfer is  *)
(* one of Tx needs to know what a worker holds at each await.              *)
(***************************************************************************)
InSweepAsset == PCs \ {"sleep", "next", "finality"}
HoldsDeposit == {"reconcile", "expiry", "send", "confirm", "catch"}

\* Inside sweepAsset the job names an authorization and a price, and where a
\* deposits row is awaited that row exists.
WorkerOK(w) ==
    /\ pc[w] \in InSweepAsset => job[w].auth \in Auths /\ job[w].price \in Prices
    /\ pc[w] \in HoldsDeposit => TxOf(job[w]) \in DOMAIN deposits

JobOK == \A w \in Workers : WorkerOK(w)

TypeInv == TypeOK /\ JobOK

\* The idle job and the empty row are well typed.
LEMMA NoJobType == NoRow \in Row /\ NoJob \in Job
BY DEF NoRow, Row, NoJob, Job

\* What sweepPass selects is a Row.
LEMMA RowOfType ==
    ASSUME TypeOK, NEW a \in Auths
    PROVE  RowOf(a) \in Row
BY DEF TypeOK, RowOf, Row

\* The transfer of a job that names an authorization is a Tx.
LEMMA TxOfType ==
    ASSUME NEW j \in Job, j.auth \in Auths
    PROVE  TxOf(j) \in Tx
BY DEF Job, TxOf, Tx

\* The initial states are well typed.
LEMMA InitType == Init => TypeInv
<1> SUFFICES ASSUME Init PROVE TypeInv
  OBVIOUS
<1> USE SweepAssumption, NoJobType
<1>1. status \in [Auths -> {"ACTIVE", "REVOKED"}] /\ request \in [Auths -> {"none", "approved", "revoked"}]
  BY DEF Init
<1>2. credited \in [Auths -> Nat] /\ approvals \in [Auths -> Nat] /\ elapsed \in [Auths -> Nat]
  BY DEF Init
<1>3. DOMAIN deposits = {} /\ DOMAIN txs = {}
  BY DEF Init
<1>4. deposits \in [DOMAIN deposits -> Deposit]
  BY <1>3 DEF Init
<1>5. txs \in [DOMAIN txs -> [state : {"inflight", "ok", "err"}, final : BOOLEAN]]
  BY <1>3 DEF Init
<1>6. height \in Nat /\ account \in [Auths -> Account]
  BY DEF Init, Account
<1>7. pc \in [Workers -> PCs] /\ todo \in [Workers -> SUBSET Auths]
  BY DEF Init, PCs
<1>8. rows \in [Workers -> [Auths -> Row]] /\ job \in [Workers -> Job] /\ confirmed \in [Workers -> SUBSET Tx]
  BY DEF Init
<1>9. JobOK
  BY DEF Init, JobOK, WorkerOK, InSweepAsset, HoldsDeposit
<1> QED
  BY <1>1, <1>2, <1>3, <1>4, <1>5, <1>6, <1>7, <1>8, <1>9 DEF TypeInv, TypeOK

(***************************************************************************)
(* What the building blocks of an action do to the variables they set.     *)
(***************************************************************************)
\* Moving one worker to another await, with another job, moves no other.
LEMMA WorkerStep ==
    ASSUME TypeOK, NEW w \in Workers, NEW l \in PCs, NEW j \in Job,
           pc' = [pc EXCEPT ![w] = l], job' = [job EXCEPT ![w] = j]
    PROVE  /\ pc' \in [Workers -> PCs]
           /\ job' \in [Workers -> Job]
           /\ pc'[w] = l /\ job'[w] = j
           /\ \A v \in Workers \ {w} : pc'[v] = pc[v] /\ job'[v] = job[v]
BY DEF TypeOK

\* What FinishRow does: the worker is between rows, without a job.
LEMMA FinishRowStep ==
    ASSUME TypeOK, NEW w \in Workers, FinishRow(w)
    PROVE  /\ pc' \in [Workers -> PCs]
           /\ job' \in [Workers -> Job]
           /\ pc'[w] = "next" /\ job'[w] = NoJob
           /\ \A v \in Workers \ {w} : pc'[v] = pc[v] /\ job'[v] = job[v]
<1>1. "next" \in PCs
  BY DEF PCs
<1> QED
  BY <1>1, NoJobType, WorkerStep DEF FinishRow, GoTo

\* BeginAttempt either enters the attempt with job j or finishes the row.
LEMMA BeginAttemptStep ==
    ASSUME TypeOK, NEW w \in Workers, NEW j \in Job, BeginAttempt(w, j)
    PROVE  /\ pc' \in [Workers -> PCs]
           /\ job' \in [Workers -> Job]
           /\ \/ pc'[w] \in {"sync", "account"} /\ job'[w] = j
              \/ pc'[w] = "next" /\ job'[w] = NoJob
           /\ \A v \in Workers \ {w} : pc'[v] = pc[v] /\ job'[v] = job[v]
<1>1. CASE FinishRow(w)
  BY <1>1, FinishRowStep
<1>2. CASE ~ FinishRow(w)
  <2> DEFINE l == IF j.auth \in SolAuths THEN "sync" ELSE "account"
  <2>1. l \in PCs /\ l \in {"sync", "account"}
    BY DEF PCs
  <2>2. pc' = [pc EXCEPT ![w] = l] /\ job' = [job EXCEPT ![w] = j]
    BY <1>2 DEF BeginAttempt, GoTo
  <2> HIDE DEF l
  <2> QED
    BY <2>1, <2>2, WorkerStep
<1> QED
  BY <1>1, <1>2

\* SetDepositStatus changes the status of one existing row and nothing else.
LEMMA SetStatusStep ==
    ASSUME TypeOK, NEW t \in DOMAIN deposits, NEW s \in DepositStatus,
           SetDepositStatus(t, s)
    PROVE  /\ DOMAIN deposits' = DOMAIN deposits
           /\ deposits' \in [DOMAIN deposits -> Deposit]
           /\ \A r \in DOMAIN deposits : deposits'[r].usd = deposits[r].usd
           /\ deposits'[t].status = s
           /\ \A r \in DOMAIN deposits \ {t} : deposits'[r] = deposits[r]
BY DEF TypeOK, SetDepositStatus, Deposit

\* MarkConfirmedAndCredit confirms one deposit and credits its authorization.
LEMMA MarkConfirmedStep ==
    ASSUME TypeOK, NEW t \in DOMAIN deposits, MarkConfirmedAndCredit(t)
    PROVE  /\ DOMAIN deposits' = DOMAIN deposits
           /\ deposits' \in [DOMAIN deposits -> Deposit]
           /\ \A r \in DOMAIN deposits : deposits'[r].usd = deposits[r].usd
           /\ deposits'[t].status = "CONFIRMED"
           /\ \A r \in DOMAIN deposits \ {t} : deposits'[r] = deposits[r]
           /\ credited' \in [Auths -> Nat]
           /\ credited'[t.auth] = credited[t.auth] + deposits[t].usd
           /\ \A a \in Auths \ {t.auth} : credited'[a] = credited[a]
<1>1. t.auth \in Auths /\ deposits[t].usd \in Nat
  BY DEF TypeOK, Tx, Deposit
<1>2. SetDepositStatus(t, "CONFIRMED") /\ "CONFIRMED" \in DepositStatus
  BY DEF MarkConfirmedAndCredit, DepositStatus
<1>3. /\ credited' \in [Auths -> Nat]
      /\ credited'[t.auth] = credited[t.auth] + deposits[t].usd
      /\ \A a \in Auths \ {t.auth} : credited'[a] = credited[a]
  BY <1>1 DEF TypeOK, MarkConfirmedAndCredit, UpdateCumulativeCredited
<1> QED
  BY <1>2, <1>3, SetStatusStep

\* InsertPending adds one PENDING row.
LEMMA InsertPendingStep ==
    ASSUME TypeOK, NEW t \in Tx, NEW usd \in Nat, InsertPending(t, usd),
           t \notin DOMAIN deposits
    PROVE  /\ DOMAIN deposits' = DOMAIN deposits \cup {t}
           /\ deposits' \in [DOMAIN deposits' -> Deposit]
           /\ deposits'[t] = [usd |-> usd, status |-> "PENDING"]
           /\ \A r \in DOMAIN deposits : deposits'[r] = deposits[r]
BY DEF TypeOK, InsertPending, Deposit, DepositStatus

\* A step of one worker that deletes no deposit leaves the others' jobs sound.
LEMMA OthersOK ==
    ASSUME JobOK, NEW w \in Workers, WorkerOK(w)',
           DOMAIN deposits \subseteq DOMAIN deposits',
           \A v \in Workers \ {w} : pc'[v] = pc[v] /\ job'[v] = job[v]
    PROVE  JobOK'
<1> SUFFICES ASSUME NEW v \in Workers \ {w} PROVE WorkerOK(v)'
  BY DEF JobOK
<1> QED
  BY DEF JobOK, WorkerOK, TxOf

(***************************************************************************)
(* Every action keeps TypeInv.                                             *)
(***************************************************************************)
\* Selecting the ACTIVE rows keeps the types.
LEMMA TypeStartPass ==
    ASSUME TypeInv, NEW w \in Workers, StartPass(w)
    PROVE  TypeInv'
<1> USE DEF TypeInv, StartPass, dbVars, chainVars
<1>1. "next" \in PCs /\ "next" \notin InSweepAsset /\ "next" \notin HoldsDeposit
  BY DEF PCs, InSweepAsset, HoldsDeposit
<1>2. /\ pc' \in [Workers -> PCs] /\ pc'[w] = "next"
      /\ \A v \in Workers \ {w} : pc'[v] = pc[v]
  BY <1>1 DEF TypeOK, GoTo
<1>3. rows' \in [Workers -> [Auths -> Row]]
  <2>1. [a \in Auths |-> IF status[a] = "ACTIVE" THEN RowOf(a) ELSE NoRow]
            \in [Auths -> Row]
    BY NoJobType, RowOfType
  <2> QED
    BY <2>1 DEF TypeOK
<1>4. todo' \in [Workers -> SUBSET Auths]
  BY DEF TypeOK
<1>5. WorkerOK(w)'
  BY <1>1, <1>2 DEF WorkerOK
<1>6. JobOK'
  BY <1>2, <1>5, OthersOK
<1> QED
  BY <1>2, <1>3, <1>4, <1>6 DEF TypeOK

\* Taking a row keeps the types of what the pass still has to do.
LEMMA TakeRowStep ==
    ASSUME TypeInv, NEW w \in Workers, NEW a \in Auths, TakeRow(w, a)
    PROVE  /\ todo' \in [Workers -> SUBSET Auths]
           /\ rows' \in [Workers -> [Auths -> Row]]
BY NoJobType DEF TypeInv, TypeOK, TakeRow

\* Passing over a row keeps the types.
LEMMA TypeSkipRow ==
    ASSUME TypeInv, NEW w \in Workers, NEW a \in Auths, SkipRow(w, a)
    PROVE  TypeInv'
<1>1. todo' \in [Workers -> SUBSET Auths] /\ rows' \in [Workers -> [Auths -> Row]]
  BY TakeRowStep DEF SkipRow
<1>2. JobOK'
  BY DEF TypeInv, SkipRow, JobOK, WorkerOK, dbVars, TxOf
<1> QED
  BY <1>1, <1>2 DEF TypeInv, TypeOK, SkipRow, dbVars, chainVars

\* A pass ended by a throw keeps the types.
LEMMA TypeAbortPass ==
    ASSUME TypeInv, NEW w \in Workers, AbortPass(w)
    PROVE  TypeInv'
<1>1. todo' \in [Workers -> SUBSET Auths] /\ rows' \in [Workers -> [Auths -> Row]]
  BY NoJobType DEF TypeInv, TypeOK, AbortPass
<1>2. JobOK'
  BY DEF TypeInv, AbortPass, JobOK, WorkerOK, dbVars, TxOf
<1> QED
  BY <1>1, <1>2 DEF TypeInv, TypeOK, AbortPass, dbVars, chainVars

\* Calling sweepAsset keeps the types, whichever await it reaches.
LEMMA TypeSweepAsset ==
    ASSUME TypeInv, NEW w \in Workers, NEW a \in Auths, NEW p \in Prices,
           SweepAsset(w, a, p)
    PROVE  TypeInv'
<1> DEFINE j == [NoJob EXCEPT !.auth = a, !.row = rows[w][a], !.price = p]
<1>1. todo' \in [Workers -> SUBSET Auths] /\ rows' \in [Workers -> [Auths -> Row]]
  BY TakeRowStep DEF SweepAsset
<1>2. j \in Job /\ j.auth = a /\ j.price = p
  BY DEF TypeInv, TypeOK, NoJob, Job
<1>3. /\ pc' \in [Workers -> PCs]
      /\ job' \in [Workers -> Job]
      /\ WorkerOK(w)'
      /\ \A v \in Workers \ {w} : pc'[v] = pc[v] /\ job'[v] = job[v]
  <2>1. CASE PendingOf(a) = {} /\ BeginAttempt(w, j)
    <3>1. WorkerOK(w)'
      BY <1>2, <2>1, BeginAttemptStep
         DEF TypeInv, WorkerOK, InSweepAsset, HoldsDeposit, PCs
    <3> QED
      BY <1>2, <2>1, <3>1, BeginAttemptStep DEF TypeInv
  <2>2. ASSUME NEW t \in PendingOf(a), GoTo(w, "reconcile"),
               job' = [job EXCEPT ![w] = [j EXCEPT !.amount = t.amount, !.lvbh = t.lvbh]]
        PROVE  /\ pc' \in [Workers -> PCs]
               /\ job' \in [Workers -> Job]
               /\ WorkerOK(w)'
               /\ \A v \in Workers \ {w} : pc'[v] = pc[v] /\ job'[v] = job[v]
    <3> DEFINE k == [j EXCEPT !.amount = t.amount, !.lvbh = t.lvbh]
    <3>1. t \in Tx /\ t \in DOMAIN deposits /\ t.auth = a
      BY <2>2 DEF PendingOf, TypeInv, TypeOK
    <3>2. k \in Job /\ k.auth = a /\ k.price = p /\ TxOf(k) = t
      BY <1>2, <3>1 DEF TxOf, Tx, Job
    <3>3. "reconcile" \in PCs
      BY DEF PCs
    <3> HIDE DEF k, j
    <3>4. /\ pc' \in [Workers -> PCs]
          /\ job' \in [Workers -> Job]
          /\ pc'[w] = "reconcile" /\ job'[w] = k
          /\ \A v \in Workers \ {w} : pc'[v] = pc[v] /\ job'[v] = job[v]
      BY <2>2, <3>2, <3>3, WorkerStep DEF GoTo, TypeInv, k
    <3>5. WorkerOK(w)'
      BY <3>1, <3>2, <3>4 DEF WorkerOK, SweepAsset, dbVars, TxOf
    <3> QED
      BY <3>4, <3>5
  <2> QED
    BY <2>1, <2>2 DEF SweepAsset
<1>4. JobOK'
  BY <1>3, OthersOK DEF TypeInv, SweepAsset, dbVars
<1> QED
  BY <1>1, <1>3, <1>4 DEF TypeInv, TypeOK, SweepAsset, dbVars, chainVars

\* FinishRow leaves the worker outside sweepAsset, where it owes nothing.
LEMMA FinishRowOK ==
    ASSUME TypeInv, NEW w \in Workers, FinishRow(w),
           DOMAIN deposits \subseteq DOMAIN deposits'
    PROVE  /\ pc' \in [Workers -> PCs]
           /\ job' \in [Workers -> Job]
           /\ JobOK'
<1>1. WorkerOK(w)'
  BY FinishRowStep DEF TypeInv, WorkerOK, InSweepAsset, HoldsDeposit
<1> QED
  BY <1>1, FinishRowStep, OthersOK DEF TypeInv

\* BeginAttempt on a well-typed job keeps every worker's job sound.
LEMMA BeginAttemptOK ==
    ASSUME TypeInv, NEW w \in Workers, NEW j \in Job, BeginAttempt(w, j),
           j.auth \in Auths, j.price \in Prices,
           DOMAIN deposits \subseteq DOMAIN deposits'
    PROVE  /\ pc' \in [Workers -> PCs]
           /\ job' \in [Workers -> Job]
           /\ JobOK'
<1>1. WorkerOK(w)'
  BY BeginAttemptStep DEF TypeInv, WorkerOK, InSweepAsset, HoldsDeposit, PCs
<1> QED
  BY <1>1, BeginAttemptStep, OthersOK DEF TypeInv

\* What a worker awaiting an answer about a deposit holds.
LEMMA HeldDeposit ==
    ASSUME TypeInv, NEW w \in Workers, pc[w] \in HoldsDeposit
    PROVE  /\ TxOf(job[w]) \in DOMAIN deposits
           /\ TxOf(job[w]) \in Tx
           /\ job[w] \in Job
           /\ job[w].auth \in Auths /\ job[w].price \in Prices
           /\ TxOf(job[w]).auth = job[w].auth
BY DEF TypeInv, TypeOK, JobOK, WorkerOK, HoldsDeposit, InSweepAsset, PCs, TxOf

\* MarkFailed changes the status of one existing row and credits nothing.
LEMMA MarkFailedStep ==
    ASSUME TypeOK, NEW t \in DOMAIN deposits, MarkFailed(t)
    PROVE  /\ DOMAIN deposits' = DOMAIN deposits
           /\ deposits' \in [DOMAIN deposits -> Deposit]
           /\ \A r \in DOMAIN deposits : deposits'[r].usd = deposits[r].usd
           /\ deposits'[t].status = "FAILED"
           /\ \A r \in DOMAIN deposits \ {t} : deposits'[r] = deposits[r]
           /\ credited' = credited
<1>1. "FAILED" \in DepositStatus /\ SetDepositStatus(t, "FAILED")
  BY DEF DepositStatus, MarkFailed
<1> QED
  BY <1>1, SetStatusStep DEF MarkFailed

\* Reconciling a PENDING deposit keeps the types.
LEMMA TypeReconcile ==
    ASSUME TypeInv, NEW w \in Workers, ReconcilePendingDeposit(w)
    PROVE  TypeInv'
<1> DEFINE t == TxOf(job[w])
<1>1. pc[w] = "reconcile" /\ pc[w] \in HoldsDeposit
  BY DEF ReconcilePendingDeposit, Refreshed, HoldsDeposit
<1>2. t \in DOMAIN deposits /\ t \in Tx /\ job[w] \in Job /\ job[w].auth \in Auths
      /\ job[w].price \in Prices /\ t.auth = job[w].auth
  BY <1>1, HeldDeposit
<1> HIDE DEF t
<1>3. CASE MarkFailed(t) /\ BeginAttempt(w, job[w])
  <2>1. DOMAIN deposits' = DOMAIN deposits /\ deposits' \in [DOMAIN deposits -> Deposit]
        /\ credited' = credited
    BY <1>2, <1>3, MarkFailedStep DEF TypeInv
  <2>2. pc' \in [Workers -> PCs] /\ job' \in [Workers -> Job] /\ JobOK'
    BY <1>2, <1>3, <2>1, BeginAttemptOK
  <2> QED
    BY <2>1, <2>2 DEF TypeInv, TypeOK, ReconcilePendingDeposit, Refreshed, chainVars
<1>4. CASE /\ MarkConfirmedAndCredit(t)
           /\ BeginAttempt(w, [job[w] EXCEPT !.row.credited = credited'[t.auth]])
  <2> DEFINE j == [job[w] EXCEPT !.row.credited = credited'[t.auth]]
  <2>1. DOMAIN deposits' = DOMAIN deposits /\ deposits' \in [DOMAIN deposits -> Deposit]
        /\ credited' \in [Auths -> Nat]
    BY <1>2, <1>4, MarkConfirmedStep DEF TypeInv
  <2>2. j \in Job /\ j.auth = job[w].auth /\ j.price = job[w].price
    BY <1>2, <2>1 DEF Job, Row
  <2> HIDE DEF j
  <2>3. BeginAttempt(w, j)
    BY <1>4 DEF j
  <2>4. pc' \in [Workers -> PCs] /\ job' \in [Workers -> Job] /\ JobOK'
    BY <1>2, <2>1, <2>2, <2>3, BeginAttemptOK
  <2> QED
    BY <2>1, <2>4 DEF TypeInv, TypeOK, ReconcilePendingDeposit, Refreshed, chainVars
<1>5. CASE GoTo(w, "expiry") /\ UNCHANGED <<credited, deposits, job>>
  <2>1. pc' \in [Workers -> PCs] /\ pc'[w] = "expiry"
        /\ \A v \in Workers \ {w} : pc'[v] = pc[v]
    BY <1>5 DEF TypeInv, TypeOK, GoTo, PCs
  <2>2. WorkerOK(w)'
    BY <1>2, <1>5 DEF WorkerOK, t, TxOf
  <2>3. JobOK'
    BY <1>5, <2>1, <2>2, OthersOK DEF TypeInv
  <2> QED
    BY <1>5, <2>1, <2>3 DEF TypeInv, TypeOK, ReconcilePendingDeposit, Refreshed, chainVars
<1> QED
  BY <1>3, <1>4, <1>5 DEF ReconcilePendingDeposit, Refreshed, t

\* Giving an expired deposit up, or waiting on, keeps the types.
LEMMA TypeExpiry ==
    ASSUME TypeInv, NEW w \in Workers, ReconcileExpiry(w)
    PROVE  TypeInv'
<1> DEFINE t == TxOf(job[w])
<1>1. pc[w] \in HoldsDeposit
  BY DEF ReconcileExpiry, HoldsDeposit
<1>2. t \in DOMAIN deposits /\ job[w] \in Job /\ job[w].auth \in Auths /\ job[w].price \in Prices
  BY <1>1, HeldDeposit
<1> HIDE DEF t
<1>3. CASE MarkFailed(t) /\ BeginAttempt(w, job[w])
  <2>1. DOMAIN deposits' = DOMAIN deposits /\ deposits' \in [DOMAIN deposits -> Deposit]
        /\ credited' = credited
    BY <1>2, <1>3, MarkFailedStep DEF TypeInv
  <2>2. pc' \in [Workers -> PCs] /\ job' \in [Workers -> Job] /\ JobOK'
    BY <1>2, <1>3, <2>1, BeginAttemptOK
  <2> QED
    BY <2>1, <2>2 DEF TypeInv, TypeOK, ReconcileExpiry, chainVars
<1>4. CASE FinishRow(w) /\ UNCHANGED <<credited, deposits>>
  <2>1. pc' \in [Workers -> PCs] /\ job' \in [Workers -> Job] /\ JobOK'
    BY <1>4, FinishRowOK
  <2> QED
    BY <1>4, <2>1 DEF TypeInv, TypeOK, ReconcileExpiry, chainVars
<1> QED
  BY <1>3, <1>4 DEF ReconcileExpiry, t

\* What a worker in the course of an attempt holds.
LEMMA HeldJob ==
    ASSUME TypeInv, NEW w \in Workers, pc[w] \in InSweepAsset
    PROVE  /\ job[w] \in Job /\ job[w].auth \in Auths /\ job[w].price \in Prices
           /\ job[w].price \in Price
           /\ TxOf(job[w]) \in Tx
BY SweepAssumption, TxOfType DEF TypeInv, TypeOK, JobOK, WorkerOK

\* Moving on inside sweepAsset with a job for the same authorization and price.
LEMMA AdvanceOK ==
    ASSUME TypeInv, NEW w \in Workers, NEW l \in PCs, NEW j \in Job,
           pc[w] \in InSweepAsset,
           j.auth = job[w].auth, j.price = job[w].price,
           GoTo(w, l), job' = [job EXCEPT ![w] = j],
           DOMAIN deposits \subseteq DOMAIN deposits',
           l \in HoldsDeposit => TxOf(j) \in DOMAIN deposits'
    PROVE  /\ pc' \in [Workers -> PCs]
           /\ job' \in [Workers -> Job]
           /\ JobOK'
<1>1. /\ pc' \in [Workers -> PCs] /\ job' \in [Workers -> Job]
      /\ pc'[w] = l /\ job'[w] = j
      /\ \A v \in Workers \ {w} : pc'[v] = pc[v] /\ job'[v] = job[v]
  BY WorkerStep DEF TypeInv, GoTo
<1>2. WorkerOK(w)'
  BY <1>1, HeldJob DEF WorkerOK, TxOf
<1> QED
  BY <1>1, <1>2, OthersOK DEF TypeInv

\* Synchronizing an account gives an account.
LEMMA SyncedType ==
    ASSUME NEW acc \in Account
    PROVE  Synced(acc) \in Account
<1>1. acc.balance + acc.unsynced \in Nat
  BY DEF Account
<1> QED
  BY <1>1 DEF Account, Synced

\* Moving no more than delegation and balance leaves an account.
LEMMA DebitedType ==
    ASSUME NEW acc \in Account, NEW n \in Nat, n <= acc.delegated, n <= acc.balance
    PROVE  Debited(acc, n) \in Account
<1>1. acc.delegated - n \in Nat /\ acc.balance - n \in Nat
  BY DEF Account
<1> QED
  BY <1>1 DEF Account, Debited

\* SyncNative keeps the types.
LEMMA TypeSyncNative ==
    ASSUME TypeInv, NEW w \in Workers, SyncNative(w)
    PROVE  TypeInv'
<1>1. pc[w] \in InSweepAsset /\ "account" \in PCs /\ "account" \notin HoldsDeposit
  BY DEF SyncNative, InSweepAsset, PCs, HoldsDeposit
<1>2. account' \in [Auths -> Account]
  <2> DEFINE a == job[w].auth
             acc == Synced(account[a])
  <2>1. a \in Auths /\ account[a] \in Account
    BY <1>1, HeldJob DEF TypeInv, TypeOK
  <2>2. acc \in Account
    BY <2>1, SyncedType
  <2>3. account' = account \/ account' = [account EXCEPT ![a] = acc]
    BY DEF SyncNative, SyncEffect
  <2> HIDE DEF acc, a
  <2> QED
    BY <2>1, <2>2, <2>3 DEF TypeInv, TypeOK
<1>3. job[w] \in Job /\ job = [job EXCEPT ![w] = job[w]]
  BY DEF TypeInv, TypeOK
<1>4. DOMAIN deposits \subseteq DOMAIN deposits'
  BY DEF SyncNative, dbVars
<1>5. pc' \in [Workers -> PCs] /\ job' \in [Workers -> Job] /\ JobOK'
  <2>1. CASE GoTo(w, "account") /\ UNCHANGED job
    BY <1>1, <1>3, <1>4, <2>1, AdvanceOK
  <2>2. CASE FinishRow(w)
    BY <1>4, <2>2, FinishRowOK
  <2> QED
    BY <2>1, <2>2 DEF SyncNative
<1> QED
  BY <1>2, <1>5 DEF TypeInv, TypeOK, SyncNative, dbVars

\* Sizing a sweep keeps the types.
LEMMA TypeReadAccount ==
    ASSUME TypeInv, NEW w \in Workers, ReadAccount(w)
    PROVE  TypeInv'
<1> DEFINE headroom == ComputeAssetHeadroomUsdMicros(job[w].row.credited, AssetCap)
           amount == ComputeSweepAmountNative(account[job[w].auth].delegated,
                                              account[job[w].auth].balance,
                                              headroom, job[w].price)
<1>1. pc[w] \in InSweepAsset /\ "blockhash" \in PCs /\ "blockhash" \notin HoldsDeposit
  BY DEF ReadAccount, InSweepAsset, PCs, HoldsDeposit
<1>2. job[w] \in Job /\ job[w].auth \in Auths /\ job[w].price \in Price
  BY <1>1, HeldJob
<1>3. headroom \in Nat
  BY <1>2, SweepAssumption DEF Job, Row, ComputeAssetHeadroomUsdMicros
<1>4. account[job[w].auth].delegated \in Nat /\ account[job[w].auth].balance \in Nat
  BY <1>2 DEF TypeInv, TypeOK, Account
<1> HIDE DEF headroom
<1>5. amount \in Nat
  BY <1>2, <1>3, <1>4, SweepAmountType
<1>6. DOMAIN deposits \subseteq DOMAIN deposits'
  BY DEF ReadAccount, dbVars
<1>7. CASE GoTo(w, "blockhash") /\ job' = [job EXCEPT ![w].amount = amount]
  <2> DEFINE j == [job[w] EXCEPT !.amount = amount]
  <2> HIDE DEF amount
  <2>1. j \in Job /\ j.auth = job[w].auth /\ j.price = job[w].price
    BY <1>2, <1>5 DEF Job
  <2>2. job' = [job EXCEPT ![w] = j]
    BY <1>7
  <2> HIDE DEF j
  <2>3. pc' \in [Workers -> PCs] /\ job' \in [Workers -> Job] /\ JobOK'
    BY <1>1, <1>6, <1>7, <2>1, <2>2, AdvanceOK
  <2> QED
    BY <2>3 DEF TypeInv, TypeOK, ReadAccount, dbVars, chainVars
<1>8. CASE FinishRow(w)
  <2>1. pc' \in [Workers -> PCs] /\ job' \in [Workers -> Job] /\ JobOK'
    BY <1>6, <1>8, FinishRowOK
  <2> QED
    BY <2>1 DEF TypeInv, TypeOK, ReadAccount, dbVars, chainVars
<1> QED
  BY <1>7, <1>8 DEF ReadAccount, headroom, amount

\* Building the transfer keeps the types.
LEMMA TypeGetLatestBlockhash ==
    ASSUME TypeInv, NEW w \in Workers, GetLatestBlockhash(w)
    PROVE  TypeInv'
<1> DEFINE j == [job[w] EXCEPT !.lvbh = height + Validity]
<1>1. pc[w] \in InSweepAsset /\ "reserve" \in PCs /\ "reserve" \notin HoldsDeposit
  BY DEF GetLatestBlockhash, InSweepAsset, PCs, HoldsDeposit
<1>2. job[w] \in Job
  BY <1>1, HeldJob
<1>3. j \in Job /\ j.auth = job[w].auth /\ j.price = job[w].price
  <2>1. Validity \in Nat
    BY SweepAssumption
  <2>2. height + Validity \in Nat
    BY <2>1 DEF TypeInv, TypeOK
  <2> QED
    BY <1>2, <2>2 DEF Job
<1>4. job' = [job EXCEPT ![w] = j]
  BY DEF GetLatestBlockhash
<1> HIDE DEF j
<1>5. pc' \in [Workers -> PCs] /\ job' \in [Workers -> Job] /\ JobOK'
  BY <1>1, <1>3, <1>4, AdvanceOK DEF GetLatestBlockhash, dbVars
<1> QED
  BY <1>5 DEF TypeInv, TypeOK, GetLatestBlockhash, dbVars, chainVars

\* The value a reservation records is a natural number.
LEMMA ValueType ==
    ASSUME NEW n \in Nat, NEW p \in Price
    PROVE  ComputeCreditedUsdMicros(n, p) \in Nat
<1>1. p.num \in Nat /\ p.den \in Nat \ {0}
  BY DEF Price
<1> DEFINE x == n * p.num
<1>2. x \in Nat
  BY <1>1, SMT
<1> HIDE DEF x
<1>3. x \div p.den \in Nat
  BY <1>1, <1>2, DivNat
<1> QED
  BY <1>3 DEF x, ComputeCreditedUsdMicros, ComputeUsdValueMicros

\* Writing the PENDING row, or losing the race for it, keeps the types.
LEMMA TypeReserve ==
    ASSUME TypeInv, NEW w \in Workers, Reserve(w)
    PROVE  TypeInv'
<1> DEFINE t == TxOf(job[w])
           usd == ComputeCreditedUsdMicros(t.amount, job[w].price)
<1>1. pc[w] \in InSweepAsset /\ "send" \in PCs
  BY DEF Reserve, InSweepAsset, PCs
<1>2. job[w] \in Job /\ job[w].price \in Price /\ t \in Tx
  BY <1>1, HeldJob
<1>3. usd \in Nat
  BY <1>2, ValueType DEF Tx
<1>4. CASE /\ t \notin DOMAIN deposits
           /\ InsertPending(t, usd)
           /\ GoTo(w, "send")
           /\ UNCHANGED job
  <2>1. DOMAIN deposits' = DOMAIN deposits \cup {t} /\ deposits' \in [DOMAIN deposits' -> Deposit]
    BY <1>2, <1>3, <1>4, InsertPendingStep DEF TypeInv
  <2>2. job' = [job EXCEPT ![w] = job[w]]
    BY <1>4 DEF TypeInv, TypeOK
  <2>3. pc' \in [Workers -> PCs] /\ job' \in [Workers -> Job] /\ JobOK'
    BY <1>1, <1>2, <1>4, <2>1, <2>2, AdvanceOK
  <2>4. DOMAIN deposits' \subseteq Tx
    BY <1>2, <2>1 DEF TypeInv, TypeOK
  <2> QED
    BY <2>1, <2>3, <2>4 DEF TypeInv, TypeOK, Reserve, chainVars
<1>5. CASE FinishRow(w) /\ UNCHANGED deposits
  <2>1. pc' \in [Workers -> PCs] /\ job' \in [Workers -> Job] /\ JobOK'
    BY <1>5, FinishRowOK
  <2> QED
    BY <1>5, <2>1 DEF TypeInv, TypeOK, Reserve, chainVars
<1> QED
  BY <1>4, <1>5 DEF Reserve

\* Broadcasting the reserved transfer keeps the types.
LEMMA TypeSend ==
    ASSUME TypeInv, NEW w \in Workers, Send(w)
    PROVE  TypeInv'
<1> DEFINE t == TxOf(job[w])
<1>1. pc[w] \in InSweepAsset /\ pc[w] \in HoldsDeposit /\ {"confirm", "catch"} \subseteq PCs
  BY DEF Send, InSweepAsset, PCs, HoldsDeposit
<1>2. t \in Tx /\ t \in DOMAIN deposits /\ job[w] \in Job
  BY <1>1, HeldDeposit
<1>3. PICK l \in {"confirm", "catch"} : GoTo(w, l)
  BY DEF Send
<1>4. job' = [job EXCEPT ![w] = job[w]] /\ deposits' = deposits
  BY DEF TypeInv, TypeOK, Send, dbVars
<1>5. pc' \in [Workers -> PCs] /\ job' \in [Workers -> Job] /\ JobOK'
  BY <1>1, <1>2, <1>3, <1>4, AdvanceOK
<1>6. /\ DOMAIN txs' \subseteq Tx
      /\ txs' \in [DOMAIN txs' -> [state : {"inflight", "ok", "err"}, final : BOOLEAN]]
  <2> DEFINE T == [state : {"inflight", "ok", "err"}, final : BOOLEAN]
             new == [s \in DOMAIN txs \cup {t} |->
                        IF s = t THEN [state |-> "inflight", final |-> FALSE] ELSE txs[s]]
  <2>1. [state |-> "inflight", final |-> FALSE] \in T
    OBVIOUS
  <2>2. DOMAIN txs \subseteq Tx /\ txs \in [DOMAIN txs -> T]
    BY DEF TypeInv, TypeOK
  <2>3. txs' = txs \/ txs' = new
    BY DEF Send
  <2> HIDE DEF T, t
  <2>4. DOMAIN new = DOMAIN txs \cup {t} /\ new \in [DOMAIN new -> T]
    BY <2>1, <2>2
  <2> HIDE DEF new
  <2>5. DOMAIN txs' \subseteq Tx /\ txs' \in [DOMAIN txs' -> T]
    BY <1>2, <2>2, <2>3, <2>4
  <2> QED
    BY <2>5 DEF T
<1> QED
  BY <1>5, <1>6 DEF TypeInv, TypeOK, Send, dbVars

\* A confirmation that resolves keeps the types.
LEMMA TypeConfirmTransaction ==
    ASSUME TypeInv, NEW w \in Workers, ConfirmTransaction(w)
    PROVE  TypeInv'
<1> DEFINE t == TxOf(job[w])
<1>1. t \in DOMAIN deposits
  BY HeldDeposit DEF ConfirmTransaction, HoldsDeposit
<1>2. DOMAIN deposits' = DOMAIN deposits /\ deposits' \in [DOMAIN deposits -> Deposit]
      /\ credited' \in [Auths -> Nat]
  BY <1>1, MarkConfirmedStep DEF ConfirmTransaction, TypeInv
<1>3. pc' \in [Workers -> PCs] /\ job' \in [Workers -> Job] /\ JobOK'
  BY <1>2, FinishRowOK DEF ConfirmTransaction
<1> QED
  BY <1>2, <1>3 DEF TypeInv, TypeOK, ConfirmTransaction, chainVars

\* A confirmation that throws keeps the types.
LEMMA TypeConfirmThrows ==
    ASSUME TypeInv, NEW w \in Workers, ConfirmThrows(w)
    PROVE  TypeInv'
<1>1. pc[w] \in InSweepAsset /\ pc[w] \in HoldsDeposit /\ "catch" \in PCs
  BY DEF ConfirmThrows, InSweepAsset, PCs, HoldsDeposit
<1>2. job' = [job EXCEPT ![w] = job[w]] /\ job[w] \in Job /\ deposits' = deposits
  BY DEF TypeInv, TypeOK, ConfirmThrows, dbVars
<1>3. pc' \in [Workers -> PCs] /\ job' \in [Workers -> Job] /\ JobOK'
  BY <1>1, <1>2, HeldDeposit, AdvanceOK DEF ConfirmThrows
<1> QED
  BY <1>3 DEF TypeInv, TypeOK, ConfirmThrows, dbVars, chainVars

\* The status read of the catch block keeps the types.
LEMMA TypeCatchStatus ==
    ASSUME TypeInv, NEW w \in Workers, CatchStatus(w)
    PROVE  TypeInv'
<1> DEFINE t == TxOf(job[w])
<1>1. t \in DOMAIN deposits
  BY HeldDeposit DEF CatchStatus, HoldsDeposit
<1>2. DOMAIN deposits' = DOMAIN deposits /\ deposits' \in [DOMAIN deposits -> Deposit]
      /\ credited' \in [Auths -> Nat]
  <2>1. CASE MarkConfirmedAndCredit(t)
    BY <1>1, <2>1, MarkConfirmedStep DEF TypeInv
  <2>2. CASE MarkFailed(t)
    BY <1>1, <2>2, MarkFailedStep DEF TypeInv, TypeOK
  <2>3. CASE UNCHANGED <<credited, deposits>>
    BY <2>3 DEF TypeInv, TypeOK
  <2> QED
    BY <2>1, <2>2, <2>3 DEF CatchStatus
<1>3. pc' \in [Workers -> PCs] /\ job' \in [Workers -> Job] /\ JobOK'
  BY <1>2, FinishRowOK DEF CatchStatus
<1> QED
  BY <1>2, <1>3 DEF TypeInv, TypeOK, CatchStatus, chainVars

\* An await that throws keeps the types.
LEMMA TypeRpcThrows ==
    ASSUME TypeInv, NEW w \in Workers, RpcThrows(w)
    PROVE  TypeInv'
<1>1. pc' \in [Workers -> PCs] /\ job' \in [Workers -> Job] /\ JobOK'
  BY FinishRowOK DEF RpcThrows, dbVars
<1> QED
  BY <1>1 DEF TypeInv, TypeOK, RpcThrows, dbVars, chainVars

\* The three steps of finalityPass keep the types.
LEMMA TypeFinality ==
    ASSUME TypeInv, NEW w \in Workers,
           \/ StartFinalityPass(w)
           \/ \E t \in confirmed[w] : FinalityStatus(w, t)
           \/ EndFinalityPass(w)
    PROVE  TypeInv'
<1>1. CASE StartFinalityPass(w)
  <2>1. "finality" \in PCs /\ "finality" \notin InSweepAsset /\ "finality" \notin HoldsDeposit
    BY DEF PCs, InSweepAsset, HoldsDeposit
  <2>2. /\ pc' \in [Workers -> PCs] /\ pc'[w] = "finality"
        /\ \A v \in Workers \ {w} : pc'[v] = pc[v]
    BY <1>1, <2>1 DEF TypeInv, TypeOK, StartFinalityPass, GoTo
  <2>3. JobOK'
    BY <1>1, <2>1, <2>2, OthersOK DEF TypeInv, WorkerOK, StartFinalityPass, dbVars
  <2>4. confirmed' \in [Workers -> SUBSET Tx]
    BY <1>1 DEF TypeInv, TypeOK, StartFinalityPass
  <2> QED
    BY <1>1, <2>2, <2>3, <2>4 DEF TypeInv, TypeOK, StartFinalityPass, dbVars, chainVars
<1>2. ASSUME NEW t \in confirmed[w], FinalityStatus(w, t) PROVE TypeInv'
  <2>1. DOMAIN deposits' = DOMAIN deposits /\ deposits' \in [DOMAIN deposits -> Deposit]
    <3>1. deposits' = deposits \/ deposits' = [deposits EXCEPT ![t].status = "FINALIZED"]
      BY <1>2 DEF FinalityStatus, SetDepositStatus
    <3>2. CASE t \in DOMAIN deposits
      <4>1. "FINALIZED" \in DepositStatus
        BY DEF DepositStatus
      <4> QED
        BY <3>1, <3>2, <4>1, SetStatusStep DEF TypeInv, TypeOK, SetDepositStatus
    <3>3. CASE t \notin DOMAIN deposits
      BY <3>1, <3>3 DEF TypeInv, TypeOK
    <3> QED
      BY <3>2, <3>3
  <2>2. JobOK'
    BY <1>2, <2>1 DEF TypeInv, JobOK, WorkerOK, TxOf, FinalityStatus
  <2>3. confirmed' \in [Workers -> SUBSET Tx]
    BY <1>2 DEF TypeInv, TypeOK, FinalityStatus
  <2> QED
    BY <1>2, <2>1, <2>2, <2>3 DEF TypeInv, TypeOK, FinalityStatus, chainVars
<1>3. CASE EndFinalityPass(w)
  <2>1. "sleep" \in PCs /\ "sleep" \notin InSweepAsset /\ "sleep" \notin HoldsDeposit
    BY DEF PCs, InSweepAsset, HoldsDeposit
  <2>2. /\ pc' \in [Workers -> PCs] /\ pc'[w] = "sleep"
        /\ \A v \in Workers \ {w} : pc'[v] = pc[v]
    BY <1>3, <2>1 DEF TypeInv, TypeOK, EndFinalityPass, GoTo
  <2>3. JobOK'
    BY <1>3, <2>1, <2>2, OthersOK DEF TypeInv, WorkerOK, EndFinalityPass, dbVars
  <2>4. confirmed' \in [Workers -> SUBSET Tx]
    BY <1>3 DEF TypeInv, TypeOK, EndFinalityPass
  <2> QED
    BY <1>3, <2>2, <2>3, <2>4 DEF TypeInv, TypeOK, EndFinalityPass, dbVars, chainVars
<1> QED
  BY <1>1, <1>2, <1>3

\* A crash and restart keeps the types.
LEMMA TypeCrash ==
    ASSUME TypeInv, NEW w \in Workers, Crash(w)
    PROVE  TypeInv'
<1>1. "sleep" \in PCs /\ "sleep" \notin InSweepAsset /\ "sleep" \notin HoldsDeposit
  BY DEF PCs, InSweepAsset, HoldsDeposit
<1>2. /\ pc' \in [Workers -> PCs] /\ job' \in [Workers -> Job] /\ pc'[w] = "sleep"
      /\ \A v \in Workers \ {w} : pc'[v] = pc[v] /\ job'[v] = job[v]
  BY <1>1, WorkerStep, NoJobType DEF TypeInv, Crash, GoTo
<1>3. JobOK'
  BY <1>1, <1>2, OthersOK DEF TypeInv, WorkerOK, Crash, dbVars
<1>4. /\ todo' \in [Workers -> SUBSET Auths] /\ rows' \in [Workers -> [Auths -> Row]]
      /\ confirmed' \in [Workers -> SUBSET Tx]
  BY NoJobType DEF TypeInv, TypeOK, Crash
<1> QED
  BY <1>2, <1>3, <1>4 DEF TypeInv, TypeOK, Crash, dbVars, chainVars

\* The handlers, the chain and the client leave workers and deposits alone.
LEMMA JobOKFrame ==
    ASSUME JobOK, UNCHANGED <<workerVars, deposits>>
    PROVE  JobOK'
BY DEF JobOK, WorkerOK, workerVars, TxOf

\* The request handlers and the passing of the delay keep the types.
LEMMA TypeHandlers ==
    ASSUME TypeInv, Handlers
    PROVE  TypeInv'
<1>1. PICK a \in Auths :
        \/ VerifyApproval(a) \/ RecordReapproval(a) \/ VerifyRevocation(a)
        \/ RecordRevocation(a) \/ DelayElapses(a)
  BY DEF Handlers
<1>2. JobOK'
  BY <1>1, JobOKFrame DEF TypeInv, VerifyApproval, RecordReapproval,
     VerifyRevocation, RecordRevocation, DelayElapses
<1>3. CASE VerifyApproval(a) \/ VerifyRevocation(a)
  BY <1>2, <1>3 DEF TypeInv, TypeOK, VerifyApproval, VerifyRevocation, workerVars, chainVars
<1>4. CASE RecordReapproval(a) \/ RecordRevocation(a)
  <2>1. /\ status' \in [Auths -> {"ACTIVE", "REVOKED"}]
        /\ request' \in [Auths -> {"none", "approved", "revoked"}]
    BY <1>4 DEF TypeInv, TypeOK, RecordReapproval, RecordRevocation
  <2>2. approvals' \in [Auths -> Nat]
    <3>1. \/ approvals' = [approvals EXCEPT ![a] = @ + 1]
          \/ approvals' = approvals
      BY <1>4 DEF RecordReapproval, RecordRevocation
    <3> QED
      BY <3>1 DEF TypeInv, TypeOK
  <2> QED
    BY <1>2, <1>4, <2>1, <2>2
       DEF TypeInv, TypeOK, RecordReapproval, RecordRevocation, workerVars, chainVars
<1>5. CASE DelayElapses(a)
  BY <1>2, <1>5 DEF TypeInv, TypeOK, DelayElapses, workerVars, chainVars
<1> QED
  BY <1>1, <1>3, <1>4, <1>5

\* Inclusion, finality and new blocks keep the types.
LEMMA TypeChain ==
    ASSUME TypeInv, Chain
    PROVE  TypeInv'
<1>1. ASSUME NEW t \in DOMAIN txs, Land(t) PROVE TypeInv'
  <2>1. t \in Tx /\ t.auth \in Auths /\ t.amount \in Nat
    BY DEF TypeInv, TypeOK, Tx
  <2>2. account' \in [Auths -> Account]
    <3>1. CASE UNCHANGED account
      BY <3>1 DEF TypeInv, TypeOK
    <3>2. CASE ~ UNCHANGED account
      <4> DEFINE acc == Debited(account[t.auth], t.amount)
      <4>1. account[t.auth] \in Account
        BY <2>1 DEF TypeInv, TypeOK
      <4>2. acc \in Account
        BY <1>1, <2>1, <3>2, <4>1, DebitedType DEF Land
      <4>3. account' = [account EXCEPT ![t.auth] = acc]
        BY <1>1, <3>2 DEF Land
      <4> HIDE DEF acc
      <4> QED
        BY <4>2, <4>3 DEF TypeInv, TypeOK
    <3> QED
      BY <3>1, <3>2
  <2>3. DOMAIN txs' = DOMAIN txs /\ txs' \in [DOMAIN txs -> [state : {"inflight", "ok", "err"}, final : BOOLEAN]]
    <3>1. \/ txs' = [txs EXCEPT ![t].state = "ok"]
          \/ txs' = [txs EXCEPT ![t].state = "err"]
      BY <1>1 DEF Land
    <3> QED
      BY <3>1 DEF TypeInv, TypeOK
  <2>4. JobOK'
    BY <1>1, JobOKFrame DEF TypeInv, Land, dbVars
  <2> QED
    BY <1>1, <2>2, <2>3, <2>4 DEF TypeInv, TypeOK, Land, dbVars, workerVars
<1>2. ASSUME NEW t \in DOMAIN txs, Finalize(t) PROVE TypeInv'
  <2>1. DOMAIN txs' = DOMAIN txs /\ txs' \in [DOMAIN txs -> [state : {"inflight", "ok", "err"}, final : BOOLEAN]]
    BY <1>2 DEF TypeInv, TypeOK, Finalize
  <2>2. JobOK'
    BY <1>2, JobOKFrame DEF TypeInv, Finalize, dbVars
  <2> QED
    BY <1>2, <2>1, <2>2 DEF TypeInv, TypeOK, Finalize, dbVars, workerVars
<1>3. CASE NewBlock
  <2>1. JobOK'
    BY <1>3, JobOKFrame DEF TypeInv, NewBlock, dbVars
  <2> QED
    BY <1>3, <2>1 DEF TypeInv, TypeOK, NewBlock, dbVars, workerVars
<1> QED
  BY <1>1, <1>2, <1>3 DEF Chain

\* What the client does to its accounts keeps the types.
LEMMA TypeClient ==
    ASSUME TypeInv, Client
    PROVE  TypeInv'
<1>1. ASSUME NEW a \in Auths, NEW acc \in Account, SetAccount(a, acc)
      PROVE  TypeInv'
  <2>1. JobOK'
    BY <1>1, JobOKFrame DEF TypeInv, SetAccount, dbVars
  <2> QED
    BY <1>1, <2>1 DEF TypeInv, TypeOK, SetAccount, dbVars, workerVars
<1>2. PICK a \in Auths : Approve(a) \/ Revoke(a) \/ TopUp(a) \/ Spend(a) \/ SyncLands(a)
  BY DEF Client
<1>3. account[a] \in Account
  BY DEF TypeInv, TypeOK
<1>4. CASE Approve(a)
  <2>1. PICK n \in Delegations : SetAccount(a, [account[a] EXCEPT !.delegated = n])
    BY <1>4 DEF Approve
  <2>2. [account[a] EXCEPT !.delegated = n] \in Account
    BY <1>3, SweepAssumption DEF Account
  <2> QED
    BY <1>1, <2>1, <2>2
<1>5. CASE Revoke(a)
  <2>1. [account[a] EXCEPT !.delegated = 0] \in Account
    BY <1>3 DEF Account
  <2> QED
    BY <1>1, <1>5, <2>1 DEF Revoke
<1>6. CASE TopUp(a)
  <2>1. [account[a] EXCEPT !.unsynced = @ + 1] \in Account
    BY <1>3 DEF Account
  <2>2. [account[a] EXCEPT !.balance = @ + 1] \in Account
    BY <1>3 DEF Account
  <2> QED
    BY <1>1, <1>6, <2>1, <2>2 DEF TopUp
<1>7. CASE Spend(a)
  <2>1. [account[a] EXCEPT !.balance = @ - 1] \in Account
    BY <1>3, <1>7 DEF Account, Spend
  <2> QED
    BY <1>1, <1>7, <2>1 DEF Spend
<1>8. CASE SyncLands(a)
  BY <1>1, <1>3, <1>8, SyncedType DEF SyncLands
<1> QED
  BY <1>2, <1>4, <1>5, <1>6, <1>7, <1>8

\* TypeInv is inductive: every step keeps it.
LEMMA TypeStep == TypeInv /\ [Next]_vars => TypeInv'
<1> SUFFICES ASSUME TypeInv, [Next]_vars PROVE TypeInv'
  OBVIOUS
<1>1. ASSUME NEW w \in Workers, Work(w) PROVE TypeInv'
  BY <1>1, TypeStartPass, TypeSkipRow, TypeAbortPass, TypeSweepAsset,
     TypeReconcile, TypeExpiry, TypeSyncNative, TypeReadAccount,
     TypeGetLatestBlockhash, TypeReserve, TypeSend, TypeConfirmTransaction,
     TypeConfirmThrows, TypeCatchStatus, TypeRpcThrows, TypeFinality DEF Work
<1>2. CASE UNCHANGED vars
  <2>1. JobOK'
    BY <1>2, JobOKFrame DEF TypeInv, vars, dbVars
  <2> QED
    BY <1>2, <2>1 DEF TypeInv, TypeOK, vars, dbVars, chainVars, workerVars
<1> QED
  BY <1>1, <1>2, TypeCrash, TypeHandlers, TypeChain, TypeClient DEF Next

\* Every variable keeps its type in every behaviour, for any number of workers.
THEOREM TypeCorrect == Spec => []TypeOK
<1>1. Spec => []TypeInv
  BY InitType, TypeStep, PTL DEF Spec
<1>2. TypeInv => TypeOK
  BY DEF TypeInv
<1> QED
  BY <1>1, <1>2, PTL

(***************************************************************************)
(* One pending deposit per authorization, and no transfer that can still   *)
(* move tokens without one, for any number of workers and authorizations.  *)
(*                                                                         *)
(* Both rest on the order in sweepAsset: the PENDING row is written before *)
(* the transfer is sent, a row leaves PENDING only when the chain has      *)
(* answered for its transfer or can no longer include it, and no transfer  *)
(* is sent twice.                                                          *)
(***************************************************************************)
Pending(t) == t \in DOMAIN deposits /\ deposits[t].status = "PENDING"

Landed(t) == t \in DOMAIN txs /\ txs[t].state \in {"ok", "err"}

\* What a worker about to send holds: a transfer the cluster has never seen,
\* whose row is PENDING for as long as the transfer could be included.
SenderOK(w) ==
    pc[w] = "send" =>
        /\ TxOf(job[w]) \notin DOMAIN txs
        /\ height <= job[w].lvbh => Pending(TxOf(job[w]))

SendersOK ==
    /\ \A w \in Workers : SenderOK(w)
    /\ \A v, w \in Workers :
          pc[v] = "send" /\ pc[w] = "send" /\ TxOf(job[v]) = TxOf(job[w]) => v = w

FinalHasLanded == \A t \in DOMAIN txs : txs[t].final => Landed(t)

UniquePending == \A t, u \in Tx : Pending(t) /\ Pending(u) /\ t.auth = u.auth => t = u

LiveInv ==
    /\ TypeInv
    /\ LiveTransferIsPending
    /\ FinalHasLanded
    /\ SendersOK
    /\ UniquePending

(***************************************************************************)
(* Every step is one of six kinds, as far as LiveInv can tell.             *)
(***************************************************************************)

\* No worker becomes a sender, and those who remain hold what they held.
SendersKept == \A v \in Workers : pc'[v] = "send" => pc[v] = "send" /\ job'[v] = job[v]

Quiet == UNCHANGED <<deposits, txs, height>> /\ SendersKept

\* A row leaves PENDING, its transfer having landed or expired.
Settles(t) ==
    /\ t \in DOMAIN deposits
    /\ \E s \in {"CONFIRMED", "FAILED", "FINALIZED"} : SetDepositStatus(t, s)
    /\ Landed(t) \/ height > t.lvbh
    /\ UNCHANGED <<txs, height>> /\ SendersKept

Reserves(w) ==
    /\ TxOf(job[w]) \notin DOMAIN deposits
    /\ PendingOf(job[w].auth) = {}
    /\ TxOf(job[w]) \in Tx
    /\ \E usd \in Nat : InsertPending(TxOf(job[w]), usd)
    /\ pc' = [pc EXCEPT ![w] = "send"]
    /\ UNCHANGED <<txs, height, job>>

Sends(w) ==
    /\ pc[w] = "send"
    /\ txs' = [s \in DOMAIN txs \cup {TxOf(job[w])} |->
                  IF s = TxOf(job[w]) THEN [state |-> "inflight", final |-> FALSE]
                                      ELSE txs[s]]
    /\ pc'[w] # "send"
    /\ SendersKept
    /\ UNCHANGED <<deposits, height, job>>

Answers ==
    /\ DOMAIN txs' = DOMAIN txs
    /\ \A t \in DOMAIN txs :
          \/ txs'[t] = txs[t]
          \/ txs'[t].state \in {"ok", "err"}
    /\ UNCHANGED <<deposits, height, pc, job>>

Ticks == height' = height + 1 /\ UNCHANGED <<deposits, txs, pc, job>>

LiveStep ==
    \/ Quiet
    \/ \E t \in Tx : Settles(t)
    \/ \E w \in Workers : Reserves(w) \/ Sends(w)
    \/ Answers
    \/ Ticks

\* The worker goes on to an await that is not the send.
LEMMA MovesOn ==
    ASSUME TypeOK, NEW w \in Workers, NEW l, l # "send",
           pc' = [pc EXCEPT ![w] = l],
           \A v \in Workers \ {w} : job'[v] = job[v]
    PROVE  SendersKept
BY DEF TypeOK, SendersKept

\* A call of sweepAsset that is over leaves every sender where it is.
LEMMA FinishKeepsSenders ==
    ASSUME TypeOK, NEW w \in Workers, FinishRow(w)
    PROVE  SendersKept
<1>1. "next" # "send"
  OBVIOUS
<1>2. \A v \in Workers \ {w} : job'[v] = job[v]
  BY DEF FinishRow, TypeOK
<1> QED
  BY <1>1, <1>2, MovesOn DEF FinishRow, GoTo

\* So does the part of sweepAsset that begins an attempt.
LEMMA BeginKeepsSenders ==
    ASSUME TypeOK, NEW w \in Workers, NEW j, BeginAttempt(w, j)
    PROVE  SendersKept
<1>1. CASE FinishRow(w)
  BY <1>1, FinishKeepsSenders
<1>2. CASE /\ GoTo(w, IF j.auth \in SolAuths THEN "sync" ELSE "account")
           /\ job' = [job EXCEPT ![w] = j]
  <2> DEFINE l == IF j.auth \in SolAuths THEN "sync" ELSE "account"
  <2>1. l # "send"
    OBVIOUS
  <2>2. pc' = [pc EXCEPT ![w] = l]
    BY <1>2 DEF GoTo
  <2>3. \A v \in Workers \ {w} : job'[v] = job[v]
    BY <1>2 DEF TypeOK
  <2> HIDE DEF l
  <2> QED
    BY <2>1, <2>2, <2>3, MovesOn
<1> QED
  BY <1>1, <1>2 DEF BeginAttempt

\* What getSignatureStatus says of a transfer the chain has answered for.
LEMMA AnsweredHasLanded ==
    ASSUME NEW t, ChainStatus(t) \in {"ok", "err"}
    PROVE  Landed(t)
BY DEF ChainStatus, Landed

\* Confirming and failing a deposit both take it out of PENDING.
LEMMA MarkSets ==
    ASSUME NEW t, MarkFailed(t) \/ MarkConfirmedAndCredit(t)
    PROVE  \E s \in {"CONFIRMED", "FAILED", "FINALIZED"} : SetDepositStatus(t, s)
BY DEF MarkFailed, MarkConfirmedAndCredit

\* The steps of the passes touch neither rows, nor transfers, nor senders.
LEMMA StartStepKind ==
    ASSUME LiveInv, NEW w \in Workers,
           \/ StartPass(w) \/ AbortPass(w) \/ StartFinalityPass(w)
           \/ EndFinalityPass(w) \/ RpcThrows(w) \/ Crash(w)
           \/ \E a \in Auths : SkipRow(w, a)
    PROVE  Quiet
<1>0. TypeOK
  BY DEF LiveInv, TypeInv
<1>1. UNCHANGED <<deposits, txs, height>>
  BY DEF StartPass, AbortPass, StartFinalityPass, EndFinalityPass, RpcThrows, Crash,
         SkipRow, dbVars, chainVars
<1>2. CASE StartPass(w) \/ StartFinalityPass(w) \/ EndFinalityPass(w)
  BY <1>0, <1>1, <1>2
     DEF StartPass, StartFinalityPass, EndFinalityPass, GoTo, Quiet, SendersKept, TypeOK
<1>3. CASE AbortPass(w) \/ \E a \in Auths : SkipRow(w, a)
  BY <1>1, <1>3 DEF AbortPass, SkipRow, Quiet, SendersKept
<1>4. CASE RpcThrows(w)
  BY <1>0, <1>1, <1>4, FinishKeepsSenders DEF RpcThrows, Quiet
<1>5. CASE Crash(w)
  BY <1>0, <1>1, <1>5 DEF Crash, GoTo, Quiet, SendersKept, TypeOK
<1> QED
  BY <1>2, <1>3, <1>4, <1>5

\* Calling sweepAsset only looks whether a deposit is PENDING.
LEMMA SweepAssetKind ==
    ASSUME LiveInv, NEW w \in Workers, NEW a \in Auths, NEW p \in Prices,
           SweepAsset(w, a, p)
    PROVE  Quiet
<1> DEFINE j == [NoJob EXCEPT !.auth = a, !.row = rows[w][a], !.price = p]
<1>0. TypeOK
  BY DEF LiveInv, TypeInv
<1>1. UNCHANGED <<deposits, txs, height>>
  BY DEF SweepAsset, dbVars, chainVars
<1>2. CASE BeginAttempt(w, j)
  BY <1>0, <1>1, <1>2, BeginKeepsSenders DEF Quiet
<1>3. ASSUME NEW k, GoTo(w, "reconcile"), job' = [job EXCEPT ![w] = k]
      PROVE  Quiet
  BY <1>0, <1>1, <1>3 DEF GoTo, Quiet, SendersKept, TypeOK
<1> HIDE DEF j
<1>4. \/ BeginAttempt(w, j)
      \/ \E t \in PendingOf(a) :
            /\ GoTo(w, "reconcile")
            /\ job' = [job EXCEPT ![w] = [j EXCEPT !.amount = t.amount, !.lvbh = t.lvbh]]
  BY DEF SweepAsset, j
<1> QED
  BY <1>2, <1>3, <1>4

\* reconcilePendingDeposit settles a deposit on the answer of the chain.
LEMMA ReconcileKind ==
    ASSUME LiveInv, NEW w \in Workers, ReconcilePendingDeposit(w)
    PROVE  Quiet \/ \E t \in Tx : Settles(t)
<1> DEFINE t == TxOf(job[w])
<1>0. TypeOK /\ UNCHANGED <<txs, height>>
  BY DEF LiveInv, TypeInv, ReconcilePendingDeposit, Refreshed, chainVars
<1>1. t \in DOMAIN deposits /\ t \in Tx
  BY HeldDeposit DEF LiveInv, ReconcilePendingDeposit, Refreshed, HoldsDeposit
<1>2. ASSUME NEW j, MarkFailed(t) \/ MarkConfirmedAndCredit(t), BeginAttempt(w, j),
             ChainStatus(t) \in {"ok", "err"}
      PROVE  Settles(t)
  <2> HIDE DEF t
  <2> QED
    BY <1>0, <1>1, <1>2, MarkSets, BeginKeepsSenders, AnsweredHasLanded DEF Settles
<1>3. CASE GoTo(w, "expiry") /\ UNCHANGED <<credited, deposits, job>>
  BY <1>0, <1>3 DEF GoTo, Quiet, SendersKept, TypeOK
<1> HIDE DEF t
<1>4. \/ \E j : /\ MarkFailed(t) \/ MarkConfirmedAndCredit(t)
                /\ BeginAttempt(w, j)
                /\ ChainStatus(t) \in {"ok", "err"}
      \/ GoTo(w, "expiry") /\ UNCHANGED <<credited, deposits, job>>
  BY DEF ReconcilePendingDeposit, Refreshed, t
<1> QED
  BY <1>1, <1>2, <1>3, <1>4

\* ... or once the blockhash has expired, when the transfer cannot land.
LEMMA ExpiryKind ==
    ASSUME LiveInv, NEW w \in Workers, ReconcileExpiry(w)
    PROVE  Quiet \/ \E t \in Tx : Settles(t)
<1> DEFINE t == TxOf(job[w])
<1>0. TypeOK /\ UNCHANGED <<txs, height>>
  BY DEF LiveInv, TypeInv, ReconcileExpiry, chainVars
<1>1. t \in DOMAIN deposits /\ t \in Tx /\ t.lvbh = job[w].lvbh
  BY HeldDeposit DEF LiveInv, ReconcileExpiry, HoldsDeposit, TxOf
<1> HIDE DEF t
<1>2. CASE height > job[w].lvbh /\ MarkFailed(t) /\ BeginAttempt(w, job[w])
  BY <1>0, <1>1, <1>2, MarkSets, BeginKeepsSenders DEF Settles
<1>3. CASE FinishRow(w) /\ UNCHANGED <<credited, deposits>>
  BY <1>0, <1>3, FinishKeepsSenders DEF Quiet
<1> QED
  BY <1>1, <1>2, <1>3 DEF ReconcileExpiry, t

\* Up to the reservation an attempt only changes what the worker holds.
LEMMA AttemptKind ==
    ASSUME LiveInv, NEW w \in Workers,
           SyncNative(w) \/ ReadAccount(w) \/ GetLatestBlockhash(w) \/ ConfirmThrows(w)
    PROVE  Quiet
<1>0. TypeOK
  BY DEF LiveInv, TypeInv
<1>1. UNCHANGED <<deposits, txs, height>>
  BY DEF SyncNative, ReadAccount, GetLatestBlockhash, ConfirmThrows, dbVars, chainVars
<1>2. \/ FinishRow(w)
      \/ /\ \E l \in {"account", "blockhash", "reserve", "catch"} : GoTo(w, l)
         /\ \A v \in Workers \ {w} : job'[v] = job[v]
  BY <1>0 DEF SyncNative, ReadAccount, GetLatestBlockhash, ConfirmThrows, TypeOK
<1>3. CASE /\ \E l \in {"account", "blockhash", "reserve", "catch"} : GoTo(w, l)
           /\ \A v \in Workers \ {w} : job'[v] = job[v]
  <2>1. PICK l \in {"account", "blockhash", "reserve", "catch"} : GoTo(w, l)
    BY <1>3
  <2>2. l # "send"
    OBVIOUS
  <2> QED
    BY <1>0, <1>1, <1>3, <2>1, <2>2, MovesOn DEF GoTo, Quiet
<1> QED
  BY <1>0, <1>1, <1>2, <1>3, FinishKeepsSenders DEF Quiet

\* The insert finds the signature and the authorization free, or gives up.
LEMMA ReserveKind ==
    ASSUME LiveInv, NEW w \in Workers, Reserve(w)
    PROVE  Quiet \/ Reserves(w)
<1> DEFINE t == TxOf(job[w])
<1>0. TypeOK /\ UNCHANGED <<txs, height>>
  BY DEF LiveInv, TypeInv, Reserve, chainVars
<1>1. t \in Tx /\ job[w] \in Job /\ job[w].price \in Price /\ t.auth = job[w].auth
      /\ t.amount = job[w].amount
  BY HeldJob DEF LiveInv, Reserve, InSweepAsset, PCs, TxOf
<1>2. ComputeCreditedUsdMicros(t.amount, job[w].price) \in Nat
  BY <1>1, ValueType DEF Job
<1> HIDE DEF t
<1>3. CASE /\ t \notin DOMAIN deposits
           /\ PendingOf(t.auth) = {}
           /\ InsertPending(t, ComputeCreditedUsdMicros(t.amount, job[w].price))
           /\ GoTo(w, "send")
           /\ UNCHANGED job
  BY <1>0, <1>1, <1>2, <1>3 DEF Reserves, GoTo, t
<1>4. CASE FinishRow(w) /\ UNCHANGED deposits
  BY <1>0, <1>4, FinishKeepsSenders DEF Quiet
<1> QED
  BY <1>3, <1>4 DEF Reserve, t

\* A send puts the reserved transfer on the chain, or is lost.
LEMMA SendKind ==
    ASSUME LiveInv, NEW w \in Workers, Send(w)
    PROVE  Quiet \/ Sends(w)
<1>0. TypeOK /\ UNCHANGED <<deposits, height, job>> /\ pc[w] = "send"
  BY DEF LiveInv, TypeInv, Send, dbVars
<1>1. PICK l \in {"confirm", "catch"} : GoTo(w, l)
  BY DEF Send
<1>2. SendersKept /\ pc'[w] # "send"
  BY <1>0, <1>1 DEF GoTo, SendersKept, TypeOK
<1> QED
  BY <1>0, <1>2 DEF Send, Quiet, Sends

\* Confirmation and catch block settle a deposit the chain has answered for.
LEMMA SettleKind ==
    ASSUME LiveInv, NEW w \in Workers, ConfirmTransaction(w) \/ CatchStatus(w)
    PROVE  Quiet \/ \E t \in Tx : Settles(t)
<1> DEFINE t == TxOf(job[w])
<1>0. TypeOK /\ UNCHANGED <<txs, height>> /\ FinishRow(w)
  BY DEF LiveInv, TypeInv, ConfirmTransaction, CatchStatus, chainVars
<1>1. t \in DOMAIN deposits /\ t \in Tx
  BY HeldDeposit DEF LiveInv, ConfirmTransaction, CatchStatus, HoldsDeposit
<1> HIDE DEF t
<1>2. SendersKept
  BY <1>0, FinishKeepsSenders
<1>3. CASE ChainStatus(t) \in {"ok", "err"} /\ (MarkFailed(t) \/ MarkConfirmedAndCredit(t))
  BY <1>0, <1>1, <1>2, <1>3, MarkSets, AnsweredHasLanded DEF Settles
<1>4. CASE UNCHANGED deposits
  BY <1>0, <1>2, <1>4 DEF Quiet
<1> QED
  BY <1>1, <1>3, <1>4 DEF ConfirmTransaction, CatchStatus, t

\* finalityPass settles a deposit whose transfer is final.
LEMMA FinalityKind ==
    ASSUME LiveInv, NEW w \in Workers, NEW t \in confirmed[w], FinalityStatus(w, t)
    PROVE  Quiet \/ Settles(t)
<1>0. UNCHANGED <<txs, height>> /\ SendersKept
  BY DEF FinalityStatus, chainVars, SendersKept
<1>1. CASE t \in DOMAIN txs /\ txs[t].final /\ SetDepositStatus(t, "FINALIZED")
  <2>1. Landed(t) /\ t \in DOMAIN deposits
    BY <1>1 DEF LiveInv, FinalHasLanded, LiveTransferIsPending
  <2> QED
    BY <1>0, <1>1, <2>1 DEF Settles
<1>2. CASE UNCHANGED deposits
  BY <1>0, <1>2 DEF Quiet
<1> QED
  BY <1>1, <1>2 DEF FinalityStatus

\* The chain answers for a transfer, or produces a block.
LEMMA ChainKind ==
    ASSUME LiveInv, Chain
    PROVE  Answers \/ Ticks
<1>0. TypeOK
  BY DEF LiveInv, TypeInv
<1>1. ASSUME NEW t \in DOMAIN txs, Land(t) PROVE Answers
  <2>1. \E s \in {"ok", "err"} : txs' = [txs EXCEPT ![t].state = s]
    BY <1>1 DEF Land
  <2>2. UNCHANGED <<deposits, height, pc, job>>
    BY <1>1 DEF Land, dbVars, workerVars
  <2>3. /\ DOMAIN txs' = DOMAIN txs
        /\ \A u \in DOMAIN txs : txs'[u] = txs[u] \/ txs'[u].state \in {"ok", "err"}
    BY <1>0, <2>1 DEF TypeOK
  <2> QED
    BY <2>2, <2>3 DEF Answers
<1>2. ASSUME NEW t \in DOMAIN txs, Finalize(t) PROVE Answers
  <2>1. UNCHANGED <<deposits, height, pc, job>>
    BY <1>2 DEF Finalize, dbVars, workerVars
  <2>2. /\ DOMAIN txs' = DOMAIN txs
        /\ \A u \in DOMAIN txs : txs'[u] = txs[u] \/ txs'[u].state \in {"ok", "err"}
    BY <1>0, <1>2 DEF TypeOK, Finalize
  <2> QED
    BY <2>1, <2>2 DEF Answers
<1>3. CASE NewBlock
  BY <1>3 DEF NewBlock, Ticks, dbVars, workerVars
<1> QED
  BY <1>1, <1>2, <1>3 DEF Chain

\* Handlers and clients touch neither deposits nor transfers.
LEMMA OutsideKind ==
    ASSUME LiveInv, Handlers \/ Client \/ UNCHANGED vars
    PROVE  Quiet
<1>1. UNCHANGED <<deposits, txs, height, pc, job>>
  BY DEF Handlers, VerifyApproval, RecordReapproval, VerifyRevocation, RecordRevocation,
         DelayElapses, Client, Approve, Revoke, TopUp, Spend, SyncLands, SetAccount,
         vars, dbVars, chainVars, workerVars
<1> QED
  BY <1>1 DEF Quiet, SendersKept

\* Every step is of one of the six kinds.
LEMMA StepKind ==
    ASSUME LiveInv, [Next]_vars
    PROVE  LiveStep
<1>1. ASSUME NEW w \in Workers, Work(w) PROVE LiveStep
  <2>1. ASSUME NEW t \in confirmed[w], FinalityStatus(w, t) PROVE LiveStep
    <3>1. t \in Tx
      BY DEF LiveInv, TypeInv, TypeOK
    <3> QED
      BY <2>1, <3>1, FinalityKind DEF LiveStep
  <2> QED
    BY <1>1, <2>1, StartStepKind, SweepAssetKind, ReconcileKind, ExpiryKind, AttemptKind,
       ReserveKind, SendKind, SettleKind DEF Work, LiveStep
<1>2. ASSUME NEW w \in Workers, Crash(w) PROVE LiveStep
  BY <1>2, StartStepKind DEF LiveStep
<1>3. CASE Chain
  BY <1>3, ChainKind DEF LiveStep
<1>4. CASE Handlers \/ Client \/ UNCHANGED vars
  BY <1>4, OutsideKind DEF LiveStep
<1> QED
  BY <1>1, <1>2, <1>3, <1>4 DEF Next

(***************************************************************************)
(* Each kind of step keeps LiveInv.                                        *)
(***************************************************************************)
LiveParts == LiveTransferIsPending /\ FinalHasLanded /\ SendersOK /\ UniquePending

\* A step that touches neither deposits, nor transfers, nor senders is harmless.
LEMMA QuietKeeps ==
    ASSUME LiveInv, Quiet
    PROVE  LiveParts'
<1> USE DEF Quiet
<1>1. LiveTransferIsPending'
  BY DEF LiveInv, LiveTransferIsPending
<1>2. FinalHasLanded'
  BY DEF LiveInv, FinalHasLanded, Landed
<1>3. SendersOK'
  BY DEF LiveInv, SendersOK, SenderOK, SendersKept, TxOf, Pending
<1>4. UniquePending'
  BY DEF LiveInv, UniquePending, Pending
<1> QED
  BY <1>1, <1>2, <1>3, <1>4 DEF LiveParts

\* A settled row belongs to a transfer that landed or cannot land any more, so
\* none that is live, and none about to be sent, loses its PENDING row.
LEMMA SettlesKeeps ==
    ASSUME LiveInv, NEW t \in Tx, Settles(t)
    PROVE  LiveParts'
<1>0. /\ TypeOK /\ t \in DOMAIN deposits
      /\ Landed(t) \/ height > t.lvbh
      /\ UNCHANGED <<txs, height>> /\ SendersKept
  BY DEF LiveInv, TypeInv, Settles
<1>1. /\ DOMAIN deposits' = DOMAIN deposits
      /\ \A u \in DOMAIN deposits : u # t => deposits'[u] = deposits[u]
      /\ deposits'[t].status # "PENDING"
  BY <1>0 DEF Settles, SetDepositStatus, TypeOK, Deposit
<1>2. LiveTransferIsPending'
  <2> SUFFICES ASSUME NEW u \in DOMAIN txs
               PROVE  /\ u \in DOMAIN deposits'
                      /\ txs[u].state = "inflight" /\ height <= u.lvbh
                            => deposits'[u].status = "PENDING"
    BY <1>0 DEF LiveTransferIsPending
  <2>1. CASE u # t
    BY <1>1, <2>1 DEF LiveInv, LiveTransferIsPending
  <2>2. CASE u = t
    <3>1. height \in Nat /\ t.lvbh \in Nat
      BY <1>0 DEF TypeOK, Tx
    <3>2. ~ (txs[u].state = "inflight" /\ height <= u.lvbh)
      BY <1>0, <2>2, <3>1 DEF Landed
    <3> QED
      BY <1>0, <1>1, <2>2, <3>2
  <2> QED
    BY <2>1, <2>2
<1>3. FinalHasLanded'
  BY <1>0 DEF LiveInv, FinalHasLanded, Landed
<1>4. SendersOK'
  <2>1. ASSUME NEW w \in Workers, pc'[w] = "send"
        PROVE  SenderOK(w)'
    <3>1. pc[w] = "send" /\ job'[w] = job[w]
      BY <1>0, <2>1 DEF SendersKept
    <3>2. TxOf(job[w]) \notin DOMAIN txs /\ (height <= job[w].lvbh => Pending(TxOf(job[w])))
      BY <3>1 DEF LiveInv, SendersOK, SenderOK
    <3>3. CASE TxOf(job[w]) # t
      BY <1>0, <1>1, <3>1, <3>2, <3>3 DEF SenderOK, Pending, TxOf
    <3>4. CASE TxOf(job[w]) = t
      <4>1. height > t.lvbh /\ t.lvbh = job[w].lvbh
        BY <1>0, <3>2, <3>4 DEF Landed, TxOf
      <4>2. height \in Nat /\ t.lvbh \in Nat
        BY <1>0 DEF TypeOK, Tx
      <4>3. ~ (height <= job[w].lvbh)
        BY <4>1, <4>2
      <4> QED
        BY <1>0, <3>1, <3>2, <4>3 DEF SenderOK, TxOf
    <3> QED
      BY <3>3, <3>4
  <2>2. \A v, w \in Workers :
          pc'[v] = "send" /\ pc'[w] = "send" /\ TxOf(job'[v]) = TxOf(job'[w]) => v = w
    BY <1>0 DEF LiveInv, SendersOK, SendersKept
  <2>3. \A w \in Workers : SenderOK(w)'
    BY <2>1 DEF SenderOK
  <2> QED
    BY <2>2, <2>3 DEF SendersOK, TxOf
<1>5. UniquePending'
  BY <1>1 DEF LiveInv, UniquePending, Pending
<1> QED
  BY <1>2, <1>3, <1>4, <1>5 DEF LiveParts

\* A reservation makes the only PENDING row of its authorization, for a transfer
\* that was never sent.
LEMMA ReservesKeeps ==
    ASSUME LiveInv, NEW w \in Workers, Reserves(w)
    PROVE  LiveParts'
<1> DEFINE t == TxOf(job[w])
<1>0. /\ TypeOK /\ t \in Tx /\ t \notin DOMAIN deposits /\ t.auth = job[w].auth
      /\ t.lvbh = job[w].lvbh
      /\ UNCHANGED <<txs, height, job>> /\ pc' = [pc EXCEPT ![w] = "send"]
  BY DEF LiveInv, TypeInv, Reserves, TxOf
<1>1. /\ DOMAIN deposits' = DOMAIN deposits \cup {t}
      /\ \A u \in DOMAIN deposits : deposits'[u] = deposits[u]
      /\ deposits'[t].status = "PENDING"
  <2>1. PICK usd \in Nat : InsertPending(t, usd)
    BY DEF Reserves
  <2> HIDE DEF t
  <2>2. /\ DOMAIN deposits' = DOMAIN deposits \cup {t}
        /\ deposits'[t] = [usd |-> usd, status |-> "PENDING"]
        /\ \A u \in DOMAIN deposits : deposits'[u] = deposits[u]
    BY <1>0, <2>1, InsertPendingStep
  <2> QED
    BY <2>2
<1>2. \A u \in DOMAIN deposits : deposits[u].status = "PENDING" => u.auth # t.auth
  BY <1>0 DEF Reserves, PendingOf
<1>3. t \notin DOMAIN txs
  BY <1>0 DEF LiveInv, LiveTransferIsPending
<1>4. \A v \in Workers : pc[v] = "send" => TxOf(job[v]) # t
  BY <1>0 DEF LiveInv, TypeInv, JobOK, WorkerOK, HoldsDeposit
<1>5. \A v \in Workers : v # w => pc'[v] = pc[v]
  BY <1>0 DEF TypeOK
<1> HIDE DEF t
<1>6. LiveTransferIsPending'
  BY <1>0, <1>1, <1>3 DEF LiveInv, LiveTransferIsPending
<1>7. FinalHasLanded'
  BY <1>0 DEF LiveInv, FinalHasLanded, Landed
<1>8. SendersOK'
  <2>1. ASSUME NEW v \in Workers PROVE SenderOK(v)'
    <3>1. CASE v = w
      <4>1. Pending(TxOf(job[w]))'
        BY <1>0, <1>1 DEF Pending, t, TxOf
      <4> QED
        BY <1>0, <1>3, <3>1, <4>1 DEF SenderOK, t, TxOf
    <3>2. CASE v # w
      <4>1. pc[v] = "send" => (height <= job[v].lvbh => Pending(TxOf(job[v])))
                               /\ TxOf(job[v]) \notin DOMAIN txs
        BY DEF LiveInv, SendersOK, SenderOK
      <4>2. Pending(TxOf(job[v])) => Pending(TxOf(job[v]))'
        BY <1>0, <1>1 DEF Pending, TxOf
      <4> QED
        BY <1>0, <1>5, <3>2, <4>1, <4>2 DEF SenderOK, TxOf, Pending
    <3> QED
      BY <3>1, <3>2
  <2>2. \A u, v \in Workers :
          pc'[u] = "send" /\ pc'[v] = "send" /\ TxOf(job[u]) = TxOf(job[v]) => u = v
    BY <1>4, <1>5 DEF LiveInv, SendersOK, t
  <2> QED
    BY <1>0, <2>1, <2>2 DEF SendersOK, TxOf
<1>9. UniquePending'
  BY <1>1, <1>2 DEF LiveInv, UniquePending, Pending
<1> QED
  BY <1>6, <1>7, <1>8, <1>9 DEF LiveParts

\* A transfer is sent once, by the worker that reserved it, while the row is
\* PENDING or the blockhash has expired.
LEMMA SendsKeeps ==
    ASSUME LiveInv, NEW w \in Workers, Sends(w)
    PROVE  LiveParts'
<1> DEFINE t == TxOf(job[w])
<1>0. TypeOK /\ pc[w] = "send" /\ pc'[w] # "send" /\ SendersKept
      /\ UNCHANGED <<deposits, height, job>> /\ t.lvbh = job[w].lvbh
  BY DEF LiveInv, TypeInv, Sends, TxOf
<1>1. /\ t \notin DOMAIN txs /\ (height <= t.lvbh => Pending(t))
      /\ t \in DOMAIN deposits
  BY <1>0 DEF LiveInv, TypeInv, SendersOK, SenderOK, JobOK, WorkerOK, HoldsDeposit
<1>2. /\ DOMAIN txs' = DOMAIN txs \cup {t}
      /\ \A u \in DOMAIN txs : txs'[u] = txs[u]
      /\ txs'[t] = [state |-> "inflight", final |-> FALSE]
  BY <1>1 DEF Sends
<1>3. \A v \in Workers : pc'[v] = "send" => v # w /\ pc[v] = "send" /\ TxOf(job[v]) # t
  BY <1>0 DEF LiveInv, SendersOK, SendersKept
<1> HIDE DEF t
<1>4. LiveTransferIsPending'
  BY <1>0, <1>1, <1>2 DEF LiveInv, LiveTransferIsPending, Pending
<1>5. FinalHasLanded'
  BY <1>1, <1>2 DEF LiveInv, FinalHasLanded, Landed
<1>6. SendersOK'
  <2>1. ASSUME NEW v \in Workers PROVE SenderOK(v)'
    BY <1>0, <1>2, <1>3 DEF LiveInv, SendersOK, SenderOK, Pending, TxOf
  <2>2. \A u, v \in Workers :
          pc'[u] = "send" /\ pc'[v] = "send" /\ TxOf(job[u]) = TxOf(job[v]) => u = v
    BY <1>3 DEF LiveInv, SendersOK
  <2> QED
    BY <1>0, <2>1, <2>2 DEF SendersOK, TxOf
<1>7. UniquePending'
  BY <1>0 DEF LiveInv, UniquePending, Pending
<1> QED
  BY <1>4, <1>5, <1>6, <1>7 DEF LiveParts

\* An answer of the chain makes a transfer less live.
LEMMA AnswersKeeps ==
    ASSUME LiveInv, Answers
    PROVE  LiveParts'
<1> USE DEF Answers
<1>1. LiveTransferIsPending'
  BY DEF LiveInv, LiveTransferIsPending
<1>2. FinalHasLanded'
  BY DEF LiveInv, FinalHasLanded, Landed
<1>3. SendersOK'
  BY DEF LiveInv, SendersOK, SenderOK, TxOf, Pending
<1>4. UniquePending'
  BY DEF LiveInv, UniquePending, Pending
<1> QED
  BY <1>1, <1>2, <1>3, <1>4 DEF LiveParts

\* A new block only makes blockhashes expire.
LEMMA TicksKeeps ==
    ASSUME LiveInv, Ticks
    PROVE  LiveParts'
<1> USE DEF Ticks
<1>0. /\ height \in Nat
      /\ \A t \in Tx : t.lvbh \in Nat
      /\ \A w \in Workers : job[w].lvbh \in Nat
      /\ DOMAIN txs \subseteq Tx
  BY DEF LiveInv, TypeInv, TypeOK, Tx, Job
<1>1. LiveTransferIsPending'
  BY <1>0 DEF LiveInv, LiveTransferIsPending
<1>2. FinalHasLanded'
  BY DEF LiveInv, FinalHasLanded, Landed
<1>3. SendersOK'
  <2>1. ASSUME NEW w \in Workers PROVE SenderOK(w)'
    BY <1>0 DEF LiveInv, SendersOK, SenderOK, TxOf, Pending
  <2> QED
    BY <2>1 DEF LiveInv, SendersOK, TxOf
<1>4. UniquePending'
  BY DEF LiveInv, UniquePending, Pending
<1> QED
  BY <1>1, <1>2, <1>3, <1>4 DEF LiveParts

\* LiveInv is inductive.
LEMMA LiveInductive == LiveInv /\ [Next]_vars => LiveInv'
<1> SUFFICES ASSUME LiveInv, [Next]_vars PROVE LiveInv'
  OBVIOUS
<1>1. TypeInv'
  BY TypeStep DEF LiveInv
<1>2. LiveParts'
  BY StepKind, QuietKeeps, SettlesKeeps, ReservesKeeps, SendsKeeps, AnswersKeeps,
     TicksKeeps DEF LiveStep
<1> QED
  BY <1>1, <1>2 DEF LiveInv, LiveParts

\* Nothing is deposited or sent in the beginning.
LEMMA LiveInit == Init => LiveInv
<1> SUFFICES ASSUME Init PROVE LiveInv
  OBVIOUS
<1>1. DOMAIN deposits = {} /\ DOMAIN txs = {} /\ \A w \in Workers : pc[w] = "sleep"
  BY DEF Init
<1> QED
  BY <1>1, InitType DEF LiveInv, LiveTransferIsPending, FinalHasLanded, SendersOK,
                       SenderOK, UniquePending, Pending

\* A transfer the chain can still include has its PENDING row, for any number
\* of workers, crashes and lost answers (sweepAsset.ts 6-15, 30-39).
THEOREM LiveTransfersArePending == Spec => []LiveTransferIsPending
<1>1. LiveInv => LiveTransferIsPending
  BY DEF LiveInv
<1> QED
  BY <1>1, LiveInit, LiveInductive, PTL DEF Spec

\* At most one element, said as a cardinality.
LEMMA OnePending ==
    ASSUME LiveInv
    PROVE  OnePendingPerAuthorization
<1> SUFFICES ASSUME NEW a \in Auths PROVE Cardinality(PendingOf(a)) <= 1
  BY DEF OnePendingPerAuthorization
<1>1. CASE PendingOf(a) = {}
  BY <1>1, FS_EmptySet
<1>2. CASE PendingOf(a) # {}
  <2>1. PICK t : t \in PendingOf(a)
    BY <1>2
  <2>2. \A u \in PendingOf(a) : u = t
    BY <2>1 DEF LiveInv, TypeInv, TypeOK, UniquePending, Pending, PendingOf
  <2>3. PendingOf(a) = {t}
    BY <2>1, <2>2
  <2> QED
    BY <2>3, FS_Singleton
<1> QED
  BY <1>1, <1>2

\* Two sweeps of one authorization are never in flight together, however many
\* workers race for it (sweepAsset.ts 17-28).
THEOREM OneSweepAtATime == Spec => []OnePendingPerAuthorization
<1> QED
  BY OnePending, LiveInit, LiveInductive, PTL DEF Spec

(***************************************************************************)
(* No deposit before the delay of the first approval, for any number of    *)
(* workers.  The gate compares the approval the pass read in the beginning *)
(* with the delays that have passed by now; both only grow.                *)
(***************************************************************************)
PastDelay == {"sync", "account", "blockhash", "reserve"}

\* What a worker carries was read from a row that had been approved, and past
\* the gate the delay of that approval is over.
DelayOK(w) ==
    /\ \A a \in todo[w] : rows[w][a].approvals >= 1
    /\ pc[w] \in InSweepAsset => job[w].row.approvals >= 1
    /\ pc[w] \in PastDelay => elapsed[job[w].auth] >= 1

DelayInv ==
    /\ TypeInv
    /\ \A a \in Auths : approvals[a] >= 1
    /\ NoDepositBeforeDelay
    /\ \A w \in Workers : DelayOK(w)

\* One worker's step as the delay sees it: no other worker's memory changes.
OwnStep(w) ==
    /\ UNCHANGED <<approvals, elapsed>>
    /\ \A v \in Workers \ {w} :
          pc'[v] = pc[v] /\ job'[v] = job[v] /\ todo'[v] = todo[v] /\ rows'[v] = rows[v]

\* The rows still to be visited are among those there were.
RowsKept(w) ==
    \A a \in todo'[w] : a \in todo[w] /\ rows'[w][a] = rows[w][a]

\* A step that makes no new deposit and leaves its worker sound keeps DelayInv.
LEMMA DelayFrame ==
    ASSUME DelayInv, TypeInv', NEW w \in Workers, OwnStep(w), DelayOK(w)',
           \A t \in DOMAIN deposits' : t \in DOMAIN deposits \/ elapsed[t.auth] >= 1
    PROVE  DelayInv'
<1>1. \A v \in Workers : DelayOK(v)'
  BY DEF DelayInv, DelayOK, OwnStep
<1>2. NoDepositBeforeDelay'
  BY DEF DelayInv, NoDepositBeforeDelay, OwnStep
<1> QED
  BY <1>1, <1>2 DEF DelayInv, OwnStep

\* Finishing a row leaves nothing to owe.
LEMMA DelayFinish ==
    ASSUME TypeInv, NEW w \in Workers, FinishRow(w),
           \A a \in todo'[w] : rows'[w][a].approvals >= 1
    PROVE  DelayOK(w)'
<1>1. pc'[w] = "next"
  BY FinishRowStep DEF TypeInv
<1> QED
  BY <1>1 DEF DelayOK, InSweepAsset, PastDelay

\* The gate of sweepAsset: past it, the delay of the job's approval is over.
LEMMA DelayBegin ==
    ASSUME TypeInv, NEW w \in Workers, NEW j \in Job, BeginAttempt(w, j),
           j.auth \in Auths, j.row.approvals >= 1, UNCHANGED elapsed,
           \A a \in todo'[w] : rows'[w][a].approvals >= 1
    PROVE  DelayOK(w)'
<1>1. CASE FinishRow(w)
  BY <1>1, DelayFinish
<1>2. CASE ~ FinishRow(w)
  <2>1. j.row.approvals <= elapsed[j.auth] /\ job'[w] = j
    BY <1>2, BeginAttemptStep DEF BeginAttempt, TypeInv, TypeOK
  <2>2. elapsed[j.auth] \in Nat /\ j.row.approvals \in Nat
    BY DEF TypeInv, TypeOK, Job, Row
  <2>3. elapsed[j.auth] >= 1
    BY <2>1, <2>2
  <2> QED
    BY <2>1, <2>3 DEF DelayOK
<1> QED
  BY <1>1, <1>2

\* Every action of a worker changes its own memory only.
LEMMA WorkIsOwn ==
    ASSUME TypeInv, NEW w \in Workers, Work(w) \/ Crash(w)
    PROVE  OwnStep(w)
<1>0. TypeOK
  BY DEF TypeInv
<1> USE DEF TypeOK, OwnStep, dbVars, chainVars
<1>1. CASE StartPass(w) \/ AbortPass(w) \/ StartFinalityPass(w) \/ EndFinalityPass(w) \/ Crash(w)
  BY <1>0, <1>1 DEF StartPass, AbortPass, StartFinalityPass, EndFinalityPass, Crash, GoTo
<1>2. ASSUME NEW a \in Auths, SkipRow(w, a) PROVE OwnStep(w)
  BY <1>0, <1>2 DEF SkipRow, TakeRow
<1>3. ASSUME NEW a \in Auths, NEW p \in Prices, SweepAsset(w, a, p) PROVE OwnStep(w)
  <2>1. \A v \in Workers \ {w} : pc'[v] = pc[v] /\ job'[v] = job[v]
    BY <1>0, <1>3 DEF SweepAsset, BeginAttempt, FinishRow, GoTo
  <2>2. \A v \in Workers \ {w} : todo'[v] = todo[v] /\ rows'[v] = rows[v]
    BY <1>0, <1>3 DEF SweepAsset, TakeRow
  <2> QED
    BY <1>3, <2>1, <2>2 DEF SweepAsset
<1>4. CASE ReconcilePendingDeposit(w)
  <2>1. \A v \in Workers \ {w} : pc'[v] = pc[v] /\ job'[v] = job[v]
    BY <1>0, <1>4 DEF ReconcilePendingDeposit, BeginAttempt, FinishRow, GoTo
  <2> QED
    BY <1>4, <2>1 DEF ReconcilePendingDeposit
<1>5. CASE ReconcileExpiry(w)
  <2>1. \A v \in Workers \ {w} : pc'[v] = pc[v] /\ job'[v] = job[v]
    BY <1>0, <1>5 DEF ReconcileExpiry, BeginAttempt, FinishRow, GoTo
  <2> QED
    BY <1>5, <2>1 DEF ReconcileExpiry
<1>6. CASE SyncNative(w) \/ ReadAccount(w) \/ GetLatestBlockhash(w)
  BY <1>0, <1>6 DEF SyncNative, ReadAccount, GetLatestBlockhash, FinishRow, GoTo
<1>7. CASE Reserve(w) \/ Send(w) \/ ConfirmThrows(w)
  BY <1>0, <1>7 DEF Reserve, Send, ConfirmThrows, FinishRow, GoTo
<1>8. CASE ConfirmTransaction(w) \/ CatchStatus(w) \/ RpcThrows(w)
  BY <1>0, <1>8 DEF ConfirmTransaction, CatchStatus, RpcThrows, FinishRow, GoTo
<1>9. ASSUME NEW t \in confirmed[w], FinalityStatus(w, t) PROVE OwnStep(w)
  BY <1>9 DEF FinalityStatus
<1> QED
  BY <1>1, <1>2, <1>3, <1>4, <1>5, <1>6, <1>7, <1>8, <1>9 DEF Work

\* What DelayInv says of one worker, with the types it needs.
LEMMA DelayHeld ==
    ASSUME DelayInv, NEW w \in Workers
    PROVE  /\ TypeOK /\ TypeInv /\ NoDepositBeforeDelay
           /\ \A a \in todo[w] : a \in Auths /\ rows[w][a].approvals >= 1
           /\ pc[w] \in InSweepAsset =>
                /\ job[w] \in Job /\ job[w].auth \in Auths
                /\ job[w].row.approvals >= 1
           /\ pc[w] \in PastDelay => elapsed[job[w].auth] >= 1
BY HeldJob DEF DelayInv, DelayOK, TypeInv, TypeOK

\* Passes start from approved rows, and drop them.
LEMMA DelayPass ==
    ASSUME DelayInv, NEW w \in Workers,
           \/ StartPass(w) \/ AbortPass(w) \/ StartFinalityPass(w)
           \/ EndFinalityPass(w) \/ Crash(w)
           \/ \E a \in Auths : SkipRow(w, a)
    PROVE  DelayOK(w)' /\ deposits' = deposits
<1>0. TypeOK /\ \A a \in todo[w] : a \in Auths /\ rows[w][a].approvals >= 1
  BY DelayHeld
<1>1. CASE StartPass(w)
  <2>1. /\ pc'[w] = "next" /\ todo'[w] = {a \in Auths : status[a] = "ACTIVE"}
        /\ rows'[w] = [a \in Auths |-> IF status[a] = "ACTIVE" THEN RowOf(a) ELSE NoRow]
        /\ deposits' = deposits
    BY <1>0, <1>1 DEF StartPass, GoTo, TypeOK, dbVars
  <2>2. \A a \in todo'[w] : rows'[w][a].approvals >= 1
    BY <2>1 DEF RowOf, DelayInv
  <2> QED
    BY <2>1, <2>2 DEF DelayOK, InSweepAsset, PastDelay
<1>2. CASE AbortPass(w) \/ Crash(w)
  <2>1. pc'[w] \in {"sleep", "next"} /\ todo'[w] = {} /\ deposits' = deposits
    BY <1>0, <1>2 DEF AbortPass, Crash, GoTo, TypeOK, dbVars
  <2> QED
    BY <2>1 DEF DelayOK, InSweepAsset, PastDelay
<1>3. CASE StartFinalityPass(w) \/ EndFinalityPass(w)
  <2>1. /\ pc'[w] \in {"sleep", "finality"} /\ UNCHANGED <<todo, rows>>
        /\ deposits' = deposits
    BY <1>0, <1>3 DEF StartFinalityPass, EndFinalityPass, GoTo, TypeOK, dbVars
  <2> QED
    BY <1>0, <2>1 DEF DelayOK, InSweepAsset, PastDelay
<1>4. ASSUME NEW a \in Auths, SkipRow(w, a) PROVE DelayOK(w)' /\ deposits' = deposits
  <2>1. /\ pc'[w] = "next" /\ todo'[w] = todo[w] \ {a} /\ deposits' = deposits
        /\ \A b \in todo[w] : b # a => rows'[w][b] = rows[w][b]
    BY <1>0, <1>4 DEF SkipRow, TakeRow, TypeOK, dbVars
  <2> QED
    BY <1>0, <2>1 DEF DelayOK, InSweepAsset, PastDelay
<1> QED
  BY <1>1, <1>2, <1>3, <1>4

\* sweepAsset is called on an approved row.
LEMMA DelaySweepAsset ==
    ASSUME DelayInv, NEW w \in Workers, NEW a \in Auths, NEW p \in Prices,
           SweepAsset(w, a, p)
    PROVE  DelayOK(w)' /\ deposits' = deposits
<1> DEFINE j == [NoJob EXCEPT !.auth = a, !.row = rows[w][a], !.price = p]
<1>0. /\ TypeOK /\ TypeInv
      /\ \A b \in todo[w] : b \in Auths /\ rows[w][b].approvals >= 1
  BY DelayHeld
<1>1. /\ a \in todo[w] /\ todo'[w] = todo[w] \ {a}
      /\ \A b \in todo[w] : b # a => rows'[w][b] = rows[w][b]
      /\ deposits' = deposits /\ elapsed' = elapsed
  BY <1>0 DEF SweepAsset, TakeRow, TypeOK, dbVars
<1>2. \A b \in todo'[w] : rows'[w][b].approvals >= 1
  BY <1>0, <1>1
<1>3. j \in Job /\ j.auth = a /\ j.row = rows[w][a]
  BY <1>0 DEF TypeOK, NoJob, Job
<1> HIDE DEF j
<1>4. j.row.approvals >= 1
  BY <1>0, <1>1, <1>3
<1>5. CASE BeginAttempt(w, j)
  BY <1>0, <1>1, <1>2, <1>3, <1>4, <1>5, DelayBegin
<1>6. ASSUME NEW t \in PendingOf(a), GoTo(w, "reconcile"),
             job' = [job EXCEPT ![w] = [j EXCEPT !.amount = t.amount, !.lvbh = t.lvbh]]
      PROVE  DelayOK(w)'
  <2> DEFINE k == [j EXCEPT !.amount = t.amount, !.lvbh = t.lvbh]
  <2>1. k.row = j.row
    BY <1>3 DEF Job
  <2>2. pc'[w] = "reconcile" /\ job'[w] = k
    BY <1>0, <1>6 DEF GoTo, TypeOK
  <2> HIDE DEF k
  <2> QED
    BY <1>2, <1>4, <2>1, <2>2 DEF DelayOK, PastDelay
<1> QED
  BY <1>1, <1>5, <1>6 DEF SweepAsset, j

\* Reconciliation goes on to a fresh attempt through the same gate.
LEMMA DelayReconcile ==
    ASSUME DelayInv, NEW w \in Workers,
           ReconcilePendingDeposit(w) \/ ReconcileExpiry(w)
    PROVE  DelayOK(w)' /\ DOMAIN deposits' = DOMAIN deposits
<1> DEFINE t == TxOf(job[w])
<1>0. /\ TypeOK /\ TypeInv
      /\ \A b \in todo[w] : b \in Auths /\ rows[w][b].approvals >= 1
      /\ pc[w] \in HoldsDeposit /\ pc[w] \in InSweepAsset
      /\ UNCHANGED <<todo, rows, elapsed>>
  BY DelayHeld DEF ReconcilePendingDeposit, ReconcileExpiry, HoldsDeposit, InSweepAsset, PCs
<1>1. /\ t \in DOMAIN deposits /\ t.auth = job[w].auth
      /\ job[w] \in Job /\ job[w].auth \in Auths /\ job[w].row.approvals >= 1
  BY <1>0, HeldDeposit, DelayHeld
<1>2. \A b \in todo'[w] : rows'[w][b].approvals >= 1
  BY <1>0
<1> HIDE DEF t
<1>3. CASE MarkFailed(t) /\ BeginAttempt(w, job[w])
  <2>1. DOMAIN deposits' = DOMAIN deposits
    BY <1>0, <1>1, <1>3, MarkFailedStep
  <2> QED
    BY <1>0, <1>1, <1>2, <1>3, <2>1, DelayBegin
<1>4. CASE MarkConfirmedAndCredit(t) /\ BeginAttempt(w, Refreshed(job[w], credited'[t.auth]))
  <2> DEFINE j == Refreshed(job[w], credited'[t.auth])
  <2>1. DOMAIN deposits' = DOMAIN deposits /\ credited'[t.auth] \in Nat
    BY <1>0, <1>1, <1>4, MarkConfirmedStep
  <2>2. j \in Job /\ j.auth = job[w].auth /\ j.row.approvals = job[w].row.approvals
    BY <1>1, <2>1 DEF Job, Row, Refreshed
  <2> HIDE DEF j
  <2>3. BeginAttempt(w, j)
    BY <1>4 DEF j
  <2> QED
    BY <1>0, <1>1, <1>2, <2>1, <2>2, <2>3, DelayBegin
<1>5. CASE GoTo(w, "expiry") /\ UNCHANGED <<credited, deposits, job>>
  <2>1. pc'[w] = "expiry" /\ job' = job /\ deposits' = deposits
    BY <1>0, <1>5 DEF GoTo, TypeOK
  <2> QED
    BY <1>1, <1>2, <2>1 DEF DelayOK, PastDelay
<1>6. CASE FinishRow(w) /\ UNCHANGED deposits
  BY <1>0, <1>2, <1>6, DelayFinish
<1> QED
  BY <1>3, <1>4, <1>5, <1>6 DEF ReconcilePendingDeposit, ReconcileExpiry, t

\* The attempt goes on past the gate, and reserves behind it.
LEMMA DelayAttempt ==
    ASSUME DelayInv, NEW w \in Workers,
           \/ SyncNative(w) \/ ReadAccount(w) \/ GetLatestBlockhash(w) \/ Reserve(w)
    PROVE  /\ DelayOK(w)'
           /\ \A t \in DOMAIN deposits' : t \in DOMAIN deposits \/ elapsed[t.auth] >= 1
<1>0. /\ TypeOK /\ TypeInv
      /\ \A b \in todo[w] : b \in Auths /\ rows[w][b].approvals >= 1
      /\ pc[w] \in InSweepAsset /\ pc[w] \in PastDelay
      /\ UNCHANGED <<todo, rows, elapsed>>
  BY DelayHeld DEF SyncNative, ReadAccount, GetLatestBlockhash, Reserve, PastDelay,
                   InSweepAsset, PCs, dbVars
<1>1. /\ job[w] \in Job /\ job[w].row.approvals >= 1 /\ elapsed[job[w].auth] >= 1
      /\ TxOf(job[w]).auth = job[w].auth
  BY <1>0, DelayHeld DEF TxOf
<1>2. \A b \in todo'[w] : rows'[w][b].approvals >= 1
  BY <1>0
<1>3. \A t \in DOMAIN deposits' : t \in DOMAIN deposits \/ t = TxOf(job[w])
  BY DEF SyncNative, ReadAccount, GetLatestBlockhash, Reserve, InsertPending, dbVars
<1>4. CASE FinishRow(w)
  BY <1>0, <1>1, <1>2, <1>3, <1>4, DelayFinish
<1>5. CASE ~ FinishRow(w)
  <2>1. job'[w].auth = job[w].auth /\ job'[w].row = job[w].row
    BY <1>0, <1>1, <1>5 DEF SyncNative, ReadAccount, GetLatestBlockhash, Reserve, TypeOK, Job
  <2> QED
    BY <1>0, <1>1, <1>2, <1>3, <2>1 DEF DelayOK
<1> QED
  BY <1>4, <1>5

\* Sending and settling make no deposit.
LEMMA DelaySend ==
    ASSUME DelayInv, NEW w \in Workers,
           \/ Send(w) \/ ConfirmThrows(w) \/ ConfirmTransaction(w) \/ CatchStatus(w)
           \/ RpcThrows(w)
    PROVE  DelayOK(w)' /\ DOMAIN deposits' = DOMAIN deposits
<1>0. /\ TypeOK /\ TypeInv /\ pc[w] \in InSweepAsset
      /\ \A b \in todo[w] : b \in Auths /\ rows[w][b].approvals >= 1
      /\ UNCHANGED <<todo, rows, elapsed>>
  BY DelayHeld DEF Send, ConfirmThrows, ConfirmTransaction, CatchStatus, RpcThrows,
                   InSweepAsset, PCs, dbVars
<1>1. \A b \in todo'[w] : rows'[w][b].approvals >= 1
  BY <1>0
<1>2. DOMAIN deposits' = DOMAIN deposits
  BY DEF Send, ConfirmThrows, ConfirmTransaction, CatchStatus, RpcThrows, MarkFailed,
         MarkConfirmedAndCredit, SetDepositStatus, dbVars
<1>3. CASE Send(w) \/ ConfirmThrows(w)
  <2>1. pc'[w] \in {"confirm", "catch"} /\ job' = job
    BY <1>0, <1>3 DEF Send, ConfirmThrows, GoTo, TypeOK
  <2> QED
    BY <1>0, <1>1, <1>2, <2>1, DelayHeld DEF DelayOK, PastDelay
<1>4. CASE FinishRow(w)
  BY <1>0, <1>1, <1>2, <1>4, DelayFinish
<1> QED
  BY <1>3, <1>4 DEF ConfirmTransaction, CatchStatus, RpcThrows

\* finalityPass makes no deposit.
LEMMA DelayFinality ==
    ASSUME DelayInv, NEW w \in Workers, NEW t \in confirmed[w], FinalityStatus(w, t)
    PROVE  DelayOK(w)' /\ DOMAIN deposits' = DOMAIN deposits
<1>1. UNCHANGED <<pc, todo, rows, job, elapsed>> /\ DOMAIN deposits' = DOMAIN deposits
  BY DEF FinalityStatus, SetDepositStatus
<1> QED
  BY <1>1 DEF DelayInv, DelayOK

\* Approvals and delays only grow, whoever records them.
LEMMA DelayOutside ==
    ASSUME DelayInv, TypeInv', Handlers \/ Chain \/ Client \/ UNCHANGED vars
    PROVE  DelayInv'
<1>0. TypeOK
  BY DEF DelayInv, TypeInv
<1>1. /\ UNCHANGED <<deposits, pc, todo, rows, job>>
      /\ \A a \in Auths : approvals'[a] >= approvals[a] /\ elapsed'[a] >= elapsed[a]
  <2>1. CASE Handlers
    BY <1>0, <2>1 DEF Handlers, VerifyApproval, RecordReapproval, VerifyRevocation,
         RecordRevocation, DelayElapses, TypeOK, workerVars
  <2>2. CASE Chain \/ Client \/ UNCHANGED vars
    <3>1. UNCHANGED <<deposits, pc, todo, rows, job, approvals, elapsed>>
      BY <2>2 DEF Client, Approve, Revoke, TopUp, Spend, SyncLands, SetAccount,
         Chain, Land, Finalize, NewBlock, vars, dbVars, workerVars
    <3> QED
      BY <1>0, <3>1 DEF TypeOK
  <2> QED
    BY <2>1, <2>2
<1>2. \A a \in Auths : /\ approvals[a] \in Nat /\ elapsed[a] \in Nat
                       /\ approvals'[a] \in Nat /\ elapsed'[a] \in Nat
  BY <1>0 DEF TypeInv, TypeOK
<1>3. \A a \in Auths : approvals'[a] >= 1 /\ (elapsed[a] >= 1 => elapsed'[a] >= 1)
  BY <1>1, <1>2 DEF DelayInv
<1>4. NoDepositBeforeDelay'
  BY <1>0, <1>1, <1>3 DEF DelayInv, NoDepositBeforeDelay, TypeOK, Tx
<1>5. ASSUME NEW w \in Workers PROVE DelayOK(w)'
  <2>1. pc[w] \in PastDelay => job[w].auth \in Auths
    BY DelayHeld DEF PastDelay, InSweepAsset, PCs
  <2> QED
    BY <1>1, <1>3, <2>1 DEF DelayInv, DelayOK
<1> QED
  BY <1>3, <1>4, <1>5 DEF DelayInv

\* DelayInv is inductive.
LEMMA DelayInductive == DelayInv /\ [Next]_vars => DelayInv'
<1> SUFFICES ASSUME DelayInv, [Next]_vars PROVE DelayInv'
  OBVIOUS
<1>1. TypeInv /\ TypeInv'
  BY TypeStep DEF DelayInv
<1>2. ASSUME NEW w \in Workers, Work(w) \/ Crash(w) PROVE DelayInv'
  <2>1. OwnStep(w)
    BY <1>1, <1>2, WorkIsOwn
  <2>2. /\ DelayOK(w)'
        /\ \A t \in DOMAIN deposits' : t \in DOMAIN deposits \/ elapsed[t.auth] >= 1
    BY <1>2, DelayPass, DelaySweepAsset, DelayReconcile, DelayAttempt, DelaySend,
       DelayFinality DEF Work
  <2> QED
    BY <1>1, <2>1, <2>2, DelayFrame
<1> QED
  BY <1>1, <1>2, DelayOutside DEF Next

\* Every authorization begins approved, and nothing is deposited.
LEMMA DelayInit == Init => DelayInv
<1> SUFFICES ASSUME Init PROVE DelayInv
  OBVIOUS
<1>1. NoDepositBeforeDelay /\ \A a \in Auths : approvals[a] >= 1
  BY DEF Init, NoDepositBeforeDelay
<1>2. \A w \in Workers : DelayOK(w)
  BY DEF Init, DelayOK, InSweepAsset, PastDelay
<1> QED
  BY <1>1, <1>2, InitType DEF DelayInv

\* Nothing is reserved before the delay of the first approval has passed, however
\* the passes interleave with re-approvals, crashes and retries
\* (sweepTiming.ts, sweepAsset.ts 261-275).
THEOREM DelayKept == Spec => []NoDepositBeforeDelay
<1>1. DelayInv => NoDepositBeforeDelay
  BY DEF DelayInv
<1> QED
  BY <1>1, DelayInit, DelayInductive, PTL DEF Spec
=============================================================================
