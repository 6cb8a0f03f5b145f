--------------------------- MODULE Authorization ---------------------------
(***************************************************************************)
(* One client's authorizations: the /api/authorize and /api/revoke         *)
(* handlers (httpHandler.ts, processAuthorization.ts) and the two tables   *)
(* they write (authorizationStore.ts), while the client signs approvals    *)
(* and revocations and reports them, in any order and more than once.      *)
(*                                                                         *)
(* A handler awaits twice, for the signature's status and for the token    *)
(* account; the statements after the second await run without another.     *)
(* They are not one SQL transaction: the server can stop between them.     *)
(***************************************************************************)
EXTENDS Naturals, FiniteSets, Sequences

CONSTANTS
    Assets,      \* asset keys the client holds, all on the allowlist
    SolAsset,    \* the key of native SOL
    Bundles,     \* sets of assets one transaction may cover
    MaxSpl,      \* max_spl_assets_per_client
    Requests,    \* HTTP requests the server can be handling at once
    MaxTxs,      \* bound: transactions the client signs
    MaxCrashes,  \* bound: restarts of the server
    NoAsset

ASSUME AuthorizationAssumption ==
    /\ {MaxSpl, MaxTxs, MaxCrashes} \subseteq Nat
    /\ IsFiniteSet(Assets) /\ NoAsset \notin Assets
    /\ Bundles \subseteq SUBSET Assets

VARIABLES
    \* --- database ---
    row,        \* client_asset_authorizations: the status, or "absent"
    events,     \* authorization_events, in order of insertion
    \* --- server ---
    request,    \* what each request being handled waits for
    answered,   \* <<signature, asset>>: reported, and answered for good
    crashes,
    \* --- Solana ---
    txs,        \* the client's transactions; a signature is an index
    delegate    \* of each token account: "pooled" or "none"

serverVars == <<row, events, request, answered, crashes>>
vars == <<serverVars, txs, delegate>>

EventType == {"APPROVED", "RE_APPROVED", "REVOKED"}
Tx == [approve : BOOLEAN, assets : SUBSET Assets, state : {"sent", "confirmed", "err"}]
Event == [sig : Nat, asset : Assets, type : EventType]
RequestState == {"idle", "status", "account", "record"}
Request == [at : RequestState, sig : Nat, asset : Assets \cup {NoAsset}]

NoRequest == [at |-> "idle", sig |-> 0, asset |-> NoAsset]
Idle(r) == [request EXCEPT ![r] = NoRequest]

(***************************************************************************)
(* authorizationStore                                                      *)
(***************************************************************************)
ActiveSpl == {a \in Assets \ {SolAsset} : row[a] = "ACTIVE"}

\* Mutant: the check is on the signature alone.
SignatureProcessed(sig, a) == \E i \in DOMAIN events : events[i].sig = sig

\* The duplicate check is on the signature and the asset: one transaction may
\* approve several assets.
AlreadyProcessed(sig, a) ==
    \E i \in DOMAIN events : events[i].sig = sig /\ events[i].asset = a

\* Mutant: the row's status in place of the event's type.
LogStatus(sig, a, type) ==
    events' = Append(events, [sig |-> sig, asset |-> a, type |-> row[a]])

LogEvent(sig, a, type) ==
    events' = Append(events, [sig |-> sig, asset |-> a, type |-> type])

SetRow(a, s) == row' = [row EXCEPT ![a] = s]

\* Mutant: one asset too many.
AdmitsOneMore(a) == a = SolAsset \/ Cardinality(ActiveSpl) <= MaxSpl

\* Only an asset without a row is counted against the ceiling, SOL never.
AdmitsNewRow(a) == a = SolAsset \/ Cardinality(ActiveSpl) < MaxSpl

\* recordAuthorization, the statement on client_asset_authorizations ...
WriteApproval(a) ==
    /\ row[a] # "absent" \/ AdmitsNewRow(a)
    /\ SetRow(a, "ACTIVE")

\* ... and the one on authorization_events that follows it.
LogApproval(sig, a) ==
    LogEvent(sig, a, IF row[a] = "absent" THEN "APPROVED" ELSE "RE_APPROVED")

\* Mutants: the row is written before duplicates are looked for, or they are
\* not looked for at all.
WriteThenCheck(sig, a) ==
    /\ WriteApproval(a)
    /\ IF AlreadyProcessed(sig, a) THEN UNCHANGED events ELSE LogApproval(sig, a)

RecordUnchecked(sig, a) == WriteApproval(a) /\ LogApproval(sig, a)

RecordAuthorization(sig, a) ==
    \/ /\ AlreadyProcessed(sig, a)
       /\ UNCHANGED <<row, events>>
    \/ /\ ~ AlreadyProcessed(sig, a)
       /\ WriteApproval(a)
       /\ LogApproval(sig, a)
    \/ /\ ~ AlreadyProcessed(sig, a)
       /\ row[a] = "absent"
       /\ ~ AdmitsNewRow(a)
       /\ UNCHANGED <<row, events>>

\* recordRevocation; without a row it throws.
WriteRevocation(a) ==
    /\ row[a] # "absent"
    /\ SetRow(a, "REVOKED")

\* Mutant: no look for duplicates.
RevokeUnchecked(sig, a) ==
    /\ WriteRevocation(a)
    /\ LogEvent(sig, a, "REVOKED")

RecordRevocation(sig, a) ==
    \/ /\ AlreadyProcessed(sig, a) \/ row[a] = "absent"
       /\ UNCHANGED <<row, events>>
    \/ /\ ~ AlreadyProcessed(sig, a)
       /\ WriteRevocation(a)
       /\ LogEvent(sig, a, "REVOKED")

(***************************************************************************)
(* The handlers                                                            *)
(***************************************************************************)

\* A request arrives, for a transaction that may not have been confirmed yet.
Submit(r, sig, a) ==
    /\ request[r].at = "idle"
    /\ a \in txs[sig].assets
    /\ request' = [request EXCEPT ![r] = [at |-> "status", sig |-> sig, asset |-> a]]
    /\ UNCHANGED <<row, events, answered, crashes, txs, delegate>>

\* getSignatureStatus: rejected unless the transaction succeeded.
ReadStatus(r) ==
    /\ request[r].at = "status"
    /\ LET confirmed == txs[request[r].sig].state = "confirmed" IN
       request' = IF confirmed THEN [request EXCEPT ![r].at = "account"]
                               ELSE Idle(r)
    /\ UNCHANGED <<row, events, answered, crashes, txs, delegate>>

\* What the account must show: the pooled wallet as its delegate for an
\* approval, none for a revocation.
Expected(sig) == IF txs[sig].approve THEN "pooled" ELSE "none"

\* getAccount, as the account is now.
ReadAccount(r) ==
    /\ request[r].at = "account"
    /\ LET sig == request[r].sig
           a   == request[r].asset
       IN  \/ /\ delegate[a] = Expected(sig)
              /\ request' = [request EXCEPT ![r].at = "record"]
              /\ UNCHANGED answered
           \/ /\ delegate[a] # Expected(sig)
              /\ request' = Idle(r)
              /\ answered' = answered \cup {<<sig, a>>}
    /\ UNCHANGED <<row, events, crashes, txs, delegate>>

\* An awaited call throws: 500, nothing written.
RpcThrows(r) ==
    /\ request[r].at \in {"status", "account"}
    /\ request' = Idle(r)
    /\ UNCHANGED <<row, events, answered, crashes, txs, delegate>>

Record(r) ==
    /\ request[r].at = "record"
    /\ LET sig == request[r].sig
           a   == request[r].asset
       IN  /\ IF txs[sig].approve THEN RecordAuthorization(sig, a)
                                  ELSE RecordRevocation(sig, a)
           /\ answered' = answered \cup {<<sig, a>>}
    /\ request' = Idle(r)
    /\ UNCHANGED <<crashes, txs, delegate>>

\* The server stops; no request survives.
Restart ==
    /\ crashes < MaxCrashes
    /\ crashes' = crashes + 1
    /\ request' = [r \in Requests |-> NoRequest]

Crash ==
    /\ Restart
    /\ UNCHANGED <<row, events, answered, txs, delegate>>

\* ... between the two statements: the row is written, the event is not.
CrashBeforeEvent(r) ==
    /\ request[r].at = "record"
    /\ LET sig == request[r].sig
           a   == request[r].asset
       IN  /\ ~ AlreadyProcessed(sig, a)
           /\ IF txs[sig].approve THEN WriteApproval(a) ELSE WriteRevocation(a)
    /\ Restart
    /\ UNCHANGED <<events, answered, txs, delegate>>

(***************************************************************************)
(* The client and Solana                                                   *)
(***************************************************************************)

\* One signature approves or revokes one or several assets.
Sign(approve, assets) ==
    /\ Len(txs) < MaxTxs
    /\ txs' = Append(txs, [approve |-> approve, assets |-> assets, state |-> "sent"])
    /\ UNCHANGED <<serverVars, delegate>>

Confirm(sig) ==
    /\ txs[sig].state = "sent"
    /\ \/ /\ txs' = [txs EXCEPT ![sig].state = "confirmed"]
          /\ delegate' = [a \in Assets |-> IF a \in txs[sig].assets
                                           THEN Expected(sig) ELSE delegate[a]]
       \/ /\ txs' = [txs EXCEPT ![sig].state = "err"]
          /\ UNCHANGED delegate
    /\ UNCHANGED serverVars

\* A sweep uses up the delegated amount: the token program drops the delegate.
Drain(a) ==
    /\ row[a] = "ACTIVE"
    /\ delegate[a] = "pooled"
    /\ delegate' = [delegate EXCEPT ![a] = "none"]
    /\ UNCHANGED <<serverVars, txs>>

(***************************************************************************)
(* The specification                                                       *)
(***************************************************************************)
Init ==
    /\ row = [a \in Assets |-> "absent"]
    /\ events = <<>>
    /\ request = [r \in Requests |-> NoRequest]
    /\ answered = {}
    /\ crashes = 0
    /\ txs = <<>>
    /\ delegate = [a \in Assets |-> "none"]

Handle(r) == ReadStatus(r) \/ ReadAccount(r) \/ RpcThrows(r) \/ Record(r)

Server ==
    \/ \E r \in Requests :
        \/ Handle(r)
        \/ CrashBeforeEvent(r)
        \/ \E sig \in DOMAIN txs, a \in Assets : Submit(r, sig, a)
    \/ Crash

Outside ==
    \/ \E approve \in BOOLEAN, assets \in Bundles : Sign(approve, assets)
    \/ \E sig \in DOMAIN txs : Confirm(sig)
    \/ \E a \in Assets : Drain(a)

Next == Server \/ Outside

Spec == Init /\ [][Next]_vars

(***************************************************************************)
(* Properties                                                              *)
(***************************************************************************)

\* Every variable keeps its type.
TypeOK ==
    /\ row \in [Assets -> {"absent", "ACTIVE", "REVOKED"}]
    /\ events \in Seq(Event)
    /\ request \in [Requests -> Request]
    /\ answered \subseteq Nat \X Assets
    /\ crashes \in Nat
    /\ txs \in Seq(Tx)
    /\ delegate \in [Assets -> {"pooled", "none"}]

\* Reporting one transaction again, even while the first report is still being
\* handled or after a restart, never records it twice for an asset
\* (authorizationStore.ts 96-108).
NoDuplicateEvents ==
    \A i, j \in DOMAIN events :
        events[i].sig = events[j].sig /\ events[i].asset = events[j].asset => i = j

\* A revoked asset becomes active again only through a transaction reported for
\* the first time: replaying the approval it was revoked from does nothing
\* (authorizationStore.ts 110-121).
ReplayNeverReactivates ==
    [][\A a \in Assets :
          row[a] = "REVOKED" /\ row'[a] = "ACTIVE"
              => \E r \in Requests :
                    /\ request[r].at = "record" /\ request[r].asset = a
                    /\ \A i \in DOMAIN events :
                          <<events[i].sig, events[i].asset>> # <<request[r].sig, a>>]_vars

LastEvent(a) ==
    LET S == {i \in DOMAIN events : events[i].asset = a}
    IN  IF S = {} THEN "absent"
        ELSE LET last == CHOOSE i \in S : \A j \in S : j <= i
             IN  IF events[last].type = "REVOKED" THEN "REVOKED" ELSE "ACTIVE"

\* The audit log accounts for every row: "every authorization lifecycle event
\* is a new row here regardless of what the current-state row above says now"
\* (schema.sql 50-52).
LogMatchesRow == \A a \in Assets : row[a] = LastEvent(a)

\* A first approval never takes the client over the ceiling, however many
\* requests are between their awaits together (authorizationStore.ts 135-145).
NewRowsWithinLimit ==
    [][\A a \in Assets \ {SolAsset} :
          row[a] = "absent" /\ row'[a] # "absent"
              => Cardinality(ActiveSpl') <= MaxSpl]_vars

\* Nothing is being handled, and the client has an answer to every report of
\* every transaction that succeeded.
Settled ==
    /\ \A r \in Requests : request[r].at = "idle"
    /\ \A sig \in DOMAIN txs :
          /\ txs[sig].state # "sent"
          /\ txs[sig].state = "confirmed"
                => \A a \in txs[sig].assets : <<sig, a>> \in answered

\* Once everything is answered, the row says what the chain says: an account
\* that still delegates to the pooled wallet is not taken for revoked (header
\* of processAuthorization.ts: never recorded "without checking it actually
\* landed and actually did what's being recorded").
DelegatedIsNotRevoked ==
    Settled => \A a \in Assets : delegate[a] = "pooled" => row[a] # "REVOKED"
=============================================================================
