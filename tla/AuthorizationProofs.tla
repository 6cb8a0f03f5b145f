------------------------ MODULE AuthorizationProofs ------------------------
(***************************************************************************)
(* Theorems about Authorization, for every set of assets, bundles and      *)
(* requests and every bound.                                               *)
(***************************************************************************)
EXTENDS Authorization, ArithmeticProofs

(***************************************************************************)
(* Types.  A request past its arrival names a transaction of the client    *)
(* and an asset, which is what makes a recorded event well typed.          *)
(***************************************************************************)
RequestOK(r) ==
    request[r].at # "idle" => request[r].sig \in DOMAIN txs /\ request[r].asset \in Assets

RequestsOK == \A r \in Requests : RequestOK(r)

TypeInv == TypeOK /\ RequestsOK

\* A freed request slot is well typed.
LEMMA IdleType ==
    ASSUME TypeInv, NEW r \in Requests, request' = Idle(r), DOMAIN txs' = DOMAIN txs
    PROVE  request' \in [Requests -> Request] /\ RequestsOK'
BY DEF TypeInv, TypeOK, Idle, NoRequest, Request, RequestState, RequestsOK, RequestOK

\* A request that moves on keeps its transaction and asset.
LEMMA MoveOnType ==
    ASSUME TypeInv, NEW r \in Requests, NEW l \in RequestState,
           request[r].at # "idle",
           request' = [request EXCEPT ![r].at = l], DOMAIN txs' = DOMAIN txs
    PROVE  request' \in [Requests -> Request] /\ RequestsOK'
BY DEF TypeInv, TypeOK, Request, RequestsOK, RequestOK

\* A logged event is appended to the log and is well typed.
LEMMA LogType ==
    ASSUME events \in Seq(Event), NEW sig \in Nat, NEW a \in Assets,
           NEW type \in EventType, LogEvent(sig, a, type)
    PROVE  /\ events' \in Seq(Event)
           /\ Len(events) \in Nat
           /\ DOMAIN events = 1 .. Len(events)
           /\ DOMAIN events' = 1 .. Len(events) + 1
           /\ \A i \in DOMAIN events : events'[i] = events[i]
           /\ events'[Len(events) + 1] = [sig |-> sig, asset |-> a, type |-> type]
<1>1. [sig |-> sig, asset |-> a, type |-> type] \in Event
  BY DEF Event
<1> QED
  BY <1>1 DEF LogEvent

\* What recording a report does: nothing, or one row and one event.
LEMMA RecordStep ==
    ASSUME TypeInv, NEW sig \in Nat, NEW a \in Assets,
           RecordAuthorization(sig, a) \/ RecordRevocation(sig, a)
    PROVE  \/ UNCHANGED <<row, events>>
           \/ /\ ~ AlreadyProcessed(sig, a)
              /\ row' \in [Assets -> {"absent", "ACTIVE", "REVOKED"}]
              /\ \E type \in EventType : LogEvent(sig, a, type)
<1>1. CASE RecordAuthorization(sig, a)
  BY <1>1 DEF RecordAuthorization, WriteApproval, SetRow, LogApproval, EventType,
              TypeInv, TypeOK
<1>2. CASE RecordRevocation(sig, a)
  BY <1>2 DEF RecordRevocation, WriteRevocation, SetRow, EventType, TypeInv, TypeOK
<1> QED
  BY <1>1, <1>2

\* Recording keeps rows and events well typed.
LEMMA RecordType ==
    ASSUME TypeInv, NEW sig \in Nat, NEW a \in Assets,
           RecordAuthorization(sig, a) \/ RecordRevocation(sig, a)
    PROVE  /\ row' \in [Assets -> {"absent", "ACTIVE", "REVOKED"}]
           /\ events' \in Seq(Event)
<1>1. CASE UNCHANGED <<row, events>>
  BY <1>1 DEF TypeInv, TypeOK
<1>2. CASE /\ row' \in [Assets -> {"absent", "ACTIVE", "REVOKED"}]
           /\ \E type \in EventType : LogEvent(sig, a, type)
  BY <1>2, LogType DEF TypeInv, TypeOK
<1> QED
  BY <1>1, <1>2, RecordStep

\* A step of one request handler keeps the types.
LEMMA TypeHandle ==
    ASSUME TypeInv, NEW r \in Requests, Handle(r)
    PROVE  TypeInv'
<1>1. txs \in Seq(Tx) /\ DOMAIN txs \subseteq Nat
  BY DEF TypeInv, TypeOK
<1>2. CASE ReadStatus(r)
  <2>1. "account" \in RequestState /\ request[r].at # "idle" /\ DOMAIN txs' = DOMAIN txs
    BY <1>2 DEF ReadStatus, RequestState
  <2>2. request' = [request EXCEPT ![r].at = "account"] \/ request' = Idle(r)
    BY <1>2 DEF ReadStatus
  <2>3. request' \in [Requests -> Request] /\ RequestsOK'
    BY <2>1, <2>2, IdleType, MoveOnType
  <2> QED
    BY <1>2, <2>3 DEF ReadStatus, TypeInv, TypeOK
<1>3. CASE ReadAccount(r)
  <2>1. "record" \in RequestState /\ request[r].at # "idle" /\ DOMAIN txs' = DOMAIN txs
    BY <1>3 DEF ReadAccount, RequestState
  <2>2. request' = [request EXCEPT ![r].at = "record"] \/ request' = Idle(r)
    BY <1>3 DEF ReadAccount
  <2>3. request' \in [Requests -> Request] /\ RequestsOK'
    BY <2>1, <2>2, IdleType, MoveOnType
  <2>4. request[r].sig \in Nat /\ request[r].asset \in Assets
    BY <1>1, <2>1 DEF TypeInv, RequestsOK, RequestOK
  <2>5. answered' \subseteq Nat \X Assets
    BY <1>3, <2>4 DEF ReadAccount, TypeInv, TypeOK
  <2> QED
    BY <1>3, <2>3, <2>5 DEF ReadAccount, TypeInv, TypeOK
<1>4. CASE RpcThrows(r)
  <2>1. request' \in [Requests -> Request] /\ RequestsOK'
    BY <1>4, IdleType DEF RpcThrows
  <2> QED
    BY <1>4, <2>1 DEF RpcThrows, TypeInv, TypeOK
<1>5. CASE Record(r)
  <2> DEFINE sig == request[r].sig
             a   == request[r].asset
  <2>1. sig \in Nat /\ a \in Assets
    BY <1>1, <1>5 DEF TypeInv, RequestsOK, RequestOK, Record
  <2>2. RecordAuthorization(sig, a) \/ RecordRevocation(sig, a)
    BY <1>5 DEF Record
  <2>3. answered' \subseteq Nat \X Assets
    BY <1>5, <2>1 DEF Record, TypeInv, TypeOK
  <2>4. request' \in [Requests -> Request] /\ RequestsOK'
    BY <1>5, IdleType DEF Record
  <2> HIDE DEF sig, a
  <2>5. row' \in [Assets -> {"absent", "ACTIVE", "REVOKED"}] /\ events' \in Seq(Event)
    BY <2>1, <2>2, RecordType
  <2> QED
    BY <1>5, <2>3, <2>4, <2>5 DEF Record, TypeInv, TypeOK
<1> QED
  BY <1>2, <1>3, <1>4, <1>5 DEF Handle

\* A restart forgets every request and keeps the types.
LEMMA TypeRestart ==
    ASSUME TypeInv, Restart, UNCHANGED <<events, answered, txs, delegate>>,
           row' \in [Assets -> {"absent", "ACTIVE", "REVOKED"}]
    PROVE  TypeInv'
<1>1. crashes' \in Nat
  BY DEF Restart, TypeInv, TypeOK
<1>2. request' \in [Requests -> Request] /\ RequestsOK'
  BY DEF Restart, NoRequest, Request, RequestState, RequestsOK, RequestOK
<1> QED
  BY <1>1, <1>2 DEF TypeInv, TypeOK

\* Every step of the server keeps the types.
LEMMA TypeServer ==
    ASSUME TypeInv, Server
    PROVE  TypeInv'
<1>1. ASSUME NEW r \in Requests, Handle(r) PROVE TypeInv'
  BY <1>1, TypeHandle
<1>2. ASSUME NEW r \in Requests, CrashBeforeEvent(r) PROVE TypeInv'
  <2>1. row' \in [Assets -> {"absent", "ACTIVE", "REVOKED"}]
    BY <1>2 DEF CrashBeforeEvent, WriteApproval, WriteRevocation, SetRow, TypeInv, TypeOK
  <2> QED
    BY <1>2, <2>1, TypeRestart DEF CrashBeforeEvent
<1>3. ASSUME NEW r \in Requests, NEW sig \in DOMAIN txs, NEW a \in Assets,
             Submit(r, sig, a)
      PROVE  TypeInv'
  <2>1. sig \in Nat
    BY DEF TypeInv, TypeOK
  <2>2. request' \in [Requests -> Request] /\ RequestsOK'
    BY <1>3, <2>1 DEF Submit, TypeInv, TypeOK, Request, RequestState, RequestsOK, RequestOK
  <2> QED
    BY <1>3, <2>2 DEF Submit, TypeInv, TypeOK
<1>4. ASSUME Crash PROVE TypeInv'
  BY <1>4, TypeRestart DEF Crash, TypeInv, TypeOK
<1> QED
  BY <1>1, <1>2, <1>3, <1>4 DEF Server

\* Every step of the client and the chain keeps the types.
LEMMA TypeOutside ==
    ASSUME TypeInv, Outside
    PROVE  TypeInv'
<1>1. ASSUME NEW approve \in BOOLEAN, NEW assets \in Bundles, Sign(approve, assets)
      PROVE  TypeInv'
  <2>1. [approve |-> approve, assets |-> assets, state |-> "sent"] \in Tx
    BY AuthorizationAssumption DEF Tx
  <2>2. txs' \in Seq(Tx) /\ DOMAIN txs \subseteq DOMAIN txs'
    BY <1>1, <2>1 DEF Sign, TypeInv, TypeOK
  <2>3. RequestsOK'
    BY <1>1, <2>2 DEF Sign, serverVars, TypeInv, RequestsOK, RequestOK
  <2> QED
    BY <1>1, <2>2, <2>3 DEF Sign, serverVars, TypeInv, TypeOK
<1>2. ASSUME NEW sig \in DOMAIN txs, Confirm(sig) PROVE TypeInv'
  <2>1. \E s \in {"confirmed", "err"} : txs' = [txs EXCEPT ![sig].state = s]
    BY <1>2 DEF Confirm
  <2>2. txs' \in Seq(Tx) /\ DOMAIN txs' = DOMAIN txs
    <3>1. PICK s \in {"confirmed", "err"} : txs' = [txs EXCEPT ![sig].state = s]
      BY <2>1
    <3>2. txs \in Seq(Tx) /\ txs[sig] \in Tx
      BY DEF TypeInv, TypeOK
    <3>3. [txs[sig] EXCEPT !.state = s] \in Tx
      BY <3>2 DEF Tx
    <3>4. txs' = [txs EXCEPT ![sig] = [txs[sig] EXCEPT !.state = s]]
      BY <3>1
    <3> QED
      BY <3>2, <3>3, <3>4
  <2>3. delegate' \in [Assets -> {"pooled", "none"}]
    BY <1>2 DEF Confirm, Expected, TypeInv, TypeOK
  <2>4. RequestsOK'
    BY <1>2, <2>2 DEF Confirm, serverVars, TypeInv, RequestsOK, RequestOK
  <2> QED
    BY <1>2, <2>2, <2>3, <2>4 DEF Confirm, serverVars, TypeInv, TypeOK
<1>3. ASSUME NEW a \in Assets, Drain(a) PROVE TypeInv'
  BY <1>3 DEF Drain, serverVars, TypeInv, TypeOK, RequestsOK, RequestOK
<1> QED
  BY <1>1, <1>2, <1>3 DEF Outside

\* The initial states are well typed.
LEMMA TypeInit == Init => TypeInv
BY DEF Init, TypeInv, TypeOK, NoRequest, Request, RequestState, RequestsOK, RequestOK

\* TypeInv is inductive: every step keeps it.
LEMMA TypeStep == TypeInv /\ [Next]_vars => TypeInv'
<1> SUFFICES ASSUME TypeInv, [Next]_vars PROVE TypeInv'
  OBVIOUS
<1>1. CASE UNCHANGED vars
  BY <1>1 DEF vars, serverVars, TypeInv, TypeOK, RequestsOK, RequestOK
<1> QED
  BY <1>1, TypeServer, TypeOutside DEF Next

\* Every variable keeps its type, for any number of assets, requests and
\* transactions.
THEOREM TypeCorrect == Spec => []TypeOK
<1>1. TypeInv => TypeOK
  BY DEF TypeInv
<1> QED
  BY <1>1, TypeInit, TypeStep, PTL DEF Spec

(***************************************************************************)
(* One event per transaction and asset.                                    *)
(***************************************************************************)
LogInv == TypeInv /\ NoDuplicateEvents

\* Recording a report never logs a pair a second time: the look for duplicates
\* and the insertion are in one step.
LEMMA RecordKeepsUnique ==
    ASSUME LogInv, NEW sig \in Nat, NEW a \in Assets,
           RecordAuthorization(sig, a) \/ RecordRevocation(sig, a)
    PROVE  NoDuplicateEvents'
<1>1. CASE UNCHANGED <<row, events>>
  BY <1>1 DEF LogInv, NoDuplicateEvents
<1>2. ASSUME ~ AlreadyProcessed(sig, a), NEW type \in EventType, LogEvent(sig, a, type)
      PROVE  NoDuplicateEvents'
  <2>1. /\ Len(events) \in Nat
        /\ DOMAIN events = 1 .. Len(events)
        /\ DOMAIN events' = 1 .. Len(events) + 1
        /\ \A i \in DOMAIN events : events'[i] = events[i]
        /\ events'[Len(events) + 1] = [sig |-> sig, asset |-> a, type |-> type]
    <3>1. events \in Seq(Event)
      BY DEF LogInv, TypeInv, TypeOK
    <3> QED
      BY <1>2, <3>1, LogType
  <2>4. events'[Len(events) + 1].sig = sig /\ events'[Len(events) + 1].asset = a
    BY <2>1
  <2>2. \A i \in DOMAIN events : ~ (events[i].sig = sig /\ events[i].asset = a)
    BY <1>2 DEF AlreadyProcessed
  <2>3. \A i \in DOMAIN events' : i \in DOMAIN events \/ i = Len(events) + 1
    BY <2>1
  <2> QED
    BY <2>1, <2>2, <2>3, <2>4 DEF LogInv, NoDuplicateEvents
<1> QED
  BY <1>1, <1>2, RecordStep DEF LogInv

\* No step logs a pair a second time; only Record writes the log.
LEMMA StepKeepsUnique ==
    ASSUME LogInv, [Next]_vars
    PROVE  NoDuplicateEvents'
<1>1. ASSUME NEW r \in Requests, Record(r) PROVE NoDuplicateEvents'
  <2>1. request[r].sig \in Nat /\ request[r].asset \in Assets
    BY <1>1 DEF LogInv, TypeInv, TypeOK, RequestsOK, RequestOK, Record
  <2>2. \/ RecordAuthorization(request[r].sig, request[r].asset)
        \/ RecordRevocation(request[r].sig, request[r].asset)
    BY <1>1 DEF Record
  <2> QED
    BY <2>1, <2>2, RecordKeepsUnique
<1>2. CASE UNCHANGED events
  BY <1>2 DEF LogInv, NoDuplicateEvents
<1>3. UNCHANGED events \/ \E r \in Requests : Record(r)
  BY DEF Next, vars, serverVars, Server, Outside, Handle, ReadStatus, ReadAccount,
         RpcThrows, CrashBeforeEvent, Submit, Crash, Sign, Confirm, Drain
<1> QED
  BY <1>1, <1>2, <1>3

\* One transaction is recorded at most once for an asset, for any number of
\* reports in flight together and any number of restarts
\* (authorizationStore.ts 96-108).
THEOREM EventsUnique == Spec => []NoDuplicateEvents
<1>1. Init => LogInv
  BY TypeInit DEF Init, LogInv, NoDuplicateEvents
<1>2. LogInv /\ [Next]_vars => LogInv'
  BY TypeStep, StepKeepsUnique DEF LogInv
<1>3. LogInv => NoDuplicateEvents
  BY DEF LogInv
<1> QED
  BY <1>1, <1>2, <1>3, PTL DEF Spec

(***************************************************************************)
(* Replays.                                                                *)
(***************************************************************************)

\* Only a report that is recorded for the first time makes a revoked asset
\* active again: the step property, from the types alone.
LEMMA ReactivationIsNew ==
    ASSUME TypeInv, [Next]_vars, NEW a \in Assets, row[a] = "REVOKED", row'[a] = "ACTIVE"
    PROVE  \E r \in Requests :
              /\ request[r].at = "record" /\ request[r].asset = a
              /\ \A i \in DOMAIN events :
                    <<events[i].sig, events[i].asset>> # <<request[r].sig, a>>
<1>1. row' # row
  OBVIOUS
<1>2. \E r \in Requests : Record(r) \/ CrashBeforeEvent(r)
  BY <1>1 DEF Next, vars, serverVars, Server, Outside, Handle, ReadStatus, ReadAccount,
         RpcThrows, Submit, Crash, Sign, Confirm, Drain
<1>3. PICK r \in Requests : Record(r) \/ CrashBeforeEvent(r)
  BY <1>2
<1>4. request[r].at = "record" /\ request[r].asset \in Assets
  BY <1>3 DEF Record, CrashBeforeEvent, TypeInv, RequestsOK, RequestOK
<1>5. ~ AlreadyProcessed(request[r].sig, request[r].asset)
      /\ (WriteApproval(request[r].asset) \/ WriteRevocation(request[r].asset))
  BY <1>1, <1>3 DEF Record, CrashBeforeEvent, RecordAuthorization, RecordRevocation
<1>6. request[r].asset = a
  BY <1>4, <1>5 DEF WriteApproval, WriteRevocation, SetRow, TypeInv, TypeOK
<1> QED
  BY <1>4, <1>5, <1>6 DEF AlreadyProcessed

\* Replaying the approval an asset was revoked from never revives it
\* (authorizationStore.ts 110-121).
THEOREM ReplayIsHarmless == Spec => ReplayNeverReactivates
<1>1. TypeInv /\ [Next]_vars
        => [\A a \in Assets :
              row[a] = "REVOKED" /\ row'[a] = "ACTIVE"
                => \E r \in Requests :
                      /\ request[r].at = "record" /\ request[r].asset = a
                      /\ \A i \in DOMAIN events :
                            <<events[i].sig, events[i].asset>> # <<request[r].sig, a>>]_vars
  BY ReactivationIsNew
<1> QED
  BY <1>1, TypeInit, TypeStep, PTL DEF Spec, ReplayNeverReactivates

(***************************************************************************)
(* The log accounts for the rows.                                          *)
(***************************************************************************)

\* The event just logged is the asset's last, and no other asset's.
LEMMA LoggedIsLast ==
    ASSUME events \in Seq(Event), NEW sig \in Nat, NEW a \in Assets,
           NEW type \in EventType, LogEvent(sig, a, type)
    PROVE  /\ LastEvent(a)' = IF type = "REVOKED" THEN "REVOKED" ELSE "ACTIVE"
           /\ \A b \in Assets \ {a} : LastEvent(b)' = LastEvent(b)
<1> DEFINE n == Len(events)
           Of(b) == {i \in DOMAIN events : events[i].asset = b}
<1>1. /\ n \in Nat /\ DOMAIN events = 1 .. n /\ DOMAIN events' = 1 .. n + 1
      /\ \A i \in DOMAIN events : events'[i] = events[i]
      /\ events'[n + 1] = [sig |-> sig, asset |-> a, type |-> type]
  BY LogType
<1> HIDE DEF n
<1>2. events'[n + 1].asset = a /\ events'[n + 1].type = type
  BY <1>1
<1>3. ASSUME NEW b \in Assets \ {a} PROVE LastEvent(b)' = LastEvent(b)
  <2>1. Of(b)' = Of(b)
    BY <1>1, <1>2
  <2> HIDE DEF Of
  <2>2. CASE Of(b) = {}
    BY <2>1, <2>2 DEF LastEvent, Of
  <2>3. CASE Of(b) # {}
    <3> DEFINE last == CHOOSE i \in Of(b) : \A j \in Of(b) : j <= i
    <3>1. \E i \in Of(b) : \A j \in Of(b) : j <= i
      <4>1. Of(b) \subseteq 1 .. n
        BY <1>1 DEF Of
      <4>2. IsFiniteSet(1 .. n)
        BY <1>1, FS_Interval
      <4>3. IsFiniteSet(Of(b))
        BY <4>1, <4>2, FS_Subset
      <4>4. Of(b) \subseteq Int
        BY <4>1
      <4> QED
        BY <2>3, <4>3, <4>4, LargestMember
    <3>2. last \in Of(b)
      BY <3>1
    <3> HIDE DEF last
    <3>3. last \in DOMAIN events
      BY <3>2 DEF Of
    <3>4. events'[last] = events[last]
      BY <1>1, <3>3
    <3>5. LastEvent(b) = IF events[last].type = "REVOKED" THEN "REVOKED" ELSE "ACTIVE"
      BY <2>3 DEF LastEvent, Of, last
    <3>6. LastEvent(b)' = IF events'[last].type = "REVOKED" THEN "REVOKED" ELSE "ACTIVE"
      BY <2>1, <2>3 DEF LastEvent, Of, last
    <3> QED
      BY <3>4, <3>5, <3>6
  <2> QED
    BY <2>2, <2>3
<1>4. LastEvent(a)' = IF type = "REVOKED" THEN "REVOKED" ELSE "ACTIVE"
  <2> DEFINE S == {i \in DOMAIN events' : events'[i].asset = a}
  <2>1. n + 1 \in S /\ S \subseteq 1 .. n + 1
    BY <1>1, <1>2
  <2>2. LastEvent(a)'
          = IF S = {} THEN "absent"
            ELSE LET last == CHOOSE i \in S : \A j \in S : j <= i
                 IN  IF events'[last].type = "REVOKED" THEN "REVOKED" ELSE "ACTIVE"
    BY DEF LastEvent
  <2> HIDE DEF S
  <2>3. (CHOOSE i \in S : \A j \in S : j <= i) = n + 1
    <3>1. \A j \in S : j <= n + 1
      BY <1>1, <2>1
    <3>2. \A i \in S : (\A j \in S : j <= i) => i = n + 1
      BY <1>1, <2>1
    <3> QED
      BY <2>1, <3>1, <3>2
  <2> QED
    BY <1>2, <2>1, <2>2, <2>3
<1> QED
  BY <1>3, <1>4

\* Until the server first stops, each row is as its last event left it.
LogAccountsInv == TypeInv /\ (crashes = 0 => LogMatchesRow)

\* Recording a report writes the row and the event that accounts for it.
LEMMA RecordKeepsAccount ==
    ASSUME TypeInv, LogMatchesRow, NEW sig \in Nat, NEW a \in Assets,
           RecordAuthorization(sig, a) \/ RecordRevocation(sig, a)
    PROVE  LogMatchesRow'
<1>1. CASE UNCHANGED <<row, events>>
  BY <1>1 DEF LogMatchesRow, LastEvent
<1>2. ASSUME NEW s \in {"ACTIVE", "REVOKED"}, NEW type \in EventType,
             SetRow(a, s), LogEvent(sig, a, type), type = "REVOKED" <=> s = "REVOKED"
      PROVE  LogMatchesRow'
  <2>1. row \in [Assets -> {"absent", "ACTIVE", "REVOKED"}] /\ events \in Seq(Event)
    BY DEF TypeInv, TypeOK
  <2>2. /\ LastEvent(a)' = IF type = "REVOKED" THEN "REVOKED" ELSE "ACTIVE"
        /\ \A b \in Assets \ {a} : LastEvent(b)' = LastEvent(b)
    BY <1>2, <2>1, LoggedIsLast
  <2>3. row'[a] = s /\ \A b \in Assets \ {a} : row'[b] = row[b]
    BY <1>2, <2>1 DEF SetRow
  <2>4. \A b \in Assets : row'[b] = LastEvent(b)'
    BY <1>2, <2>2, <2>3 DEF LogMatchesRow
  <2> QED
    BY <2>4 DEF LogMatchesRow
<1>3. CASE RecordAuthorization(sig, a)
  <2>1. CASE WriteApproval(a) /\ LogApproval(sig, a)
    <3> DEFINE type == IF row[a] = "absent" THEN "APPROVED" ELSE "RE_APPROVED"
    <3>1. type \in EventType /\ type # "REVOKED"
      BY DEF EventType
    <3>2. SetRow(a, "ACTIVE") /\ LogEvent(sig, a, type)
      BY <2>1 DEF WriteApproval, LogApproval
    <3> HIDE DEF type
    <3> QED
      BY <1>2, <3>1, <3>2
  <2> QED
    BY <1>1, <1>3, <2>1 DEF RecordAuthorization
<1>4. CASE RecordRevocation(sig, a)
  <2>1. CASE WriteRevocation(a) /\ LogEvent(sig, a, "REVOKED")
    <3>1. "REVOKED" \in EventType /\ SetRow(a, "REVOKED")
      BY <2>1 DEF EventType, WriteRevocation
    <3> QED
      BY <1>2, <2>1, <3>1
  <2> QED
    BY <1>1, <1>4, <2>1 DEF RecordRevocation
<1> QED
  BY <1>3, <1>4

\* Only a stop between the two statements separates a row from its event.
LEMMA StepKeepsAccount ==
    ASSUME LogAccountsInv, [Next]_vars, crashes' = 0
    PROVE  LogMatchesRow'
<1>1. ASSUME NEW r \in Requests, Record(r) PROVE LogMatchesRow'
  <2>1. request[r].sig \in Nat /\ request[r].asset \in Assets
    BY <1>1 DEF LogAccountsInv, TypeInv, TypeOK, RequestsOK, RequestOK, Record
  <2>2. \/ RecordAuthorization(request[r].sig, request[r].asset)
        \/ RecordRevocation(request[r].sig, request[r].asset)
    BY <1>1 DEF Record
  <2>3. crashes = 0
    BY <1>1 DEF Record
  <2> QED
    BY <2>1, <2>2, <2>3, RecordKeepsAccount DEF LogAccountsInv
<1>2. ~ Restart
  BY DEF Restart, LogAccountsInv, TypeInv, TypeOK
<1>3. UNCHANGED <<row, events, crashes>> \/ \E r \in Requests : Record(r)
  BY <1>2 DEF Next, vars, serverVars, Server, Outside, Handle, ReadStatus, ReadAccount,
         RpcThrows, CrashBeforeEvent, Submit, Crash, Sign, Confirm, Drain
<1>4. CASE UNCHANGED <<row, events, crashes>>
  <2>1. LogMatchesRow
    BY <1>4 DEF LogAccountsInv
  <2> QED
    BY <1>4, <2>1 DEF LogMatchesRow, LastEvent
<1> QED
  BY <1>1, <1>3, <1>4

\* For any number of assets, transactions and reports in flight together, the
\* log accounts for every row until the server first stops; it may stop between
\* the two statements (authorizationStore.ts 127-176, 189-213).
THEOREM LogAccountsForRows == Spec => [](crashes = 0 => LogMatchesRow)
<1>1. Init => LogAccountsInv
  <2>1. Init => LogMatchesRow
    BY DEF Init, LogMatchesRow, LastEvent
  <2> QED
    BY <2>1, TypeInit DEF LogAccountsInv
<1>2. LogAccountsInv /\ [Next]_vars => LogAccountsInv'
  BY TypeStep, StepKeepsAccount DEF LogAccountsInv
<1>3. LogAccountsInv => (crashes = 0 => LogMatchesRow)
  BY DEF LogAccountsInv
<1> QED
  BY <1>1, <1>2, <1>3, PTL DEF Spec

(***************************************************************************)
(* The ceiling on a client's SPL assets.                                   *)
(***************************************************************************)

\* A row that comes into being was within the ceiling when it was written.
LEMMA NewRowCounted ==
    ASSUME TypeInv, [Next]_vars, NEW a \in Assets \ {SolAsset},
           row[a] = "absent", row'[a] # "absent"
    PROVE  Cardinality(ActiveSpl') <= MaxSpl
<1>1. \E r \in Requests : Record(r) \/ CrashBeforeEvent(r)
  BY DEF Next, vars, serverVars, Server, Outside, Handle, ReadStatus, ReadAccount,
         RpcThrows, Submit, Crash, Sign, Confirm, Drain
<1>2. PICK r \in Requests : Record(r) \/ CrashBeforeEvent(r)
  BY <1>1
<1> DEFINE b == request[r].asset
<1>3. b \in Assets
  BY <1>2 DEF Record, CrashBeforeEvent, TypeInv, RequestsOK, RequestOK
<1>4. WriteApproval(b) \/ WriteRevocation(b)
  BY <1>2 DEF Record, CrashBeforeEvent, RecordAuthorization, RecordRevocation
<1> HIDE DEF b
<1>5. b = a /\ WriteApproval(a)
  BY <1>3, <1>4 DEF WriteApproval, WriteRevocation, SetRow, TypeInv, TypeOK
<1>6. Cardinality(ActiveSpl) < MaxSpl
  BY <1>5 DEF WriteApproval, AdmitsNewRow
<1>7. ActiveSpl' = ActiveSpl \cup {a} /\ a \notin ActiveSpl
  BY <1>5 DEF WriteApproval, SetRow, ActiveSpl, TypeInv, TypeOK
<1>8. IsFiniteSet(ActiveSpl)
  BY AuthorizationAssumption, FS_Subset DEF ActiveSpl
<1>9. Cardinality(ActiveSpl') = Cardinality(ActiveSpl) + 1 /\ Cardinality(ActiveSpl) \in Nat
  BY <1>7, <1>8, FS_AddElement, FS_CardinalityType
<1> QED
  BY <1>6, <1>9, AuthorizationAssumption

\* A first approval never takes the client over the ceiling, for any ceiling
\* and any number of reports in flight together (authorizationStore.ts 135-145).
THEOREM CeilingKept == Spec => NewRowsWithinLimit
<1>1. TypeInv /\ [Next]_vars
        => [\A a \in Assets \ {SolAsset} :
              row[a] = "absent" /\ row'[a] # "absent"
                => Cardinality(ActiveSpl') <= MaxSpl]_vars
  BY NewRowCounted
<1> QED
  BY <1>1, TypeInit, TypeStep, PTL DEF Spec, NewRowsWithinLimit

(***************************************************************************)
(* One report at a time: an account that still delegates to the pooled     *)
(* wallet is not taken for revoked.                                        *)
(***************************************************************************)

\* A confirmed approval that covers the asset still waits for its answer.
Owed(a) ==
    \E sig \in DOMAIN txs :
        /\ txs[sig].approve /\ a \in txs[sig].assets
        /\ txs[sig].state = "confirmed" /\ <<sig, a>> \notin answered

\* A revocation that has passed its checks is about to be recorded.
Revoking(r, a) ==
    request[r].at = "record" /\ request[r].asset = a /\ ~ txs[request[r].sig].approve

\* What was answered for good, and what is past the first check, has landed;
\* what was recorded has been answered.
AnsweredLanded ==
    \A sig \in Nat, a \in Assets :
        <<sig, a>> \in answered => sig \in DOMAIN txs /\ txs[sig].state = "confirmed"

HandledLanded ==
    \A r \in Requests :
        request[r].at \in {"account", "record"} => txs[request[r].sig].state = "confirmed"

LoggedAnswered ==
    \A i \in DOMAIN events : <<events[i].sig, events[i].asset>> \in answered

\* A delegated account that is revoked, or about to be, has an approval the
\* client is still owed an answer for.
PooledIsOwed ==
    \A a \in Assets :
        /\ delegate[a] = "pooled"
        /\ row[a] = "REVOKED" \/ \E r \in Requests : Revoking(r, a)
        => Owed(a)

\* The inductive invariant.
ChainInv ==
    /\ TypeInv
    /\ AnsweredLanded
    /\ HandledLanded
    /\ LoggedAnswered
    /\ PooledIsOwed

AtMostOneRequest == \A r1, r2 \in Requests : r1 = r2

\* What TypeInv says of the transactions and of a request past its arrival.
LEMMA ChainTypes ==
    ASSUME TypeInv
    PROVE  /\ txs \in Seq(Tx) /\ DOMAIN txs \subseteq Nat
           /\ request \in [Requests -> Request]
           /\ \A r \in Requests : request[r].at # "idle" =>
                 /\ request[r].sig \in DOMAIN txs /\ request[r].sig \in Nat
                 /\ request[r].asset \in Assets
           /\ \A sig \in DOMAIN txs : txs[sig].state \in {"sent", "confirmed", "err"}
<1>1. txs \in Seq(Tx) /\ request \in [Requests -> Request]
  BY DEF TypeInv, TypeOK
<1>2. \A sig \in DOMAIN txs : sig \in Nat /\ txs[sig] \in Tx
  BY <1>1
<1> QED
  BY <1>1, <1>2 DEF TypeInv, RequestsOK, RequestOK, Tx

\* A request that is freed disturbs nothing.
LEMMA ChainIdle ==
    ASSUME ChainInv, NEW r \in Requests, request' = Idle(r),
           UNCHANGED <<row, events, txs, delegate, answered>>
    PROVE  HandledLanded' /\ PooledIsOwed'
<1>1. \A q \in Requests : request'[q] = request[q] \/ request'[q].at = "idle"
  BY ChainTypes DEF ChainInv, Idle, NoRequest
<1>2. HandledLanded'
  BY <1>1 DEF HandledLanded, ChainInv
<1>3. \A q \in Requests, a \in Assets : Revoking(q, a)' => Revoking(q, a)
  BY <1>1 DEF Revoking
<1>4. PooledIsOwed'
  BY <1>3 DEF PooledIsOwed, Owed, ChainInv
<1> QED
  BY <1>2, <1>4

\* The two awaits.
LEMMA ChainReads ==
    ASSUME ChainInv, NEW r \in Requests, ReadStatus(r) \/ ReadAccount(r) \/ RpcThrows(r)
    PROVE  AnsweredLanded' /\ HandledLanded' /\ LoggedAnswered' /\ PooledIsOwed'
<1>1. CASE ReadStatus(r) /\ txs[request[r].sig].state = "confirmed"
  <2>1. request' = [request EXCEPT ![r].at = "account"]
        /\ UNCHANGED <<row, events, answered, txs, delegate>>
    BY <1>1 DEF ReadStatus
  <2>2. \A q \in Requests :
          \/ request'[q] = request[q]
          \/ request'[q].at = "account" /\ request'[q].sig = request[q].sig
                /\ txs[request[q].sig].state = "confirmed"
    BY <1>1, <2>1, ChainTypes DEF ChainInv, Request
  <2>3. HandledLanded'
    BY <2>1, <2>2 DEF HandledLanded, ChainInv
  <2>4. \A q \in Requests, a \in Assets : Revoking(q, a)' => Revoking(q, a)
    BY <2>1, <2>2 DEF Revoking
  <2>5. PooledIsOwed'
    BY <2>1, <2>4 DEF PooledIsOwed, Owed, ChainInv
  <2> QED
    BY <2>1, <2>3, <2>5 DEF AnsweredLanded, LoggedAnswered, ChainInv
<1>2. CASE /\ request' = Idle(r)
           /\ UNCHANGED <<row, events, txs, delegate, answered>>
  BY <1>2, ChainIdle DEF AnsweredLanded, LoggedAnswered, ChainInv
<1>3. ASSUME ReadAccount(r)
      PROVE  AnsweredLanded' /\ HandledLanded' /\ LoggedAnswered' /\ PooledIsOwed'
  <2> DEFINE sig == request[r].sig
             b   == request[r].asset
  <2>1. /\ sig \in DOMAIN txs /\ sig \in Nat /\ b \in Assets
        /\ txs[sig].state = "confirmed"
    BY <1>3, ChainTypes DEF ChainInv, HandledLanded, ReadAccount
  <2>2. UNCHANGED <<row, events, txs, delegate>>
    BY <1>3 DEF ReadAccount
  <2>3. CASE delegate[b] = Expected(sig)
    <3>1. request' = [request EXCEPT ![r].at = "record"] /\ answered' = answered
      BY <1>3, <2>3 DEF ReadAccount
    <3>2. \A q \in Requests :
            \/ request'[q] = request[q]
            \/ q = r /\ request'[q].sig = sig /\ request'[q].asset = b
      BY <3>1, ChainTypes DEF ChainInv, Request
    <3>3. HandledLanded'
      BY <2>1, <2>2, <3>2 DEF HandledLanded, ChainInv
    <3>4. \A q \in Requests, a \in Assets :
            Revoking(q, a)' => Revoking(q, a) \/ delegate[a] = "none"
      BY <2>2, <2>3, <3>2 DEF Revoking, Expected
    <3>5. PooledIsOwed'
      BY <2>2, <3>1, <3>4 DEF PooledIsOwed, Owed, ChainInv
    <3> QED
      BY <2>2, <3>1, <3>3, <3>5 DEF AnsweredLanded, LoggedAnswered, ChainInv
  <2>4. CASE delegate[b] # Expected(sig)
    <3>1. request' = Idle(r) /\ answered' = answered \cup {<<sig, b>>}
      BY <1>3, <2>4 DEF ReadAccount
    <3>2. \A q \in Requests : request'[q] = request[q] \/ request'[q].at = "idle"
      BY <3>1, ChainTypes DEF ChainInv, Idle, NoRequest
    <3>3. HandledLanded'
      BY <2>2, <3>2 DEF HandledLanded, ChainInv
    <3>4. \A q \in Requests, a \in Assets : Revoking(q, a)' => Revoking(q, a)
      BY <2>2, <3>2 DEF Revoking
    <3>5. AnsweredLanded'
      BY <2>1, <2>2, <3>1 DEF AnsweredLanded, ChainInv
    <3>6. LoggedAnswered'
      BY <2>2, <3>1 DEF LoggedAnswered, ChainInv
    <3>7. \A a \in Assets : delegate[a] = "pooled" /\ Owed(a) => Owed(a)'
      BY <2>2, <2>4, <3>1 DEF Owed, Expected
    <3>8. PooledIsOwed'
      BY <2>2, <3>4, <3>7 DEF PooledIsOwed, ChainInv
    <3> QED
      BY <3>3, <3>5, <3>6, <3>8
  <2> QED
    BY <2>3, <2>4
<1> QED
  BY <1>1, <1>2, <1>3 DEF ReadStatus, RpcThrows

\* What one report may do to the rows and the log.
LEMMA RecordCases ==
    ASSUME TypeInv, NEW sig \in Nat, NEW a \in Assets,
           RecordAuthorization(sig, a) \/ RecordRevocation(sig, a)
    PROVE  /\ \A b \in Assets \ {a} : row'[b] = row[b]
           /\ events' = events
              \/ \E type \in EventType : LogEvent(sig, a, type)
BY DEF RecordAuthorization, RecordRevocation, WriteApproval, WriteRevocation, SetRow,
       LogApproval, EventType, TypeInv, TypeOK

\* An approval recorded for the first time revives a revoked row.
LEMMA ApprovalRevives ==
    ASSUME TypeInv, NEW sig \in Nat, NEW a \in Assets,
           RecordAuthorization(sig, a), ~ AlreadyProcessed(sig, a)
    PROVE  row'[a] # "REVOKED"
BY DEF RecordAuthorization, WriteApproval, SetRow, TypeInv, TypeOK

\* Recording a report, with no other request being handled.
LEMMA ChainRecord ==
    ASSUME ChainInv, AtMostOneRequest, NEW r \in Requests, Record(r)
    PROVE  AnsweredLanded' /\ HandledLanded' /\ LoggedAnswered' /\ PooledIsOwed'
<1> DEFINE sig == request[r].sig
           b   == request[r].asset
<1>1. /\ request[r].at = "record"
      /\ answered' = answered \cup {<<sig, b>>}
      /\ request' = Idle(r)
      /\ UNCHANGED <<txs, delegate>>
      /\ IF txs[sig].approve THEN RecordAuthorization(sig, b)
                             ELSE RecordRevocation(sig, b)
  BY DEF Record
<1>2. /\ sig \in DOMAIN txs /\ sig \in Nat /\ b \in Assets
      /\ txs[sig].state = "confirmed"
  BY <1>1, ChainTypes DEF ChainInv, HandledLanded
<1>3. TypeInv
  BY DEF ChainInv
<1>4. \A q \in Requests : request'[q].at = "idle"
  BY <1>1, ChainTypes DEF ChainInv, Idle, NoRequest, AtMostOneRequest
<1>5. HandledLanded' /\ \A q \in Requests, a \in Assets : ~ Revoking(q, a)'
  BY <1>4 DEF HandledLanded, Revoking
<1>6. AnsweredLanded'
  BY <1>1, <1>2 DEF AnsweredLanded, ChainInv
<1>7. /\ \A a \in Assets \ {b} : row'[a] = row[a]
      /\ events' = events \/ \E type \in EventType : LogEvent(sig, b, type)
  <2> HIDE DEF sig, b
  <2> QED
    BY <1>1, <1>2, <1>3, RecordCases
<1>8. LoggedAnswered'
  <2>1. CASE events' = events
    BY <1>1, <2>1 DEF LoggedAnswered, ChainInv
  <2>2. ASSUME NEW type \in EventType, LogEvent(sig, b, type) PROVE LoggedAnswered'
    <3>1. events \in Seq(Event)
      BY <1>3 DEF TypeInv, TypeOK
    <3> HIDE DEF sig, b
    <3>2. /\ Len(events) \in Nat /\ DOMAIN events = 1 .. Len(events)
          /\ DOMAIN events' = 1 .. Len(events) + 1
          /\ \A i \in DOMAIN events : events'[i] = events[i]
          /\ events'[Len(events) + 1] = [sig |-> sig, asset |-> b, type |-> type]
      BY <1>2, <2>2, <3>1, LogType
    <3>3. \A i \in DOMAIN events' : i \in DOMAIN events \/ i = Len(events) + 1
      BY <3>2
    <3>4. events'[Len(events) + 1].sig = sig /\ events'[Len(events) + 1].asset = b
      BY <3>2
    <3> QED
      BY <1>1, <3>2, <3>3, <3>4 DEF LoggedAnswered, ChainInv
  <2> QED
    BY <1>7, <2>1, <2>2
<1>9. ASSUME NEW a \in Assets, delegate'[a] = "pooled", row'[a] = "REVOKED"
      PROVE  Owed(a)'
  <2>1. CASE txs[sig].approve
    <3>1. CASE a = b
      <4>1. AlreadyProcessed(sig, b)
        <5> HIDE DEF sig, b
        <5> QED
          BY <1>1, <1>2, <1>3, <1>9, <2>1, <3>1, ApprovalRevives
      <4>2. <<sig, b>> \in answered
        BY <4>1 DEF AlreadyProcessed, LoggedAnswered, ChainInv
      <4>3. answered' = answered
        BY <1>1, <4>2
      <4>4. row'[a] = row[a]
        BY <1>1, <2>1, <3>1, <4>1 DEF RecordAuthorization
      <4>5. Owed(a)
        BY <1>1, <1>9, <4>4 DEF PooledIsOwed, ChainInv
      <4> QED
        BY <1>1, <4>3, <4>5 DEF Owed
    <3>2. CASE a # b
      <4>1. Owed(a)
        BY <1>1, <1>7, <1>9, <3>2 DEF PooledIsOwed, ChainInv
      <4> QED
        BY <1>1, <3>2, <4>1 DEF Owed
    <3> QED
      BY <3>1, <3>2
  <2>2. CASE ~ txs[sig].approve
    <3>1. a = b => Revoking(r, a)
      BY <1>1, <2>2 DEF Revoking
    <3>2. Owed(a)
      BY <1>1, <1>7, <1>9, <3>1 DEF PooledIsOwed, ChainInv
    <3> QED
      BY <1>1, <2>2, <3>2 DEF Owed
  <2> QED
    BY <2>1, <2>2
<1>10. PooledIsOwed'
  BY <1>5, <1>9 DEF PooledIsOwed
<1> QED
  BY <1>5, <1>6, <1>8, <1>10

\* The server stops, possibly with a row written and its event not.
LEMMA ChainRestart ==
    ASSUME ChainInv, Crash \/ \E r \in Requests : CrashBeforeEvent(r)
    PROVE  AnsweredLanded' /\ HandledLanded' /\ LoggedAnswered' /\ PooledIsOwed'
<1>1. UNCHANGED <<events, answered, txs, delegate>>
  BY DEF Crash, CrashBeforeEvent
<1>2. \A q \in Requests : request'[q].at = "idle"
  BY DEF Crash, CrashBeforeEvent, Restart, NoRequest
<1>3. HandledLanded' /\ \A q \in Requests, a \in Assets : ~ Revoking(q, a)'
  BY <1>2 DEF HandledLanded, Revoking
<1>4. ASSUME NEW a \in Assets, row'[a] = "REVOKED"
      PROVE  row[a] = "REVOKED" \/ \E r \in Requests : Revoking(r, a)
  <2>1. CASE Crash
    BY <1>4, <2>1 DEF Crash
  <2>2. ASSUME NEW r \in Requests, CrashBeforeEvent(r)
        PROVE  row[a] = "REVOKED" \/ Revoking(r, a)
    <3>1. row \in [Assets -> {"absent", "ACTIVE", "REVOKED"}]
      BY DEF ChainInv, TypeInv, TypeOK
    <3>2. CASE txs[request[r].sig].approve
      BY <1>4, <2>2, <3>1, <3>2 DEF CrashBeforeEvent, WriteApproval, SetRow
    <3>3. CASE ~ txs[request[r].sig].approve
      BY <1>4, <2>2, <3>1, <3>3 DEF CrashBeforeEvent, WriteRevocation, SetRow, Revoking
    <3> QED
      BY <3>2, <3>3
  <2> QED
    BY <2>1, <2>2
<1>5. PooledIsOwed'
  BY <1>1, <1>3, <1>4 DEF PooledIsOwed, Owed, ChainInv
<1> QED
  BY <1>1, <1>3, <1>5 DEF AnsweredLanded, LoggedAnswered, ChainInv

\* A report arrives.
LEMMA ChainSubmit ==
    ASSUME ChainInv, NEW r \in Requests, NEW sig \in DOMAIN txs, NEW b \in Assets,
           Submit(r, sig, b)
    PROVE  AnsweredLanded' /\ HandledLanded' /\ LoggedAnswered' /\ PooledIsOwed'
<1>1. UNCHANGED <<row, events, answered, txs, delegate>>
  BY DEF Submit
<1>2. \A q \in Requests : request'[q] = request[q] \/ request'[q].at = "status"
  BY ChainTypes DEF ChainInv, Submit
<1>3. HandledLanded' /\ \A q \in Requests, a \in Assets : Revoking(q, a)' => Revoking(q, a)
  BY <1>1, <1>2 DEF HandledLanded, Revoking, ChainInv
<1>4. PooledIsOwed'
  BY <1>1, <1>3 DEF PooledIsOwed, Owed, ChainInv
<1> QED
  BY <1>1, <1>3, <1>4 DEF AnsweredLanded, LoggedAnswered, ChainInv

\* The client signs, the chain confirms, a sweep drains.
LEMMA ChainOutside ==
    ASSUME ChainInv, Outside
    PROVE  AnsweredLanded' /\ HandledLanded' /\ LoggedAnswered' /\ PooledIsOwed'
<1>1. txs \in Seq(Tx) /\ delegate \in [Assets -> {"pooled", "none"}]
  BY DEF ChainInv, TypeInv, TypeOK
<1>2. UNCHANGED <<row, events, request, answered>>
  BY DEF Outside, Sign, Confirm, Drain, serverVars
<1>3. ASSUME NEW sig \in DOMAIN txs
      PROVE  /\ sig \in DOMAIN txs' /\ txs'[sig].approve = txs[sig].approve
             /\ txs'[sig].assets = txs[sig].assets
             /\ txs[sig].state = "confirmed" => txs'[sig].state = "confirmed"
  <2>1. ASSUME NEW approve \in BOOLEAN, NEW assets \in Bundles, Sign(approve, assets)
        PROVE  txs'[sig] = txs[sig] /\ sig \in DOMAIN txs'
    BY <1>1, <2>1 DEF Sign
  <2>2. ASSUME NEW s \in DOMAIN txs, Confirm(s)
        PROVE  /\ sig \in DOMAIN txs' /\ txs'[sig].approve = txs[sig].approve
               /\ txs'[sig].assets = txs[sig].assets
               /\ txs[sig].state = "confirmed" => txs'[sig].state = "confirmed"
    <3>1. PICK o \in {"confirmed", "err"} : txs' = [txs EXCEPT ![s].state = o]
      BY <2>2 DEF Confirm
    <3>2. txs[s].state = "sent" /\ txs[s] \in Tx
      BY <1>1, <2>2 DEF Confirm
    <3> QED
      BY <1>1, <3>1, <3>2 DEF Tx
  <2>3. ASSUME NEW a \in Assets, Drain(a) PROVE txs' = txs
    BY <2>3 DEF Drain
  <2> QED
    BY <2>1, <2>2, <2>3 DEF Outside
<1>4. AnsweredLanded'
  BY <1>2, <1>3 DEF AnsweredLanded, ChainInv
<1>5. \A r \in Requests : request[r].at # "idle" => request[r].sig \in DOMAIN txs
  BY ChainTypes DEF ChainInv
<1>6. HandledLanded'
  BY <1>2, <1>3, <1>5 DEF HandledLanded, ChainInv
<1>7. \A q \in Requests, a \in Assets : Revoking(q, a)' => Revoking(q, a)
  BY <1>2, <1>3, <1>5 DEF Revoking
<1>8. \A a \in Assets : Owed(a) => Owed(a)'
  BY <1>2, <1>3 DEF Owed
<1>9. ASSUME NEW a \in Assets, delegate'[a] = "pooled", delegate[a] # "pooled"
      PROVE  Owed(a)'
  <2>1. ~ \E approve \in BOOLEAN, assets \in Bundles : Sign(approve, assets)
    BY <1>9 DEF Sign
  <2>2. ~ \E b \in Assets : Drain(b)
    BY <1>1, <1>9 DEF Drain
  <2>3. PICK sig \in DOMAIN txs : Confirm(sig)
    BY <2>1, <2>2 DEF Outside
  <2>4. /\ txs' = [txs EXCEPT ![sig].state = "confirmed"]
        /\ delegate' = [b \in Assets |-> IF b \in txs[sig].assets
                                         THEN Expected(sig) ELSE delegate[b]]
    BY <1>9, <2>3 DEF Confirm
  <2>5. a \in txs[sig].assets /\ txs[sig].approve
    BY <1>9, <2>4 DEF Expected
  <2>6. sig \in Nat /\ txs[sig].state = "sent"
    BY <1>1, <2>3 DEF Confirm
  <2>7. <<sig, a>> \notin answered
    BY <2>6 DEF AnsweredLanded, ChainInv
  <2>8. txs[sig] \in Tx
    BY <1>1
  <2>9. txs'[sig].state = "confirmed"
    BY <1>1, <2>4, <2>8 DEF Tx
  <2> QED
    BY <1>2, <1>3, <2>5, <2>7, <2>9 DEF Owed
<1>10. PooledIsOwed'
  BY <1>2, <1>7, <1>8, <1>9 DEF PooledIsOwed, ChainInv
<1> QED
  BY <1>2, <1>4, <1>6, <1>10 DEF LoggedAnswered, ChainInv

\* ChainInv is inductive while at most one report is handled at a time.
LEMMA ChainStep ==
    ASSUME AtMostOneRequest, ChainInv, [Next]_vars
    PROVE  ChainInv'
<1>1. TypeInv'
  BY TypeStep DEF ChainInv
<1>2. CASE UNCHANGED vars
  BY <1>1, <1>2 DEF vars, serverVars, ChainInv, AnsweredLanded, HandledLanded,
                    LoggedAnswered, PooledIsOwed, Owed, Revoking
<1>3. ASSUME NEW r \in Requests, Handle(r)
      PROVE  AnsweredLanded' /\ HandledLanded' /\ LoggedAnswered' /\ PooledIsOwed'
  BY <1>3, ChainReads, ChainRecord DEF Handle
<1>4. CASE Server
  BY <1>1, <1>3, <1>4, ChainSubmit, ChainRestart DEF Server, ChainInv
<1>5. CASE Outside
  BY <1>1, <1>5, ChainOutside DEF ChainInv
<1> QED
  BY <1>2, <1>4, <1>5 DEF Next

\* Settled and delegated: the approval that is owed an answer has had it.
LEMMA ChainImplies == ChainInv => DelegatedIsNotRevoked
<1> SUFFICES ASSUME ChainInv, Settled, NEW a \in Assets,
                    delegate[a] = "pooled", row[a] = "REVOKED"
             PROVE  FALSE
  BY DEF DelegatedIsNotRevoked
<1>1. Owed(a)
  BY DEF ChainInv, PooledIsOwed
<1> QED
  BY <1>1 DEF Owed, Settled

\* When reports are handled one at a time, the server restarting as it may,
\* the row never ends up REVOKED with the account delegated
\* (processAuthorization.ts 61-190).
THEOREM DelegatedNotRevoked ==
    ASSUME AtMostOneRequest
    PROVE  Spec => []DelegatedIsNotRevoked
<1>1. Init => ChainInv
  BY TypeInit DEF Init, ChainInv, AnsweredLanded, HandledLanded, LoggedAnswered,
                  PooledIsOwed, NoRequest
<1>2. ChainInv /\ [Next]_vars => ChainInv'
  BY ChainStep
<1> QED
  BY <1>1, <1>2, ChainImplies, PTL DEF Spec
=============================================================================
