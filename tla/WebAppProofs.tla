---------------------------- MODULE WebAppProofs ----------------------------
(***************************************************************************)
(* What the tab shows is what the server recorded, for every set of        *)
(* wallets and assets, whatever is switched, reloaded or answered late.    *)
(***************************************************************************)
EXTENDS WebApp, FiniteSetTheorems, TLAPS

-----------------------------------------------------------------------------
(* Sequences.                                                              *)

\* The sequence of a finite set holds its members, and is empty only for the
\* empty set.
LEMMA SetSeq ==
    ASSUME NEW S, IsFiniteSet(S)
    PROVE  /\ SetToSeq(S) \in Seq(S)
           /\ S # {} => SetToSeq(S) # <<>>
<1>1. PICK f \in [1 .. Cardinality(S) -> S] : IsInjective(f)
  BY FS_CardinalityType DEF ExistsBijection, Bijection, Injection, IsInjective
<1>2. Cardinality(S) \in Nat /\ (S # {} => Cardinality(S) # 0)
  BY FS_CardinalityType, FS_EmptySet
<1>3. SetToSeq(S) \in [1 .. Cardinality(S) -> S]
  BY <1>1 DEF SetToSeq
<1> QED
  BY <1>2, <1>3

\* What stands where in a concatenation.
LEMMA Concatenated ==
    ASSUME NEW T, NEW u \in Seq(T), NEW v \in Seq(T)
    PROVE  /\ u \o v \in Seq(T)
           /\ Len(u \o v) = Len(u) + Len(v)
           /\ \A j \in 1 .. Len(u) + Len(v) :
                (u \o v)[j] = IF j <= Len(u) THEN u[j] ELSE v[j - Len(u)]
OBVIOUS

\* Removing an element leaves others, each of which was there.
LEMMA RemoveType ==
    ASSUME NEW T, NEW s \in Seq(T), NEW i \in DOMAIN s
    PROVE  /\ RemoveAt(s, i) \in Seq(T)
           /\ \A j \in DOMAIN RemoveAt(s, i) : \E k \in DOMAIN s : RemoveAt(s, i)[j] = s[k]
<1> DEFINE u == SubSeq(s, 1, i - 1)
           v == SubSeq(s, i + 1, Len(s))
<1>1. u \in Seq(T) /\ Len(u) = i - 1 /\ \A j \in 1 .. i - 1 : u[j] = s[j]
  OBVIOUS
<1>2. v \in Seq(T) /\ Len(v) = Len(s) - i /\ \A j \in 1 .. Len(s) - i : v[j] = s[i + j]
  OBVIOUS
<1>3. RemoveAt(s, i) = u \o v
  BY DEF RemoveAt
<1>4. i \in 1 .. Len(s) /\ Len(s) \in Nat /\ DOMAIN s = 1 .. Len(s)
  OBVIOUS
<1> HIDE DEF u, v
<1>5. /\ u \o v \in Seq(T)
      /\ Len(u \o v) = Len(u) + Len(v)
      /\ \A j \in 1 .. Len(u) + Len(v) :
           (u \o v)[j] = IF j <= Len(u) THEN u[j] ELSE v[j - Len(u)]
  BY <1>1, <1>2, Concatenated
<1>6. DOMAIN (u \o v) = 1 .. Len(s) - 1
  <2>1. Len(u) = i - 1 /\ Len(v) = Len(s) - i
    BY <1>1, <1>2
  <2>2. Len(u \o v) = Len(s) - 1
    BY <1>4, <1>5, <2>1
  <2>3. DOMAIN (u \o v) = 1 .. Len(u \o v)
    BY <1>5
  <2> QED
    BY <2>2, <2>3
<1>7. ASSUME NEW j \in 1 .. Len(s) - 1
      PROVE  (u \o v)[j] = s[j] \/ (u \o v)[j] = s[j + 1]
  <2>1. CASE j <= i - 1
    BY <1>1, <1>2, <1>4, <1>5, <2>1
  <2>2. CASE ~ (j <= i - 1)
    <3>1. j - (i - 1) \in 1 .. Len(s) - i /\ i + (j - (i - 1)) = j + 1
      BY <1>4, <2>2
    <3>2. Len(u) = i - 1 /\ j \in 1 .. Len(u) + Len(v) /\ ~ (j <= Len(u))
      BY <1>1, <1>2, <1>4, <2>2
    <3>3. (u \o v)[j] = v[j - (i - 1)]
      BY <1>5, <3>2
    <3> QED
      BY <1>2, <3>1, <3>3
  <2> QED
    BY <2>1, <2>2
<1>8. \A j \in 1 .. Len(s) - 1 : j \in DOMAIN s /\ j + 1 \in DOMAIN s
  BY <1>4
<1> QED
  BY <1>3, <1>5, <1>6, <1>7, <1>8

(***************************************************************************)
(* The inductive invariant.                                                *)
(***************************************************************************)
AnyWallet == Wallets \cup {NoWallet}
ViewType == [wallet : AnyWallet, rows : [Assets -> RowStatus],
             transfers : [Assets -> TransferStatus]]
PollType == [served : BOOLEAN, view : ViewType]
UiType == [step : Steps, error : BOOLEAN, dashboard : ViewType, selected : SUBSET Assets,
           scan : [wallet : AnyWallet, assets : SUBSET Assets]]
AuthType == [at : {"idle", "sign", "report"}, wallet : AnyWallet, assets : Seq(Assets),
             landed : BOOLEAN, reported : Nat]
RevokeType == [at : {"idle", "sign", "refresh"}, wallet : AnyWallet, owner : AnyWallet,
               assets : SUBSET Assets]

\* The types of all variables.
Typed ==
    /\ wallet \in AnyWallet
    /\ ui \in UiType
    /\ processing \in [Assets -> ProcessingState]
    /\ plan \in [wallet : AnyWallet, assets : Seq(Assets)]
    /\ loads \subseteq [wallet : Wallets, at : {"dashboard", "scan"}]
    /\ polls \in Seq(PollType)
    /\ auth \in AuthType
    /\ revoking \in RevokeType
    /\ rows \in [Wallets -> [Assets -> RowStatus]]
    /\ transfers \in [Wallets -> [Assets -> TransferStatus]]

\* What is selected was scanned, and something is selected before a signature
\* is asked for.
SelectionOK ==
    /\ ui.selected \subseteq ui.scan.assets
    /\ ui.step = "summary" => ui.selected # {}

\* While reports are sent, the plan is the call's and what has been reported
\* is recorded.
ReportsOK ==
    /\ auth.at # "idle" => auth.wallet \in Wallets /\ auth.assets # <<>>
    /\ auth.at = "sign" => auth.reported = 0
    /\ auth.at = "idle" => auth = NoAuth
    /\ auth.at = "report" =>
         /\ auth.reported < Len(auth.assets)
         /\ plan = [wallet |-> auth.wallet, assets |-> auth.assets]
         /\ \A k \in 1 .. auth.reported : rows[auth.wallet][auth.assets[k]] # "none"

\* Beyond the last report no other call has begun.
RecordedOK ==
    ui.step \in {"awaiting-signature", "processing"} =>
      /\ auth.at = "idle"
      /\ plan.wallet \in Wallets
      /\ \A a \in Range(plan.assets) : rows[plan.wallet][a] # "none"

\* A revocation is the call of a connected wallet.
RevokingOK == revoking.at # "idle" => revoking.wallet \in Wallets

\* t is the state s or a later one.
Reaches(s, t) == s = t \/ Progress[s] < Progress[t]

\* What is shown of the plan is what the server says or was its answer before,
\* and the answers on their way lie between the two.
ShownOK ==
    /\ ui.step = "awaiting-signature" =>
         \A a \in Range(plan.assets) : processing[a] = "authorized"
    /\ ui.step = "processing" =>
         /\ wallet \in Wallets
         /\ \A a \in Range(plan.assets) :
              Reaches(processing[a], ItemState(View(wallet), a))
    /\ polls # <<>> => ui.step = "processing" /\ wallet \in Wallets
    /\ \A i \in DOMAIN polls, a \in Range(plan.assets) :
         polls[i].served =>
           /\ Reaches(processing[a], ItemState(polls[i].view, a))
           /\ Reaches(ItemState(polls[i].view, a), ItemState(View(wallet), a))

WebInv == Typed /\ SelectionOK /\ ReportsOK /\ RecordedOK /\ RevokingOK /\ ShownOK

(***************************************************************************)
(* Types.                                                                  *)
(***************************************************************************)

\* Rendering leaves no answer under way, and no poll outside the processing
\* screen.
LEMMA RenderedPolls ==
    ASSUME Rendered
    PROVE  /\ polls' \in Seq(PollType)
           /\ \A i \in DOMAIN polls' : ~ polls'[i].served
           /\ polls' # <<>> => ui'.step = "processing" /\ wallet' # NoWallet
<1>1. FreshPoll \in PollType /\ ~ FreshPoll.served
  BY DEF FreshPoll, PollType, NoView, ViewType, AnyWallet, RowStatus, TransferStatus
<1> QED
  BY <1>1 DEF Rendered

\* What the server answers for a wallet is a view.
LEMMA ViewTyped ==
    ASSUME rows \in [Wallets -> [Assets -> RowStatus]],
           transfers \in [Wallets -> [Assets -> TransferStatus]],
           NEW w \in Wallets
    PROVE  View(w) \in ViewType
BY DEF View, ViewType, AnyWallet

\* The user's and the loads' steps.
LEMMA TypedScreens ==
    ASSUME Typed,
           \/ \E w \in Wallets : Connect(w)
           \/ Disconnect \/ Reload \/ Retry \/ Load
           \/ ContinueReview \/ ContinueProcessing \/ SignatureShown
    PROVE  Typed'
<1> USE DEF Typed
<1>1. ASSUME NEW w \in Wallets, StartLoad(w)
      PROVE  ui' \in UiType /\ loads' \subseteq [wallet : Wallets, at : {"dashboard", "scan"}]
  <2>1. ui' = [ui EXCEPT !.step = "checking", !.error = FALSE]
        /\ loads' = loads \cup {[wallet |-> w, at |-> "dashboard"]}
    BY <1>1 DEF StartLoad
  <2>2. ui' \in UiType
    BY <2>1 DEF UiType, Steps
  <2>3. [wallet |-> w, at |-> "dashboard"] \in [wallet : Wallets, at : {"dashboard", "scan"}]
    OBVIOUS
  <2> QED
    BY <2>1, <2>2, <2>3
<1>2. initialState \in UiType /\ NothingProcessing \in [Assets -> ProcessingState]
  BY DEF initialState, UiType, Steps, NoScan, NoView, ViewType, AnyWallet, RowStatus,
         TransferStatus, NothingProcessing, ProcessingState
<1>3. ASSUME NEW w \in Wallets, Connect(w) PROVE Typed'
  BY <1>1, <1>3, RenderedPolls DEF Connect, AnyWallet, serverVars
<1>4. CASE Disconnect
  <2>1. ui' \in UiType /\ processing' \in [Assets -> ProcessingState]
    BY <1>2, <1>4 DEF Disconnect, Reset, UiType
  <2> QED
    BY <1>4, <2>1, RenderedPolls DEF Disconnect, AnyWallet, serverVars
<1>5. CASE Reload
  <2>1. /\ NoAuth \in AuthType /\ NoRevoke \in RevokeType
        /\ NoPlan \in [wallet : AnyWallet, assets : Seq(Assets)]
        /\ NoWallet \in AnyWallet
    BY DEF NoAuth, NoRevoke, NoPlan, AuthType, RevokeType, AnyWallet
  <2>2. polls' = <<>> /\ wallet' = NoWallet /\ ui' = initialState
        /\ processing' = NothingProcessing /\ plan' = NoPlan /\ loads' = {}
        /\ auth' = NoAuth /\ revoking' = NoRevoke /\ UNCHANGED <<rows, transfers>>
    BY <1>5 DEF Reload, serverVars
  <2>3. polls' \in Seq(PollType)
    BY <2>2
  <2> QED
    BY <1>2, <2>1, <2>2, <2>3
<1>6. CASE Retry
  <2>1. wallet \in Wallets
    BY <1>6 DEF Retry, AnyWallet
  <2> QED
    BY <1>1, <1>6, <2>1, RenderedPolls DEF Retry, serverVars
<1>7. CASE Load
  <2>1. PICK load \in loads : LoadDashboard(load) \/ LoadScan(load) \/ LoadFails(load)
    BY <1>7 DEF Load
  <2>2. load \in [wallet : Wallets, at : {"dashboard", "scan"}]
    BY <2>1
  <2>3. View(load.wallet) \in ViewType
    BY <2>2, ViewTyped
  <2>4. ui' \in UiType /\ loads' \subseteq [wallet : Wallets, at : {"dashboard", "scan"}]
    <3>1. CASE LoadDashboard(load)
      <4>1. [load EXCEPT !.at = "scan"] \in [wallet : Wallets, at : {"dashboard", "scan"}]
        BY <2>2
      <4>2. loads' \subseteq [wallet : Wallets, at : {"dashboard", "scan"}]
        BY <3>1, <4>1 DEF LoadDashboard
      <4>3. CASE Listed(View(load.wallet)) # {}
        <5>1. ui' = [WithDashboard(ui, View(load.wallet)) EXCEPT !.step = "dashboard"]
          BY <3>1, <4>3 DEF LoadDashboard
        <5>2. WithDashboard(ui, View(load.wallet)) \in UiType
          BY <2>3 DEF WithDashboard, UiType
        <5>3. ui' \in UiType
          BY <5>1, <5>2 DEF UiType, Steps
        <5> QED
          BY <4>2, <5>3
      <4>4. CASE Listed(View(load.wallet)) = {}
        BY <3>1, <4>2, <4>4 DEF LoadDashboard, SetStep, UiType, Steps
      <4> QED
        BY <4>3, <4>4
    <3>2. CASE LoadScan(load)
      <4>1. {a \in Holdings[load.wallet] : rows[load.wallet][a] # "ACTIVE"} \in SUBSET Assets
        BY <2>2, WebAssumption
      <4> QED
        BY <2>2, <3>2, <4>1 DEF LoadScan, WithScan, UiType, Steps, AnyWallet
    <3>3. CASE LoadFails(load)
      BY <3>3 DEF LoadFails, UiType, Steps
    <3> QED
      BY <2>1, <3>1, <3>2, <3>3
  <2> QED
    BY <1>7, <2>4, RenderedPolls DEF Load, serverVars
<1>8. CASE ContinueReview
  <2>1. ui' \in UiType
    BY <1>8 DEF ContinueReview, WithSelected, UiType, Steps
  <2> QED
    BY <1>8, <2>1, RenderedPolls DEF ContinueReview, serverVars
<1>9. CASE ContinueProcessing \/ SignatureShown
  <2>1. ui' \in UiType
    BY <1>9 DEF ContinueProcessing, SignatureShown, SetStep, UiType, Steps
  <2> QED
    BY <1>9, <2>1, RenderedPolls DEF ContinueProcessing, SignatureShown, serverVars
<1> QED
  BY <1>3, <1>4, <1>5, <1>6, <1>7, <1>8, <1>9

\* A plan names assets.
LEMMA PlanNamesAssets ==
    ASSUME NEW s \in Seq(Assets)
    PROVE  \A a \in Range(s) : a \in Assets
<1>1. \A k \in DOMAIN s : s[k] \in Assets
  OBVIOUS
<1>2. Range(s) = {s[k] : k \in DOMAIN s}
  BY DEF Range
<1> QED
  BY <1>1, <1>2

\* What a plan's length is.
LEMMA LenOfSeq ==
    ASSUME NEW s \in Seq(Assets)
    PROVE  /\ Len(s) \in Nat
           /\ s # <<>> => Len(s) > 0
           /\ \A k \in 1 .. Len(s) : s[k] \in Assets
           /\ \A a \in Range(s) : \E k \in 1 .. Len(s) : a = s[k]
<1>1. \A k \in 1 .. Len(s) : s[k] \in Assets
  OBVIOUS
<1>2. \A a \in Range(s) : \E k \in 1 .. Len(s) : a = s[k]
  <2>1. DOMAIN s = 1 .. Len(s)
    OBVIOUS
  <2> QED
    BY <2>1 DEF Range
<1>3. Len(s) \in Nat
  OBVIOUS
<1>4. s # <<>> => Len(s) > 0
  OBVIOUS
<1> QED
  BY <1>1, <1>2, <1>3, <1>4

\* Setting the states of some assets.
LEMMA TypedProcessing ==
    ASSUME Typed, NEW states, SetAssetProcessingStates(states),
           \A a \in DOMAIN states : states[a] \in ProcessingState
    PROVE  processing' \in [Assets -> ProcessingState]
BY DEF Typed, SetAssetProcessingStates

\* The call of handleAuthorize.
LEMMA TypedAuthorize ==
    ASSUME Typed, ReportsOK,
           Authorize \/ Signed \/ SignThrows \/ Reported \/ ReportThrows
    PROVE  Typed'
<1> USE DEF Typed
<1>1. NoAuth \in AuthType
  BY DEF NoAuth, AuthType, AnyWallet
<1>2. CASE Authorize
  <2> DEFINE S == ui.selected \cap ui.scan.assets
  <2>1. S \in SUBSET Assets
    BY DEF UiType
  <2>2. SetToSeq(S) \in Seq(S)
    BY <2>1, SetSeq, FS_Subset, WebAssumption
  <2>3. SetToSeq(S) \in Seq(Assets)
    BY <2>1, <2>2
  <2>4. auth' = [NoAuth EXCEPT !.at = "sign", !.wallet = wallet, !.assets = SetToSeq(S)]
    BY <1>2 DEF Authorize
  <2> HIDE DEF S
  <2>5. auth' \in AuthType
    BY <2>3, <2>4 DEF NoAuth, AuthType
  <2> QED
    BY <1>2, <2>5, RenderedPolls DEF Authorize, serverVars
<1>3. CASE Signed
  <2>1. auth' \in AuthType /\ plan' \in [wallet : AnyWallet, assets : Seq(Assets)]
    BY <1>3 DEF Signed, AuthType
  <2> QED
    BY <1>3, <2>1, RenderedPolls DEF Signed
<1>4. CASE SignThrows
  BY <1>1, <1>4, RenderedPolls DEF SignThrows, serverVars
<1>5. ASSUME RecordReport, auth.at = "report"
      PROVE  rows' \in [Wallets -> [Assets -> RowStatus]]
  <2>1. auth.wallet \in Wallets /\ auth.reported < Len(auth.assets)
    BY <1>5 DEF ReportsOK
  <2>2. NextReport \in Assets
    BY <2>1, LenOfSeq DEF NextReport, AuthType
  <2> QED
    BY <1>5, <2>1, <2>2 DEF RecordReport, RowStatus
<1>6. CASE ReportThrows
  <2>1. rows' \in [Wallets -> [Assets -> RowStatus]]
    BY <1>5, <1>6 DEF ReportThrows
  <2> QED
    BY <1>1, <1>6, <2>1, RenderedPolls DEF ReportThrows
<1>7. CASE Reported
  <2>1. rows' \in [Wallets -> [Assets -> RowStatus]]
    BY <1>5, <1>7 DEF Reported
  <2>2. CASE AnotherReport
    <3>1. auth' = [auth EXCEPT !.reported = @ + 1] /\ UNCHANGED <<ui, processing, polls>>
      BY <1>7, <2>2 DEF Reported
    <3>2. auth' \in AuthType
      BY <3>1 DEF AuthType
    <3> QED
      BY <1>7, <2>1, <3>1, <3>2 DEF Reported
  <2>3. CASE ~ AnotherReport
    <3>1. /\ auth' = NoAuth /\ SetStep("awaiting-signature") /\ Rendered
          /\ SetAssetProcessingStates([a \in Range(auth.assets) |-> "authorized"])
      BY <1>7, <2>3 DEF Reported
    <3>2. processing' \in [Assets -> ProcessingState]
      BY <3>1, TypedProcessing DEF ProcessingState
    <3>3. ui' \in UiType
      BY <3>1 DEF SetStep, UiType, Steps
    <3> QED
      BY <1>1, <1>7, <2>1, <3>1, <3>2, <3>3, RenderedPolls DEF Reported
  <2> QED
    BY <2>2, <2>3
<1> QED
  BY <1>2, <1>3, <1>4, <1>6, <1>7

\* What an answer says of an asset.
LEMMA ItemStates ==
    ASSUME NEW view \in ViewType, NEW a \in Assets
    PROVE  /\ view.rows[a] = "none" => ItemState(view, a) = "authorized"
           /\ view.rows[a] # "none" =>
                /\ view.transfers[a] = "none" => ItemState(view, a) = "authorized"
                /\ view.transfers[a] = "PENDING" => ItemState(view, a) = "processing"
                /\ view.transfers[a] = "CONFIRMED" => ItemState(view, a) = "completed"
                /\ view.transfers[a] = "FAILED" => ItemState(view, a) = "failed"
           /\ view.transfers[a] \in {"none", "PENDING", "CONFIRMED", "FAILED"}
BY DEF ItemState, Listed, ViewType, TransferStatus

\* The polls.
LEMMA TypedPolls ==
    ASSUME Typed, ShownOK,
           \/ PollAgain
           \/ \E i \in DOMAIN polls : ServePoll(i) \/ DeliverPoll(i) \/ PollFails(i)
    PROVE  Typed'
<1> USE DEF Typed
<1>1. CASE PollAgain
  <2>1. FreshPoll \in PollType
    BY DEF FreshPoll, PollType, NoView, ViewType, AnyWallet, RowStatus, TransferStatus
  <2>2. polls' \in Seq(PollType)
    BY <1>1, <2>1 DEF PollAgain
  <2> QED
    BY <1>1, <2>2 DEF PollAgain, serverVars
<1>2. ASSUME NEW i \in DOMAIN polls, ServePoll(i) PROVE Typed'
  <2>1. wallet \in Wallets
    BY <1>2 DEF ShownOK
  <2>2. [served |-> TRUE, view |-> View(wallet)] \in PollType
    BY <2>1, ViewTyped DEF PollType
  <2>3. polls' = [polls EXCEPT ![i] = [served |-> TRUE, view |-> View(wallet)]]
    BY <1>2 DEF ServePoll
  <2>4. polls' \in Seq(PollType)
    BY <2>2, <2>3
  <2> QED
    BY <1>2, <2>4 DEF ServePoll, serverVars
<1>3. ASSUME NEW i \in DOMAIN polls, PollFails(i) PROVE Typed'
  <2>1. polls' \in Seq(PollType)
    BY <1>3, RemoveType DEF PollFails
  <2> QED
    BY <1>3, <2>1 DEF PollFails, serverVars
<1>4. ASSUME NEW i \in DOMAIN polls, DeliverPoll(i) PROVE Typed'
  <2> DEFINE view == polls[i].view
  <2>1. view \in ViewType
    <3>1. polls[i] \in PollType
      BY <1>4
    <3> QED
      BY <3>1 DEF PollType
  <2>2. CASE Listed(view) = {}
    <3>1. polls' = RemoveAt(polls, i) /\ UNCHANGED <<ui, processing>>
      BY <1>4, <2>2 DEF DeliverPoll
    <3>2. polls' \in Seq(PollType)
      BY <3>1, RemoveType
    <3> QED
      BY <1>4, <3>1, <3>2 DEF DeliverPoll, serverVars
  <2>3. CASE Listed(view) # {}
    <3>1. /\ ui' = WithDashboard(ui, view)
          /\ SetAssetProcessingStates([a \in Range(plan.assets) |-> ItemState(view, a)])
          /\ Rendered
      BY <1>4, <2>3 DEF DeliverPoll
    <3> HIDE DEF view
    <3>2. ui' \in UiType
      BY <2>1, <3>1 DEF WithDashboard, UiType
    <3>3. plan.assets \in Seq(Assets)
      OBVIOUS
    <3>4. Range(plan.assets) \subseteq Assets
      BY <3>3, PlanNamesAssets
    <3>5. \A a \in Range(plan.assets) : ItemState(view, a) \in ProcessingState
      BY <2>1, <3>4, ItemStates DEF ProcessingState
    <3>6. processing' \in [Assets -> ProcessingState]
      <4> DEFINE states == [a \in Range(plan.assets) |-> ItemState(view, a)]
      <4>1. \A a \in DOMAIN states : states[a] \in ProcessingState
        BY <3>5
      <4>2. SetAssetProcessingStates(states)
        BY <3>1
      <4> HIDE DEF states
      <4> QED
        BY <4>1, <4>2, TypedProcessing
    <3> QED
      BY <1>4, <3>1, <3>2, <3>6, RenderedPolls DEF DeliverPoll, serverVars
  <2> QED
    BY <2>2, <2>3
<1> QED
  BY <1>1, <1>2, <1>3, <1>4

\* The call of handleRevoke, and the sweep.
LEMMA TypedRevoke ==
    ASSUME Typed, RevokingOK,
           \/ \E a \in Assets : Revoke(a)
           \/ Revoked \/ RevokeThrows \/ RevokeRefreshed
           \/ \E w \in Wallets, a \in Assets : SweepRow(w, a)
    PROVE  Typed'
<1> USE DEF Typed
<1>1. NoRevoke \in RevokeType
  BY DEF NoRevoke, RevokeType, AnyWallet
<1>2. ASSUME NEW a \in Assets, Revoke(a) PROVE Typed'
  <2>1. revoking' \in RevokeType
    BY <1>2 DEF Revoke, RevokeType, UiType, ViewType
  <2> QED
    BY <1>2, <2>1 DEF Revoke, serverVars
<1>3. CASE Revoked
  <2>1. revoking' \in RevokeType
    BY <1>1, <1>3 DEF Revoked, RevokeType
  <2>2. rows' \in [Wallets -> [Assets -> RowStatus]]
    BY <1>3 DEF Revoked, RowStatus
  <2> QED
    BY <1>3, <2>1, <2>2 DEF Revoked
<1>4. CASE RevokeThrows
  BY <1>1, <1>4 DEF RevokeThrows, serverVars
<1>5. CASE RevokeRefreshed
  <2>1. ui' \in UiType
    <3>1. View(revoking.wallet) \in ViewType
      <4>1. revoking.wallet \in Wallets
        BY <1>5 DEF RevokeRefreshed, RevokingOK
      <4> QED
        BY <4>1, ViewTyped
    <3> QED
      BY <1>5, <3>1 DEF RevokeRefreshed, WithDashboard, UiType
  <2> QED
    BY <1>1, <1>5, <2>1, RenderedPolls DEF RevokeRefreshed, serverVars
<1>6. ASSUME NEW w \in Wallets, NEW a \in Assets, SweepRow(w, a) PROVE Typed'
  <2>1. \E s \in TransferStatus : transfers' = [transfers EXCEPT ![w][a] = s]
    BY <1>6 DEF SweepRow, TransferStatus
  <2>2. transfers' \in [Wallets -> [Assets -> TransferStatus]]
    BY <2>1
  <2> QED
    BY <1>6, <2>2 DEF SweepRow, tabVars
<1> QED
  BY <1>2, <1>3, <1>4, <1>5, <1>6

(***************************************************************************)
(* What is shown and what is recorded.                                     *)
(***************************************************************************)

\* States reach each other transitively.
LEMMA ReachesOn ==
    ASSUME NEW s \in ProcessingState, NEW t \in ProcessingState, NEW u \in ProcessingState,
           Reaches(s, t), Reaches(t, u)
    PROVE  Reaches(s, u)
BY DEF Reaches, Progress, ProcessingState

\* A screen other than the two of the processing: nothing to show.
LEMMA OtherScreen ==
    ASSUME Typed', Rendered \/ polls' = <<>>,
           ui'.step \notin {"awaiting-signature", "processing"}
    PROVE  RecordedOK' /\ ShownOK'
<1>1. polls' = <<>>
  BY DEF Rendered
<1> QED
  BY <1>1 DEF RecordedOK, ShownOK

\* Outside the processing screen no poll is under way.
LEMMA NoPolls ==
    ASSUME ShownOK, ui.step # "processing"
    PROVE  polls = <<>>
BY DEF ShownOK

\* A call of handleAuthorize that is under way keeps the tab off the two
\* screens of the processing.
LEMMA CallMeansOther ==
    ASSUME RecordedOK, auth.at # "idle"
    PROVE  ui.step \notin {"awaiting-signature", "processing"}
BY DEF RecordedOK

\* Rows come to stay and transfers go on.
Grows ==
    \A w \in Wallets, a \in Assets :
        /\ rows[w][a] # "none" => rows'[w][a] # "none"
        /\ \/ transfers'[w][a] = transfers[w][a]
           \/ transfers[w][a] = "none"
           \/ transfers[w][a] = "PENDING" /\ transfers'[w][a] \in {"CONFIRMED", "FAILED"}

\* Then what the server says of an asset only goes forward.
LEMMA AnswersGrow ==
    ASSUME Typed, Typed', Grows, NEW w \in Wallets, NEW a \in Assets
    PROVE  Reaches(ItemState(View(w), a), ItemState(View(w), a)')
<1>1. View(w) \in ViewType /\ View(w)' \in ViewType
  BY ViewTyped DEF Typed, View, ViewType, AnyWallet
<1>2. /\ View(w).rows[a] = rows[w][a] /\ View(w).transfers[a] = transfers[w][a]
      /\ View(w)'.rows[a] = rows'[w][a] /\ View(w)'.transfers[a] = transfers'[w][a]
  BY DEF View
<1>3. ItemState(View(w), a)' = ItemState(View(w)', a)
  BY DEF ItemState, Listed
<1> DEFINE v1 == View(w)
           v2 == View(w)'
<1>4. v1 \in ViewType /\ v2 \in ViewType
  BY <1>1
<1>5. /\ v1.rows[a] # "none" => v2.rows[a] # "none"
      /\ \/ v2.transfers[a] = v1.transfers[a]
         \/ v1.transfers[a] = "none"
         \/ v1.transfers[a] = "PENDING" /\ v2.transfers[a] \in {"CONFIRMED", "FAILED"}
  BY <1>2 DEF Grows
<1> HIDE DEF v1, v2
<1>6. Reaches(ItemState(v1, a), ItemState(v2, a))
  BY <1>4, <1>5, ItemStates DEF Reaches, Progress
<1> QED
  BY <1>3, <1>6 DEF v1, v2

\* A step of the server, or of a revocation, disturbs nothing.
LEMMA Undisturbed ==
    ASSUME WebInv, Typed', Grows, RevokingOK',
           UNCHANGED <<wallet, processing, plan, auth>>,
           ui'.step = ui.step, ui'.selected = ui.selected, ui'.scan = ui.scan,
           polls' = polls \/ Rendered
    PROVE  WebInv'
<1>1. Typed /\ SelectionOK /\ ReportsOK /\ RecordedOK /\ ShownOK
  BY DEF WebInv
<1>2. SelectionOK'
  BY <1>1 DEF SelectionOK
<1>3. plan.assets \in Seq(Assets) /\ Range(plan.assets) \subseteq Assets
  BY <1>1, PlanNamesAssets DEF Typed
<1>4. ReportsOK'
  <2>1. auth.assets \in Seq(Assets) /\ auth.reported \in Nat
    BY <1>1 DEF Typed, AuthType
  <2>2. ASSUME auth.at = "report", NEW k \in 1 .. auth.reported
        PROVE  rows'[auth.wallet][auth.assets[k]] # "none"
    <3>1. /\ auth.wallet \in Wallets /\ auth.reported < Len(auth.assets)
          /\ rows[auth.wallet][auth.assets[k]] # "none"
      BY <1>1, <2>2 DEF ReportsOK
    <3>2. Len(auth.assets) \in Nat
      BY <2>1
    <3>3. k \in 1 .. Len(auth.assets)
      BY <2>1, <3>1, <3>2
    <3>4. auth.assets[k] \in Assets
      BY <2>1, <3>3, LenOfSeq
    <3> QED
      BY <3>1, <3>4 DEF Grows
  <2> QED
    BY <1>1, <2>2 DEF ReportsOK
<1>5. RecordedOK'
  BY <1>1, <1>3 DEF RecordedOK, Grows
<1>6. ASSUME NEW a \in Assets, NEW w \in Wallets
      PROVE  /\ ItemState(View(w), a) \in ProcessingState
             /\ ItemState(View(w), a)' \in ProcessingState
             /\ Reaches(ItemState(View(w), a), ItemState(View(w), a)')
  <2>1. View(w) \in ViewType /\ View(w)' \in ViewType
    BY <1>1, ViewTyped DEF Typed, View, ViewType, AnyWallet
  <2>2. ItemState(View(w), a)' = ItemState(View(w)', a)
    BY DEF ItemState, Listed
  <2>3. ItemState(View(w), a) \in ProcessingState
    BY <2>1, ItemStates DEF ProcessingState
  <2>4. ASSUME NEW v \in ViewType PROVE ItemState(v, a) \in ProcessingState
    BY ItemStates DEF ProcessingState
  <2> QED
    BY <1>1, <2>1, <2>2, <2>3, <2>4, AnswersGrow
<1>7. ShownOK'
  <2>1. processing \in [Assets -> ProcessingState]
    BY <1>1 DEF Typed
  <2>2. ASSUME ui.step = "processing", NEW a \in Range(plan.assets)
        PROVE  wallet \in Wallets /\ Reaches(processing[a], ItemState(View(wallet), a)')
    <3>1. wallet \in Wallets /\ Reaches(processing[a], ItemState(View(wallet), a))
      BY <1>1, <2>2 DEF ShownOK
    <3>2. a \in Assets /\ processing[a] \in ProcessingState
      BY <1>3, <2>1
    <3> QED
      BY <1>6, <3>1, <3>2, ReachesOn
  <2>3. CASE polls' = polls
    <3>1. ASSUME NEW i \in DOMAIN polls, NEW a \in Range(plan.assets), polls[i].served
          PROVE  /\ Reaches(processing[a], ItemState(polls[i].view, a))
                 /\ Reaches(ItemState(polls[i].view, a), ItemState(View(wallet), a)')
      <4>1. /\ Reaches(processing[a], ItemState(polls[i].view, a))
            /\ Reaches(ItemState(polls[i].view, a), ItemState(View(wallet), a))
            /\ wallet \in Wallets
        BY <1>1, <3>1 DEF ShownOK
      <4>2. a \in Assets /\ polls[i] \in PollType
        BY <1>1, <1>3 DEF Typed
      <4>3. ItemState(polls[i].view, a) \in ProcessingState
        BY <4>2, ItemStates DEF PollType, ProcessingState
      <4> QED
        BY <1>6, <4>1, <4>2, <4>3, ReachesOn
    <3>2. \A i \in DOMAIN polls, a \in Range(plan.assets) :
            ItemState(polls[i].view, a)' = ItemState(polls[i].view, a)
      BY <2>3 DEF ItemState, Listed
    <3>3. \A a : ItemState(View(wallet), a)' = ItemState(View(wallet)', a)
      BY DEF ItemState, Listed
    <3> QED
      BY <1>1, <2>2, <2>3, <3>1, <3>2 DEF ShownOK
  <2>4. CASE Rendered
    BY <1>1, <2>2, <2>4, RenderedPolls DEF ShownOK, Typed, AnyWallet
  <2> QED
    BY <2>3, <2>4
<1> QED
  BY <1>2, <1>4, <1>5, <1>7 DEF WebInv

\* A step to another screen that leaves the calls, the rows and the plan alone.
LEMMA ToOtherScreen ==
    ASSUME WebInv, Typed', Rendered \/ polls' = <<>>,
           ui'.step \notin {"awaiting-signature", "processing"},
           SelectionOK',
           (UNCHANGED <<auth, plan, rows>> \/ auth' = NoAuth),
           (UNCHANGED revoking \/ revoking' = NoRevoke)
    PROVE  WebInv'
<1>1. ReportsOK /\ RevokingOK
  BY DEF WebInv
<1>2. RecordedOK' /\ ShownOK'
  BY OtherScreen
<1>3. ReportsOK'
  <2>1. CASE auth' = NoAuth
    BY <2>1 DEF ReportsOK, NoAuth
  <2>2. CASE UNCHANGED <<auth, plan, rows>>
    BY <1>1, <2>2 DEF ReportsOK
  <2> QED
    BY <2>1, <2>2
<1>4. RevokingOK'
  BY <1>1 DEF RevokingOK, NoRevoke
<1> QED
  BY <1>2, <1>3, <1>4 DEF WebInv

\* Wallets, loads and the screens before and after the processing.
LEMMA InvScreens ==
    ASSUME WebInv, Typed',
           \/ \E w \in Wallets : Connect(w)
           \/ Disconnect \/ Reload \/ Retry \/ Load
           \/ ContinueReview \/ ContinueProcessing
    PROVE  WebInv'
<1>1. ui \in UiType /\ SelectionOK
  BY DEF WebInv, Typed
<1>2. CASE Retry \/ \E w \in Wallets : Connect(w)
  <2>1. /\ ui' = [ui EXCEPT !.step = "checking", !.error = FALSE]
        /\ Rendered /\ UNCHANGED <<auth, plan, rows, revoking>>
    BY <1>2 DEF Connect, Retry, StartLoad, serverVars
  <2>2. ui'.step = "checking" /\ SelectionOK'
    BY <1>1, <2>1 DEF UiType, SelectionOK
  <2> QED
    BY <2>1, <2>2, ToOtherScreen
<1>3. CASE Disconnect
  <2>1. /\ ui' = [initialState EXCEPT !.error = ui.error]
        /\ Rendered /\ UNCHANGED <<auth, plan, rows, revoking>>
    BY <1>3 DEF Disconnect, Reset, serverVars
  <2>2. ui'.step = "idle" /\ SelectionOK'
    BY <2>1 DEF initialState, NoScan, SelectionOK
  <2> QED
    BY <2>1, <2>2, ToOtherScreen
<1>4. CASE Reload
  <2>1. ui' = initialState /\ polls' = <<>> /\ auth' = NoAuth /\ revoking' = NoRevoke
    BY <1>4 DEF Reload
  <2>2. ui'.step = "idle" /\ SelectionOK'
    BY <2>1 DEF initialState, NoScan, SelectionOK
  <2> QED
    BY <2>1, <2>2, ToOtherScreen
<1>5. CASE Load
  <2>1. Rendered /\ UNCHANGED <<auth, plan, rows, revoking>>
    BY <1>5 DEF Load, serverVars
  <2>2. PICK load \in loads : LoadDashboard(load) \/ LoadScan(load) \/ LoadFails(load)
    BY <1>5 DEF Load
  <2>3. ui'.step \in {"dashboard", "scanning", "review", "idle"} /\ SelectionOK'
    <3>1. CASE LoadDashboard(load)
      <4>1. CASE Listed(View(load.wallet)) # {}
        <5> DEFINE shown == WithDashboard(ui, View(load.wallet))
        <5>1. ui' = [shown EXCEPT !.step = "dashboard"]
          BY <3>1, <4>1 DEF LoadDashboard
        <5>2. shown = [ui EXCEPT !.dashboard = View(load.wallet)]
          BY DEF WithDashboard
        <5> HIDE DEF shown
        <5>3. /\ DOMAIN shown = DOMAIN ui /\ shown.selected = ui.selected
              /\ shown.scan = ui.scan
          BY <1>1, <5>2 DEF UiType
        <5>4. /\ ui'.step = "dashboard" /\ ui'.selected = ui.selected
              /\ ui'.scan = ui.scan
          BY <1>1, <5>1, <5>3 DEF UiType
        <5> QED
          BY <1>1, <5>4 DEF SelectionOK
      <4>2. CASE Listed(View(load.wallet)) = {}
        BY <1>1, <3>1, <4>2 DEF LoadDashboard, SetStep, UiType, SelectionOK
      <4> QED
        BY <4>1, <4>2
    <3>2. CASE LoadScan(load)
      <4>1. PICK found :
              ui' = [WithScan(ui, load.wallet, found) EXCEPT !.step = "review"]
        BY <3>2 DEF LoadScan
      <4> DEFINE scanned == WithScan(ui, load.wallet, found)
      <4>2. /\ DOMAIN scanned = DOMAIN ui /\ scanned.selected = found
            /\ scanned.scan.assets = found
        BY <1>1 DEF WithScan, UiType
      <4> HIDE DEF scanned
      <4>3. ui' = [scanned EXCEPT !.step = "review"]
        BY <4>1 DEF scanned
      <4>4. /\ ui'.step = "review" /\ ui'.selected = found /\ ui'.scan.assets = found
        BY <1>1, <4>2, <4>3 DEF UiType
      <4> QED
        BY <4>4 DEF SelectionOK
    <3>3. CASE LoadFails(load)
      BY <1>1, <3>3 DEF LoadFails, UiType, SelectionOK
    <3> QED
      BY <2>2, <3>1, <3>2, <3>3
  <2> QED
    BY <2>1, <2>3, ToOtherScreen
<1>6. CASE ContinueReview
  <2>1. Rendered /\ UNCHANGED <<auth, plan, rows, revoking>>
    BY <1>6 DEF ContinueReview, serverVars
  <2>2. PICK keys \in (SUBSET ui.scan.assets) \ {{}} :
          ui' = [WithSelected(ui, keys) EXCEPT !.step = "summary"]
    BY <1>6 DEF ContinueReview
  <2>3. ui'.step = "summary" /\ ui'.selected = keys /\ ui'.scan = ui.scan
    BY <1>1, <2>2 DEF WithSelected, UiType
  <2>4. SelectionOK'
    <3>1. keys \subseteq ui.scan.assets /\ keys # {}
      BY <2>2
    <3> QED
      BY <2>3, <3>1 DEF SelectionOK
  <2> QED
    BY <2>1, <2>3, <2>4, ToOtherScreen
<1>7. CASE ContinueProcessing
  <2>1. /\ ui' = [ui EXCEPT !.step = "dashboard"]
        /\ Rendered /\ UNCHANGED <<auth, plan, rows, revoking>>
    BY <1>7 DEF ContinueProcessing, SetStep, serverVars
  <2>2. ui'.step = "dashboard" /\ SelectionOK'
    BY <1>1, <2>1 DEF UiType, SelectionOK
  <2> QED
    BY <2>1, <2>2, ToOtherScreen
<1> QED
  BY <1>2, <1>3, <1>4, <1>5, <1>6, <1>7

\* One more report is recorded.
LEMMA RecordGrows ==
    ASSUME Typed, ReportsOK, auth.at = "report", RecordReport
    PROVE  /\ rows'[auth.wallet][auth.assets[auth.reported + 1]] # "none"
           /\ \A w \in Wallets, a \in Assets : rows[w][a] # "none" => rows'[w][a] # "none"
           /\ auth.wallet \in Wallets
<1>1. auth.wallet \in Wallets /\ auth.reported < Len(auth.assets)
  BY DEF ReportsOK
<1>2. auth.assets \in Seq(Assets) /\ auth.reported \in Nat
  BY DEF Typed, AuthType
<1>3. auth.assets[auth.reported + 1] \in Assets
  BY <1>1, <1>2, LenOfSeq
<1>4. rows' = [rows EXCEPT ![auth.wallet][auth.assets[auth.reported + 1]] = "ACTIVE"]
  BY DEF RecordReport, NextReport
<1> QED
  BY <1>1, <1>3, <1>4 DEF Typed

\* The call of handleAuthorize, up to its last report.
LEMMA InvCall ==
    ASSUME WebInv, Typed', Authorize \/ Signed \/ SignThrows \/ ReportThrows
    PROVE  WebInv'
<1>1. Typed /\ SelectionOK /\ ReportsOK /\ RecordedOK /\ RevokingOK
  BY DEF WebInv
<1>2. CASE Authorize
  <2> DEFINE S == ui.selected \cap ui.scan.assets
  <2>1. ui.step = "summary" /\ wallet \in Wallets /\ S # {} /\ S \in SUBSET Assets
    BY <1>1, <1>2 DEF Authorize, OnScreen, SelectionOK, Typed, AnyWallet, UiType
  <2>2. SetToSeq(S) # <<>>
    BY <2>1, SetSeq, FS_Subset, WebAssumption
  <2>3. auth' = [NoAuth EXCEPT !.at = "sign", !.wallet = wallet, !.assets = SetToSeq(S)]
        /\ UNCHANGED <<ui, revoking>> /\ Rendered
    BY <1>2 DEF Authorize
  <2> HIDE DEF S
  <2>4. ReportsOK'
    BY <2>1, <2>2, <2>3 DEF ReportsOK, NoAuth
  <2>5. SelectionOK' /\ RevokingOK'
    BY <1>1, <2>3 DEF SelectionOK, RevokingOK
  <2>6. RecordedOK' /\ ShownOK'
    BY <2>1, <2>3, OtherScreen
  <2> QED
    BY <2>4, <2>5, <2>6 DEF WebInv
<1>3. CASE Signed
  <2>1. /\ auth.at = "sign" /\ UNCHANGED <<ui, revoking, rows>> /\ Rendered
        /\ plan' = [wallet |-> auth.wallet, assets |-> auth.assets]
        /\ \E landed \in BOOLEAN :
             auth' = [auth EXCEPT !.at = "report", !.landed = landed]
    BY <1>3 DEF Signed
  <2>2. /\ auth'.at = "report" /\ auth'.wallet = auth.wallet
        /\ auth'.assets = auth.assets /\ auth'.reported = auth.reported
    BY <1>1, <2>1 DEF Typed, AuthType
  <2>3. /\ auth.wallet \in Wallets /\ auth.assets # <<>> /\ auth.reported = 0
        /\ Len(auth.assets) > 0
    BY <1>1, <2>1, LenOfSeq DEF ReportsOK, Typed, AuthType
  <2>4. ReportsOK'
    BY <2>1, <2>2, <2>3 DEF ReportsOK
  <2>5. SelectionOK' /\ RevokingOK'
    BY <1>1, <2>1 DEF SelectionOK, RevokingOK
  <2>6. RecordedOK' /\ ShownOK'
    BY <1>1, <2>1, CallMeansOther, OtherScreen
  <2> QED
    BY <2>4, <2>5, <2>6 DEF WebInv
<1>4. CASE SignThrows \/ ReportThrows
  <2>1. auth.at # "idle" /\ auth' = NoAuth /\ UNCHANGED <<ui, revoking>> /\ Rendered
    BY <1>4 DEF SignThrows, ReportThrows
  <2>2. ui'.step \notin {"awaiting-signature", "processing"} /\ SelectionOK'
    BY <1>1, <2>1, CallMeansOther DEF SelectionOK
  <2> QED
    BY <2>1, <2>2, ToOtherScreen
<1> QED
  BY <1>2, <1>3, <1>4

\* A report is answered: only the last one leads on, and then every asset of
\* the plan is recorded.
LEMMA InvReported ==
    ASSUME WebInv, Typed', Reported
    PROVE  WebInv'
<1>1. Typed /\ SelectionOK /\ ReportsOK /\ RecordedOK /\ RevokingOK /\ ShownOK
  BY DEF WebInv
<1>2. auth.at = "report" /\ RecordReport /\ UNCHANGED <<wallet, plan, revoking>>
  BY DEF Reported
<1>3. /\ auth.assets \in Seq(Assets) /\ auth.reported \in Nat /\ Len(auth.assets) \in Nat
      /\ auth.wallet \in Wallets /\ auth.reported < Len(auth.assets)
      /\ plan = [wallet |-> auth.wallet, assets |-> auth.assets]
  BY <1>1, <1>2 DEF Typed, AuthType, ReportsOK
<1>4. \A k \in 1 .. auth.reported + 1 : rows'[auth.wallet][auth.assets[k]] # "none"
  <2>1. ASSUME NEW k \in 1 .. auth.reported
        PROVE  rows'[auth.wallet][auth.assets[k]] # "none"
    <3>1. rows[auth.wallet][auth.assets[k]] # "none"
      BY <1>1, <1>2 DEF ReportsOK
    <3>2. k \in 1 .. Len(auth.assets)
      BY <1>3
    <3>3. auth.assets[k] \in Assets
      BY <1>3, <3>2, LenOfSeq
    <3> QED
      BY <1>1, <1>2, <1>3, <3>1, <3>3, RecordGrows
  <2>2. rows'[auth.wallet][auth.assets[auth.reported + 1]] # "none"
    BY <1>1, <1>2, RecordGrows
  <2>3. \A k \in 1 .. auth.reported + 1 : k \in 1 .. auth.reported \/ k = auth.reported + 1
    BY <1>3
  <2> QED
    BY <2>1, <2>2, <2>3
<1>5. CASE AnotherReport
  <2>1. auth' = [auth EXCEPT !.reported = @ + 1] /\ UNCHANGED <<ui, processing, polls>>
    BY <1>5 DEF Reported
  <2>2. /\ auth'.at = "report" /\ auth'.wallet = auth.wallet
        /\ auth'.assets = auth.assets /\ auth'.reported = auth.reported + 1
    BY <1>1, <1>2, <2>1 DEF Typed, AuthType
  <2>3. ReportsOK'
    BY <1>2, <1>3, <1>4, <1>5, <2>2 DEF ReportsOK, AnotherReport
  <2>4. ui.step \notin {"awaiting-signature", "processing"}
    BY <1>1, <1>2, CallMeansOther
  <2>5. polls = <<>>
    BY <1>1, <2>4, NoPolls
  <2>6. RecordedOK' /\ ShownOK'
    BY <2>1, <2>4, <2>5, OtherScreen
  <2>7. SelectionOK' /\ RevokingOK'
    BY <1>1, <1>2, <2>1 DEF SelectionOK, RevokingOK
  <2> QED
    BY <2>3, <2>6, <2>7 DEF WebInv
<1>6. CASE ~ AnotherReport
  <2>1. /\ auth' = NoAuth /\ SetStep("awaiting-signature") /\ Rendered
        /\ SetAssetProcessingStates([a \in Range(auth.assets) |-> "authorized"])
    BY <1>6 DEF Reported
  <2>2. /\ ui'.step = "awaiting-signature" /\ ui'.selected = ui.selected
        /\ ui'.scan = ui.scan
    BY <1>1, <2>1 DEF SetStep, Typed, UiType
  <2>3. ReportsOK' /\ SelectionOK' /\ RevokingOK'
    BY <1>1, <1>2, <2>1, <2>2 DEF ReportsOK, NoAuth, SelectionOK, RevokingOK
  <2>4. auth.reported + 1 = Len(auth.assets)
    BY <1>3, <1>6 DEF AnotherReport
  <2>5. \A a \in Range(auth.assets) : rows'[auth.wallet][a] # "none"
    BY <1>3, <1>4, <2>4, LenOfSeq
  <2>6. plan'.wallet = auth.wallet /\ plan'.assets = auth.assets
    BY <1>2, <1>3
  <2>7. RecordedOK'
    BY <1>3, <2>1, <2>5, <2>6 DEF RecordedOK, NoAuth
  <2>8. \A a \in Range(auth.assets) : processing'[a] = "authorized"
    BY <1>3, <2>1, PlanNamesAssets DEF SetAssetProcessingStates
  <2>9. polls' = <<>>
    BY <2>1, <2>2 DEF Rendered
  <2>10. ShownOK'
    BY <2>2, <2>6, <2>8, <2>9 DEF ShownOK
  <2> QED
    BY <2>3, <2>7, <2>10 DEF WebInv
<1> QED
  BY <1>5, <1>6

\* The processing screen begins with everything authorized.
LEMMA InvSignatureShown ==
    ASSUME WebInv, Typed', SignatureShown
    PROVE  WebInv'
<1>1. Typed /\ SelectionOK /\ ReportsOK /\ RecordedOK /\ RevokingOK /\ ShownOK
  BY DEF WebInv
<1>2. /\ ui.step = "awaiting-signature" /\ wallet # NoWallet
      /\ ui' = [ui EXCEPT !.step = "processing"] /\ Rendered
      /\ UNCHANGED <<wallet, processing, plan, auth, revoking, rows, transfers>>
  BY DEF SignatureShown, OnScreen, SetStep, serverVars
<1>3. ui'.step = "processing" /\ ui'.selected = ui.selected /\ ui'.scan = ui.scan
  BY <1>1, <1>2 DEF Typed, UiType
<1>4. SelectionOK' /\ ReportsOK' /\ RecordedOK' /\ RevokingOK'
  BY <1>1, <1>2, <1>3 DEF SelectionOK, ReportsOK, RecordedOK, RevokingOK
<1>5. wallet \in Wallets
  BY <1>1, <1>2 DEF Typed, AnyWallet
<1>6. plan.assets \in Seq(Assets)
  BY <1>1 DEF Typed
<1>7. ASSUME NEW a \in Range(plan.assets)
      PROVE  Reaches(processing[a], ItemState(View(wallet), a))
  <2>1. a \in Assets /\ processing[a] = "authorized"
    BY <1>1, <1>2, <1>6, PlanNamesAssets DEF ShownOK
  <2>2. View(wallet) \in ViewType
    BY <1>1, <1>5, ViewTyped DEF Typed
  <2> QED
    BY <2>1, <2>2, ItemStates DEF Reaches, Progress
<1>8. \A a : ItemState(View(wallet), a)' = ItemState(View(wallet), a)
  BY <1>2 DEF ItemState, Listed, View
<1>9. ShownOK'
  BY <1>2, <1>3, <1>5, <1>7, <1>8, RenderedPolls DEF ShownOK
<1> QED
  BY <1>4, <1>9 DEF WebInv

\* A poll is sent, answered by the server, or lost.
LEMMA InvPolls ==
    ASSUME WebInv, Typed',
           PollAgain \/ \E i \in DOMAIN polls : ServePoll(i) \/ PollFails(i)
    PROVE  WebInv'
<1>1. Typed /\ SelectionOK /\ ReportsOK /\ RecordedOK /\ RevokingOK /\ ShownOK
  BY DEF WebInv
<1>2. UNCHANGED <<wallet, ui, processing, plan, auth, revoking, rows, transfers>>
  BY DEF PollAgain, ServePoll, PollFails, serverVars
<1>3. SelectionOK' /\ ReportsOK' /\ RecordedOK' /\ RevokingOK'
  BY <1>1, <1>2 DEF SelectionOK, ReportsOK, RecordedOK, RevokingOK
<1>4. ui.step = "processing" /\ wallet \in Wallets
  BY <1>1 DEF PollAgain, ShownOK, Typed, AnyWallet
<1>5. View(wallet)' = View(wallet)
  BY <1>2 DEF View
<1>6. plan.assets \in Seq(Assets) /\ polls \in Seq(PollType)
  BY <1>1 DEF Typed
\* Each poll was there, is not answered yet, or was answered just now.
<1>7. ASSUME NEW j \in DOMAIN polls'
      PROVE  \/ \E k \in DOMAIN polls : polls'[j] = polls[k]
             \/ ~ polls'[j].served
             \/ polls'[j].view = View(wallet)
  <2>1. CASE PollAgain
    <3>1. /\ DOMAIN polls' = 1 .. Len(polls) + 1 /\ DOMAIN polls = 1 .. Len(polls)
          /\ Len(polls) \in Nat
          /\ polls'[Len(polls) + 1] = FreshPoll
          /\ \A k \in 1 .. Len(polls) : polls'[k] = polls[k]
      BY <1>6, <2>1 DEF PollAgain
    <3>2. j \in DOMAIN polls \/ j = Len(polls) + 1
      BY <3>1
    <3> QED
      BY <3>1, <3>2 DEF FreshPoll
  <2>2. ASSUME NEW i \in DOMAIN polls, ServePoll(i)
        PROVE  (\E k \in DOMAIN polls : polls'[j] = polls[k]) \/ polls'[j].view = View(wallet)
    <3>1. polls' = [polls EXCEPT ![i] = [served |-> TRUE, view |-> View(wallet)]]
      BY <2>2 DEF ServePoll
    <3>2. j \in DOMAIN polls
      BY <3>1
    <3>3. CASE j = i
      BY <3>1, <3>2, <3>3
    <3>4. CASE j # i
      BY <3>1, <3>2, <3>4
    <3> QED
      BY <3>3, <3>4
  <2>3. ASSUME NEW i \in DOMAIN polls, PollFails(i)
        PROVE  \E k \in DOMAIN polls : polls'[j] = polls[k]
    BY <1>6, <2>3, RemoveType DEF PollFails
  <2> QED
    BY <2>1, <2>2, <2>3
<1>8. \A a \in Range(plan.assets) :
        Reaches(processing[a], ItemState(View(wallet), a))
  BY <1>1, <1>4 DEF ShownOK
<1>9. ASSUME NEW j \in DOMAIN polls', NEW a \in Range(plan.assets), polls'[j].served
      PROVE  /\ Reaches(processing[a], ItemState(polls'[j].view, a))
             /\ Reaches(ItemState(polls'[j].view, a), ItemState(View(wallet), a))
  <2>1. CASE \E k \in DOMAIN polls : polls'[j] = polls[k]
    BY <1>1, <1>9, <2>1 DEF ShownOK
  <2>2. CASE polls'[j].view = View(wallet)
    BY <1>8, <2>2 DEF Reaches
  <2> QED
    BY <1>7, <1>9, <2>1, <2>2
<1>10. /\ \A a : ItemState(View(wallet), a)' = ItemState(View(wallet)', a)
       /\ \A j, a : ItemState(polls[j].view, a)' = ItemState(polls'[j].view, a)
  BY DEF ItemState, Listed
<1>11. ShownOK'
  BY <1>2, <1>4, <1>5, <1>8, <1>9, <1>10 DEF ShownOK
<1> QED
  BY <1>3, <1>11 DEF WebInv

\* An answer reaches the tab: what is shown is what it says.
LEMMA InvDeliver ==
    ASSUME WebInv, Typed', NEW i \in DOMAIN polls, DeliverPoll(i)
    PROVE  WebInv'
<1>1. Typed /\ SelectionOK /\ ReportsOK /\ RecordedOK /\ RevokingOK /\ ShownOK
  BY DEF WebInv
<1> DEFINE view == polls[i].view
<1>2. /\ polls[i].served
      /\ UNCHANGED <<wallet, plan, auth, revoking, rows, transfers>>
  BY DEF DeliverPoll, serverVars
<1>3. ui.step = "processing" /\ wallet \in Wallets
  BY <1>1 DEF ShownOK
<1>4. View(wallet)' = View(wallet)
  BY <1>2 DEF View
<1>5. plan.assets \in Seq(Assets) /\ polls \in Seq(PollType)
  BY <1>1 DEF Typed
<1>6. /\ \A a : ItemState(View(wallet), a)' = ItemState(View(wallet)', a)
      /\ \A j, a : ItemState(polls[j].view, a)' = ItemState(polls'[j].view, a)
  BY DEF ItemState, Listed
<1>7. CASE Listed(view) = {}
  <2>1. polls' = RemoveAt(polls, i) /\ UNCHANGED <<ui, processing>>
    BY <1>7 DEF DeliverPoll
  <2>2. \A j \in DOMAIN polls' : \E k \in DOMAIN polls : polls'[j] = polls[k]
    BY <1>5, <2>1, RemoveType
  <2>3. SelectionOK' /\ ReportsOK' /\ RecordedOK' /\ RevokingOK'
    BY <1>1, <1>2, <2>1 DEF SelectionOK, ReportsOK, RecordedOK, RevokingOK
  <2>4. ASSUME NEW j \in DOMAIN polls', NEW a \in Range(plan.assets), polls'[j].served
        PROVE  /\ Reaches(processing[a], ItemState(polls'[j].view, a))
               /\ Reaches(ItemState(polls'[j].view, a), ItemState(View(wallet), a))
    BY <1>1, <2>2, <2>4 DEF ShownOK
  <2>5. \A a \in Range(plan.assets) :
          Reaches(processing[a], ItemState(View(wallet), a))
    BY <1>1, <1>3 DEF ShownOK
  <2>6. ShownOK'
    BY <1>2, <1>3, <1>4, <1>6, <2>1, <2>4, <2>5 DEF ShownOK
  <2> QED
    BY <2>3, <2>6 DEF WebInv
<1>8. CASE Listed(view) # {}
  <2>1. /\ ui' = [ui EXCEPT !.dashboard = view] /\ Rendered
        /\ SetAssetProcessingStates([a \in Range(plan.assets) |-> ItemState(view, a)])
    BY <1>8 DEF DeliverPoll, WithDashboard
  <2>2. ui'.step = ui.step /\ ui'.selected = ui.selected /\ ui'.scan = ui.scan
    BY <1>1, <2>1 DEF Typed, UiType
  <2>3. SelectionOK' /\ ReportsOK' /\ RecordedOK' /\ RevokingOK'
    BY <1>1, <1>2, <2>2 DEF SelectionOK, ReportsOK, RecordedOK, RevokingOK
  <2>4. \A a \in Range(plan.assets) : processing'[a] = ItemState(view, a)
    BY <1>5, <2>1, PlanNamesAssets DEF SetAssetProcessingStates
  <2>5. \A a \in Range(plan.assets) :
          Reaches(processing'[a], ItemState(View(wallet), a))
    BY <1>1, <1>2, <2>4 DEF ShownOK
  <2> HIDE DEF view
  <2>6. ShownOK'
    BY <1>2, <1>3, <1>4, <1>6, <2>1, <2>2, <2>5, RenderedPolls DEF ShownOK
  <2> QED
    BY <2>3, <2>6 DEF WebInv
<1> QED
  BY <1>7, <1>8

\* The call of handleRevoke, and the sweep.
LEMMA InvRevoke ==
    ASSUME WebInv, Typed',
           \/ \E a \in Assets : Revoke(a)
           \/ Revoked \/ RevokeThrows \/ RevokeRefreshed
           \/ \E w \in Wallets, a \in Assets : SweepRow(w, a)
    PROVE  WebInv'
<1>1. Typed /\ RevokingOK
  BY DEF WebInv
<1>2. UNCHANGED <<wallet, processing, plan, auth>> /\ (polls' = polls \/ Rendered)
  BY DEF Revoke, Revoked, RevokeThrows, RevokeRefreshed, SweepRow, tabVars
<1>3. ui' = ui \/ ui' = [ui EXCEPT !.dashboard = View(revoking.wallet)]
  BY DEF Revoke, Revoked, RevokeThrows, RevokeRefreshed, SweepRow, tabVars, WithDashboard
<1>4. ui'.step = ui.step /\ ui'.selected = ui.selected /\ ui'.scan = ui.scan
  BY <1>1, <1>3 DEF Typed, UiType
<1>5. RevokingOK'
  <2>1. ASSUME NEW a \in Assets, Revoke(a) PROVE RevokingOK'
    BY <1>1, <2>1 DEF Revoke, OnScreen, RevokingOK, Typed, AnyWallet
  <2>2. CASE Revoked
    BY <1>1, <2>2 DEF Revoked, RevokingOK, Typed, RevokeType, NoRevoke
  <2>3. CASE revoking' = NoRevoke
    BY <2>3 DEF RevokingOK, NoRevoke
  <2>4. CASE revoking' = revoking
    BY <1>1, <2>4 DEF RevokingOK
  <2> QED
    BY <2>1, <2>2, <2>3, <2>4 DEF RevokeThrows, RevokeRefreshed, SweepRow, tabVars
<1>6. Grows
  <2>1. CASE UNCHANGED <<rows, transfers>>
    BY <2>1 DEF Grows
  <2>2. CASE Revoked
    <3>1. UNCHANGED transfers /\ \A w \in Wallets, a \in Assets :
            rows'[w][a] = rows[w][a] \/ rows'[w][a] = "REVOKED"
      BY <1>1, <2>2 DEF Revoked, Typed
    <3> QED
      BY <3>1 DEF Grows
  <2>3. ASSUME NEW w \in Wallets, NEW a \in Assets, SweepRow(w, a) PROVE Grows
    BY <1>1, <2>3 DEF SweepRow, Grows, Typed
  <2> QED
    BY <2>1, <2>2, <2>3 DEF Revoke, RevokeThrows, RevokeRefreshed, serverVars
<1> QED
  BY <1>2, <1>4, <1>5, <1>6, Undisturbed

(***************************************************************************)
(* The theorems.                                                           *)
(***************************************************************************)

\* WebInv is inductive.
LEMMA InvStep == WebInv /\ [Next]_vars => WebInv'
<1> SUFFICES ASSUME WebInv, [Next]_vars PROVE WebInv'
  OBVIOUS
<1>1. Typed /\ ReportsOK /\ ShownOK /\ RevokingOK
  BY DEF WebInv
<1>2. CASE UNCHANGED vars
  <2>1. /\ \A w, a : ItemState(View(w), a)' = ItemState(View(w)', a)
        /\ \A j, a : ItemState(polls[j].view, a)' = ItemState(polls'[j].view, a)
    BY DEF ItemState, Listed
  <2>2. \A w : View(w)' = View(w)
    BY <1>2 DEF View, vars, serverVars
  <2>3. Typed' /\ SelectionOK' /\ ReportsOK' /\ RecordedOK' /\ RevokingOK'
    BY <1>2 DEF vars, tabVars, serverVars, WebInv, Typed, SelectionOK, ReportsOK,
                RecordedOK, RevokingOK
  <2>4. ShownOK'
    BY <1>1, <1>2, <2>1, <2>2 DEF vars, tabVars, serverVars, ShownOK
  <2> QED
    BY <2>3, <2>4 DEF WebInv
<1>3. CASE Server
  <2>1. ASSUME NEW w \in Wallets, NEW a \in Assets, SweepRow(w, a) PROVE WebInv'
    BY <1>1, <2>1, TypedRevoke, InvRevoke
  <2>2. ASSUME NEW i \in DOMAIN polls, ServePoll(i) PROVE WebInv'
    BY <1>1, <2>2, TypedPolls, InvPolls
  <2> QED
    BY <1>3, <2>1, <2>2 DEF Server
<1>4. CASE User
  <2>1. CASE \/ \E w \in Wallets : Connect(w)
             \/ Disconnect \/ Reload \/ Retry \/ ContinueReview \/ ContinueProcessing
    BY <1>1, <2>1, TypedScreens, InvScreens
  <2>2. CASE Authorize
    BY <1>1, <2>2, TypedAuthorize, InvCall
  <2>3. CASE \E a \in Assets : Revoke(a)
    BY <1>1, <2>3, TypedRevoke, InvRevoke
  <2> QED
    BY <1>4, <2>1, <2>2, <2>3 DEF User
<1>5. CASE Tab
  <2>1. CASE Load
    BY <1>1, <2>1, TypedScreens, InvScreens
  <2>2. CASE Signed \/ SignThrows \/ ReportThrows
    BY <1>1, <2>2, TypedAuthorize, InvCall
  <2>3. CASE Reported
    BY <1>1, <2>3, TypedAuthorize, InvReported
  <2>4. CASE SignatureShown
    BY <1>1, <2>4, TypedScreens, InvSignatureShown
  <2>5. CASE PollAgain \/ \E i \in DOMAIN polls : PollFails(i)
    BY <1>1, <2>5, TypedPolls, InvPolls
  <2>6. ASSUME NEW i \in DOMAIN polls, DeliverPoll(i) PROVE WebInv'
    BY <1>1, <2>6, TypedPolls, InvDeliver
  <2>7. CASE Revoked \/ RevokeThrows \/ RevokeRefreshed
    BY <1>1, <2>7, TypedRevoke, InvRevoke
  <2> QED
    BY <1>5, <2>1, <2>2, <2>3, <2>4, <2>5, <2>6, <2>7 DEF Tab
<1> QED
  BY <1>2, <1>3, <1>4, <1>5 DEF Next

\* WebInv holds when the page opens.
LEMMA InvInit == Init => WebInv
<1> SUFFICES ASSUME Init PROVE WebInv
  OBVIOUS
<1>1. ui \in UiType /\ processing \in [Assets -> ProcessingState]
  BY DEF Init, initialState, UiType, Steps, NoScan, NoView, ViewType, AnyWallet, RowStatus,
         TransferStatus, NothingProcessing, ProcessingState
<1>2. auth \in AuthType /\ revoking \in RevokeType
      /\ plan \in [wallet : AnyWallet, assets : Seq(Assets)]
  BY DEF Init, NoAuth, NoRevoke, NoPlan, AuthType, RevokeType, AnyWallet
<1>3. polls \in Seq(PollType)
  BY DEF Init
<1>4. Typed
  BY <1>1, <1>2, <1>3 DEF Init, Typed, AnyWallet, RowStatus, TransferStatus
<1>5. /\ SelectionOK /\ ReportsOK /\ RecordedOK /\ RevokingOK /\ ShownOK
  BY DEF Init, initialState, NoScan, SelectionOK, ReportsOK, NoAuth, RecordedOK, RevokingOK,
         NoRevoke, ShownOK
<1> QED
  BY <1>4, <1>5 DEF WebInv

LEMMA WebInvAlways == Spec => []WebInv
BY InvInit, InvStep, PTL DEF Spec

\* Types of the tab's state, for any wallets, holdings and number of switches.
THEOREM WebTypeCorrect == Spec => []WebTypeOK
<1>1. WebInv => WebTypeOK
  <2> SUFFICES ASSUME WebInv PROVE WebTypeOK
    OBVIOUS
  <2>1. auth \in AuthType /\ Len(auth.assets) \in Nat
    BY LenOfSeq DEF WebInv, Typed, AuthType
  <2>2. auth.reported \in 0 .. Len(auth.assets)
    BY <2>1 DEF WebInv, ReportsOK, AuthType, NoAuth
  <2> QED
    BY <2>1, <2>2 DEF WebInv, Typed, SelectionOK, ReportsOK, WebTypeOK, UiType, AuthType,
                      AnyWallet
<1> QED
  BY <1>1, WebInvAlways, PTL

\* "Authorization confirmed" and the processing screen are only reached when
\* the server has recorded every asset of the plan (AppExperience.tsx:134-148),
\* for any number of assets under one signature.
THEOREM ConfirmedMeansRecorded == Spec => []StepAfterReports
<1>1. WebInv => StepAfterReports
  BY WebAssumption DEF WebInv, RecordedOK, StepAfterReports, NoPlan
<1> QED
  BY <1>1, WebInvAlways, PTL

\* The processing screen never says more than the server knows
\* (AppExperience.tsx:158-192).
THEOREM ScreenNeverFabricates == Spec => []ShownStatusReal
<1>1. WebInv => ShownStatusReal
  <2> SUFFICES ASSUME WebInv, ui.step = "processing", wallet = plan.wallet,
                      NEW a \in Range(plan.assets)
               PROVE  /\ rows[wallet][a] # "none"
                      /\ processing[a] = "processing" => transfers[wallet][a] # "none"
                      /\ processing[a] = "completed" => transfers[wallet][a] = "CONFIRMED"
                      /\ processing[a] = "failed" => transfers[wallet][a] = "FAILED"
    BY DEF ShownStatusReal
  <2>1. /\ rows[wallet][a] # "none" /\ wallet \in Wallets
        /\ Reaches(processing[a], ItemState(View(wallet), a))
    BY DEF WebInv, RecordedOK, ShownOK
  <2>2. a \in Assets /\ View(wallet) \in ViewType
    BY <2>1, PlanNamesAssets, ViewTyped DEF WebInv, Typed
  <2>3. View(wallet).rows[a] = rows[wallet][a]
        /\ View(wallet).transfers[a] = transfers[wallet][a]
    BY DEF View
  <2> QED
    BY <2>1, <2>2, <2>3, ItemStates DEF Reaches, Progress
<1> QED
  BY <1>1, WebInvAlways, PTL

\* Only the answer to a poll changes what the processing screen shows.
LEMMA ShownGoesForward ==
    ASSUME WebInv, [Next]_vars, ui.step = "processing", ui'.step = "processing",
           NEW a \in Assets
    PROVE  Progress[processing'[a]] >= Progress[processing[a]]
<1>1. processing \in [Assets -> ProcessingState] /\ plan.assets \in Seq(Assets)
  BY DEF WebInv, Typed
<1>2. \A s \in ProcessingState : Progress[s] \in Nat
  BY DEF ProcessingState, Progress
<1>3. CASE processing'[a] = processing[a]
  BY <1>1, <1>2, <1>3
<1>4. CASE \E i \in DOMAIN polls : DeliverPoll(i)
  <2>1. PICK i \in DOMAIN polls : DeliverPoll(i)
    BY <1>4
  <2> DEFINE view == polls[i].view
  <2>2. CASE Listed(view) = {}
    BY <1>3, <2>1, <2>2 DEF DeliverPoll
  <2>3. CASE Listed(view) # {}
    <3>1. polls[i].served
          /\ SetAssetProcessingStates([b \in Range(plan.assets) |-> ItemState(view, b)])
      BY <2>1, <2>3 DEF DeliverPoll
    <3>2. CASE a \in Range(plan.assets)
      <4>1. processing'[a] = ItemState(view, a)
        BY <3>1, <3>2 DEF SetAssetProcessingStates
      <4>2. Reaches(processing[a], ItemState(view, a))
        BY <3>1, <3>2 DEF WebInv, ShownOK
      <4>3. ItemState(view, a) \in ProcessingState
        <5>1. polls[i] \in PollType
          BY DEF WebInv, Typed
        <5> QED
          BY <5>1, ItemStates DEF PollType, ProcessingState
      <4> HIDE DEF view
      <4> QED
        BY <1>1, <1>2, <4>1, <4>2, <4>3 DEF Reaches
    <3>3. CASE a \notin Range(plan.assets)
      BY <1>3, <3>1, <3>3 DEF SetAssetProcessingStates
    <3> QED
      BY <3>2, <3>3
  <2> QED
    BY <2>2, <2>3
<1>5. auth.at = "idle"
  BY DEF WebInv, RecordedOK
<1>6. processing' = processing \/ \E i \in DOMAIN polls : DeliverPoll(i)
  <2>1. ui'.step # "idle"
    OBVIOUS
  <2>2. ~ Disconnect /\ ~ Reload
    BY <2>1 DEF Disconnect, Reset, Reload, initialState
  <2>3. ~ Reported
    BY <1>5 DEF Reported
  <2>4. CASE UNCHANGED vars
    BY <2>4 DEF vars, tabVars
  <2>5. CASE Server
    BY <2>5 DEF Server, SweepRow, ServePoll, tabVars
  <2>6. CASE User
    BY <2>2, <2>6 DEF User, Connect, Retry, ContinueReview, Authorize, ContinueProcessing,
                      Revoke
  <2>7. CASE Tab
    BY <2>3, <2>7 DEF Tab, Load, Signed, SignThrows, ReportThrows, SignatureShown, PollAgain,
                      PollFails, Revoked, RevokeThrows, RevokeRefreshed
  <2> QED
    BY <2>4, <2>5, <2>6, <2>7 DEF Next
<1> QED
  BY <1>3, <1>4, <1>6

\* Whatever order the answers to polls come back in, what the processing screen
\* shows never goes back (AppExperience.tsx:158-192): delivering one cancels
\* those sent before.
THEOREM ScreenNeverGoesBack == Spec => PollNeverGoesBack
<1>1. WebInv /\ [Next]_vars
        => [ui.step = "processing" /\ ui'.step = "processing" =>
              \A a \in Assets : Progress[processing'[a]] >= Progress[processing[a]]]_vars
  BY ShownGoesForward
<1> QED
  BY <1>1, InvInit, InvStep, PTL DEF Spec, PollNeverGoesBack
=============================================================================
