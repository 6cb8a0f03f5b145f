------------------------------- MODULE WebApp -------------------------------
(***************************************************************************)
(* The browser side of an authorization (apps/web: AppExperience.tsx with  *)
(* the reducer of lib/app-state.tsx and the requests of lib/api/client.ts) *)
(* against the server's answers: one tab, whose user may connect, switch   *)
(* and disconnect wallets or reload the page while requests are under way. *)
(*                                                                         *)
(* One action is the code between two awaits.  React commits a state       *)
(* change, and runs its effects, before the tab handles anything else.     *)
(* The server answers with rows and transfers that Authorization and Sweep *)
(* model in detail; here a report is one step, and a sweep three.          *)
(***************************************************************************)
EXTENDS Naturals, FiniteSets, Sequences, SequencesExt

CONSTANTS
    Wallets,     \* wallets the user may connect
    NoWallet,
    Assets,
    Holdings,    \* what each wallet holds above dust
    MaxLoads,    \* bound on the loads under way
    MaxSwitches, \* bound on connects, switches, disconnects and reloads
    MaxTxs       \* bound on signatures

ASSUME WebAssumption ==
    /\ IsFiniteSet(Assets)
    /\ NoWallet \notin Wallets
    /\ Holdings \in [Wallets -> SUBSET Assets]
    /\ {MaxLoads, MaxSwitches, MaxTxs} \subseteq Nat

VARIABLES
    \* --- the tab ---
    wallet,     \* the connected wallet
    ui,         \* step, fatal error, scan, selection and dashboard
    processing, \* processingByAsset
    plan,       \* planRef
    loads,      \* calls of loadInitialState under way
    polls,      \* polls of the current effect, with the answer on its way
    auth,       \* the call of handleAuthorize
    revoking,   \* the call of handleRevoke
    switches,
    \* --- server and chain ---
    rows,       \* status of each authorization row
    transfers,  \* status of each row's transfer
    txs         \* the number of signatures

tabVars == <<wallet, ui, processing, plan, loads, polls, auth, revoking, switches>>
serverVars == <<rows, transfers, txs>>
vars == <<tabVars, serverVars>>

Steps == {"idle", "checking", "scanning", "review", "summary",
          "awaiting-signature", "processing", "dashboard"}
RowStatus == {"none", "ACTIVE", "REVOKED"}
TransferStatus == {"none", "PENDING", "CONFIRMED", "FAILED"}
ProcessingState == {"none", "authorized", "processing", "completed", "failed"}

\* What /api/dashboard answers for a wallet; without any row, 404.
View(w) == [wallet |-> w, rows |-> rows[w], transfers |-> transfers[w]]
Listed(view) == {a \in Assets : view.rows[a] # "none"}

NoView == [wallet |-> NoWallet, rows |-> [a \in Assets |-> "none"],
           transfers |-> [a \in Assets |-> "none"]]
NoScan == [wallet |-> NoWallet, assets |-> {}]
NoPlan == [wallet |-> NoWallet, assets |-> <<>>]
NoAuth == [at |-> "idle", wallet |-> NoWallet, assets |-> <<>>, landed |-> FALSE,
           reported |-> 0]
NoRevoke == [at |-> "idle", wallet |-> NoWallet, owner |-> NoWallet, assets |-> {}]

initialState == [step |-> "idle", error |-> FALSE, scan |-> NoScan,
                 selected |-> {}, dashboard |-> NoView]

NothingProcessing == [a \in Assets |-> "none"]

Init ==
    /\ wallet = NoWallet
    /\ ui = initialState
    /\ processing = NothingProcessing
    /\ plan = NoPlan
    /\ loads = {}
    /\ polls = <<>>
    /\ auth = NoAuth
    /\ revoking = NoRevoke
    /\ switches = 0
    /\ rows = [w \in Wallets |-> [a \in Assets |-> "none"]]
    /\ transfers = [w \in Wallets |-> [a \in Assets |-> "none"]]
    /\ txs = 0

-----------------------------------------------------------------------------
(* Rendering.  Every render makes new actions, so it ends the poll effect  *)
(* and starts it again: the polls under way are cancelled, one is sent.    *)

FreshPoll == [served |-> FALSE, view |-> NoView]

\* Mutant: the actions are memoized, the effect goes on.
RenderedMemoized ==
    polls' = IF ui'.step # "processing" \/ wallet' = NoWallet THEN <<>>
             ELSE IF polls = <<>> THEN <<FreshPoll>> ELSE polls

Rendered ==
    polls' = IF ui'.step = "processing" /\ wallet' # NoWallet
             THEN <<FreshPoll>> ELSE <<>>

-----------------------------------------------------------------------------
(* The reducer.                                                            *)

SetStep(step) == ui' = [ui EXCEPT !.step = step]

\* All that was found is selected.
WithScan(state, w, found) ==
    [state EXCEPT !.scan = [wallet |-> w, assets |-> found], !.selected = found]

\* TOGGLE_ASSET, once for every asset whose choice changes.
WithSelected(state, keys) == [state EXCEPT !.selected = keys]

WithDashboard(state, view) == [state EXCEPT !.dashboard = view]

SetAssetProcessingStates(states) ==
    processing' = [a \in Assets |-> IF a \in DOMAIN states THEN states[a] ELSE processing[a]]

\* The error is no part of the reduced state.
Reset ==
    /\ ui' = [initialState EXCEPT !.error = ui.error]
    /\ processing' = NothingProcessing

-----------------------------------------------------------------------------
(* Wallets and loading.                                                    *)

StartLoad(w) ==
    /\ Cardinality(loads) < MaxLoads
    /\ ui' = [ui EXCEPT !.step = "checking", !.error = FALSE]
    /\ loads' = loads \cup {[wallet |-> w, at |-> "dashboard"]}

Switch == switches < MaxSwitches /\ switches' = switches + 1

\* Another wallet is selected and its connection succeeds, without a reset; one
\* that fails is a toast.
Connect(w) ==
    /\ Switch
    /\ wallet # w
    /\ wallet' = w
    /\ StartLoad(w)
    /\ Rendered
    /\ UNCHANGED <<processing, plan, auth, revoking, serverVars>>

\* RESET; what is under way goes on, and planRef stays.
Disconnect ==
    /\ Switch
    /\ wallet # NoWallet
    /\ wallet' = NoWallet
    /\ Reset
    /\ UNCHANGED <<plan, loads, auth, revoking, serverVars>>
    /\ Rendered

\* The tab forgets everything; a signature already given may land.
Reload ==
    /\ Switch
    /\ wallet' = NoWallet
    /\ ui' = initialState
    /\ processing' = NothingProcessing
    /\ plan' = NoPlan
    /\ loads' = {}
    /\ polls' = <<>>
    /\ auth' = NoAuth
    /\ revoking' = NoRevoke
    /\ UNCHANGED serverVars

Retry ==
    /\ ui.error /\ wallet # NoWallet
    /\ StartLoad(wallet)
    /\ UNCHANGED <<wallet, processing, plan, auth, revoking, switches, serverVars>>
    /\ Rendered

\* The dashboard if it lists anything, a scan otherwise, for the wallet the
\* load began with, whichever is connected now.
LoadDashboard(load) ==
    /\ load.at = "dashboard"
    /\ IF Listed(View(load.wallet)) # {}
       THEN /\ ui' = [WithDashboard(ui, View(load.wallet)) EXCEPT !.step = "dashboard"]
            /\ loads' = loads \ {load}
       ELSE /\ SetStep("scanning")
            /\ loads' = (loads \ {load}) \cup {[load EXCEPT !.at = "scan"]}

LoadScan(load) ==
    /\ load.at = "scan"
    /\ LET found == {a \in Holdings[load.wallet] : rows[load.wallet][a] # "ACTIVE"}
       IN  ui' = [WithScan(ui, load.wallet, found) EXCEPT !.step = "review"]
    /\ loads' = loads \ {load}

LoadFails(load) ==
    /\ ui' = [ui EXCEPT !.error = TRUE, !.step = "idle"]
    /\ loads' = loads \ {load}

Load ==
    /\ \E load \in loads : LoadDashboard(load) \/ LoadScan(load) \/ LoadFails(load)
    /\ UNCHANGED <<wallet, processing, plan, auth, revoking, switches, serverVars>>
    /\ Rendered

-----------------------------------------------------------------------------
(* Authorizing.                                                            *)

OnScreen(step) == wallet # NoWallet /\ ~ui.error /\ ui.step = step

\* The toggles made on the review screen, then Continue.
ContinueReview ==
    /\ OnScreen("review")
    /\ \E keys \in (SUBSET ui.scan.assets) \ {{}} :
         ui' = [WithSelected(ui, keys) EXCEPT !.step = "summary"]
    /\ UNCHANGED <<wallet, processing, plan, loads, auth, revoking, switches, serverVars>>
    /\ Rendered

\* The call keeps the wallet and the scan of the render it was made in.
Authorize ==
    /\ OnScreen("summary")
    /\ auth.at = "idle"
    /\ auth' = [NoAuth EXCEPT !.at = "sign", !.wallet = wallet,
                  !.assets = SetToSeq(ui.selected \cap ui.scan.assets)]
    /\ UNCHANGED <<wallet, ui, processing, plan, loads, revoking, switches, serverVars>>
    /\ Rendered

\* Signed by the wallet the call began with, and included; confirmTransaction
\* does not say whether it succeeded.
Signed ==
    /\ auth.at = "sign" /\ wallet = auth.wallet
    /\ txs < MaxTxs
    /\ txs' = txs + 1
    /\ \E landed \in BOOLEAN :
         /\ landed => Range(auth.assets) \subseteq Holdings[wallet]
         /\ auth' = [auth EXCEPT !.at = "report", !.landed = landed]
    /\ plan' = [wallet |-> auth.wallet, assets |-> auth.assets]
    /\ UNCHANGED <<wallet, ui, processing, loads, revoking, switches, rows, transfers>>
    /\ Rendered

\* Declined, the wrong wallet, or not confirmed in time: a toast.
SignThrows ==
    /\ auth.at = "sign"
    /\ auth' = NoAuth
    /\ UNCHANGED <<wallet, ui, processing, plan, loads, revoking, switches, serverVars>>
    /\ Rendered

NextReport == auth.assets[auth.reported + 1]

RecordReport ==
    rows' = [rows EXCEPT ![auth.wallet][NextReport] = "ACTIVE"]

\* Mutant: the loop's bound is one off.
AnotherReportHasty == auth.reported < Len(auth.assets)

AnotherReport == auth.reported + 1 < Len(auth.assets)

\* The report is answered 200: the next one, or the signature screen.
Reported ==
    /\ auth.at = "report" /\ auth.landed
    /\ RecordReport
    /\ UNCHANGED <<wallet, plan, loads, revoking, switches, transfers, txs>>
    /\ IF AnotherReport
       THEN /\ auth' = [auth EXCEPT !.reported = @ + 1]
            /\ UNCHANGED <<ui, processing, polls>>
       ELSE /\ auth' = NoAuth
            /\ SetAssetProcessingStates([a \in Range(auth.assets) |-> "authorized"])
            /\ SetStep("awaiting-signature")
            /\ Rendered

\* Mutant: a rejected report is toasted, and the loop goes on.
ReportSkipped ==
    /\ auth.at = "report"
    /\ IF AnotherReport
       THEN auth' = [auth EXCEPT !.reported = @ + 1] /\ UNCHANGED ui
       ELSE auth' = NoAuth /\ SetStep("awaiting-signature")
    /\ UNCHANGED <<wallet, processing, plan, loads, revoking, switches, serverVars>>
    /\ Rendered

\* 400, 429, 500, or no answer, recorded or not: the loop ends.
ReportThrows ==
    /\ auth.at = "report"
    /\ \/ auth.landed /\ RecordReport
       \/ UNCHANGED rows
    /\ auth' = NoAuth
    /\ UNCHANGED <<wallet, ui, processing, plan, loads, revoking, switches, transfers, txs>>
    /\ Rendered

\* SignatureMoment's timer.
SignatureShown ==
    /\ OnScreen("awaiting-signature")
    /\ SetStep("processing")
    /\ UNCHANGED <<wallet, processing, plan, loads, auth, revoking, switches, serverVars>>
    /\ Rendered

-----------------------------------------------------------------------------
(* Polling.                                                                *)

\* Mutant: the next poll is scheduled by the answer to the last.
PollIfAwaited ==
    /\ ui.step = "processing" /\ wallet # NoWallet
    /\ Len(polls) = 1
    /\ polls' = Append(polls, FreshPoll)
    /\ UNCHANGED <<wallet, ui, processing, plan, loads, auth, revoking, switches, serverVars>>

\* The interval's next poll, while one is still awaited.
PollAgain ==
    /\ ui.step = "processing" /\ wallet # NoWallet
    /\ Len(polls) < 2
    /\ polls' = Append(polls, FreshPoll)
    /\ UNCHANGED <<wallet, ui, processing, plan, loads, auth, revoking, switches, serverVars>>

\* The server reads the database; its answer travels.
ServePoll(i) ==
    /\ ~polls[i].served
    /\ polls' = [polls EXCEPT ![i] = [served |-> TRUE, view |-> View(wallet)]]
    /\ UNCHANGED <<wallet, ui, processing, plan, loads, auth, revoking, switches, serverVars>>

\* Mutant: whatever has not failed is complete.
ItemStateHasty(view, a) ==
    IF a \notin Listed(view) \/ view.transfers[a] = "none" THEN "authorized"
    ELSE IF view.transfers[a] = "FAILED" THEN "failed" ELSE "completed"

\* What an answer says of an item of the plan.
ItemState(view, a) ==
    IF a \notin Listed(view) THEN "authorized"
    ELSE [none |-> "authorized", PENDING |-> "processing",
          CONFIRMED |-> "completed", FAILED |-> "failed"][view.transfers[a]]

DeliverPoll(i) ==
    /\ polls[i].served
    /\ UNCHANGED <<wallet, plan, loads, auth, revoking, switches, serverVars>>
    /\ LET view == polls[i].view
       IN  IF Listed(view) = {}
           THEN /\ polls' = RemoveAt(polls, i)
                /\ UNCHANGED <<ui, processing>>
           ELSE /\ ui' = WithDashboard(ui, view)
                /\ SetAssetProcessingStates([a \in Range(plan.assets) |-> ItemState(view, a)])
                /\ Rendered

PollFails(i) ==
    /\ polls' = RemoveAt(polls, i)
    /\ UNCHANGED <<wallet, ui, processing, plan, loads, auth, revoking, switches, serverVars>>

allProcessingDone ==
    /\ plan.assets # <<>>
    /\ \A a \in Range(plan.assets) : processing[a] \in {"completed", "failed"}

ContinueProcessing ==
    /\ OnScreen("processing")
    /\ allProcessingDone
    /\ SetStep("dashboard")
    /\ UNCHANGED <<wallet, processing, plan, loads, auth, revoking, switches, serverVars>>
    /\ Rendered

-----------------------------------------------------------------------------
(* Revoking.                                                               *)

\* The wallet is the connected one, the account is the shown dashboard's.
Revoke(a) ==
    /\ OnScreen("dashboard")
    /\ revoking.at = "idle"
    /\ ui.dashboard.rows[a] = "ACTIVE"
    /\ revoking' = [at |-> "sign", wallet |-> wallet, owner |-> ui.dashboard.wallet,
                    assets |-> {a}]
    /\ UNCHANGED <<wallet, ui, processing, plan, loads, polls, auth, switches, serverVars>>

\* Signed, included, and reported: the server records it if the account was
\* the wallet's own.
Revoked ==
    /\ revoking.at = "sign"
    /\ txs < MaxTxs
    /\ txs' = txs + 1
    /\ IF wallet = revoking.wallet /\ revoking.owner = revoking.wallet
       THEN /\ rows' = [rows EXCEPT ![revoking.wallet] =
                 [a \in Assets |-> IF a \in revoking.assets THEN "REVOKED" ELSE @[a]]]
            /\ revoking' = [revoking EXCEPT !.at = "refresh"]
       ELSE /\ revoking' = NoRevoke
            /\ UNCHANGED rows
    /\ UNCHANGED <<wallet, ui, processing, plan, loads, polls, auth, switches, transfers>>

RevokeThrows ==
    /\ revoking.at # "idle"
    /\ revoking' = NoRevoke
    /\ UNCHANGED <<wallet, ui, processing, plan, loads, polls, auth, switches, serverVars>>

\* The refreshed dashboard, of the wallet that revoked.
RevokeRefreshed ==
    /\ revoking.at = "refresh"
    /\ ui' = WithDashboard(ui, View(revoking.wallet))
    /\ revoking' = NoRevoke
    /\ UNCHANGED <<wallet, processing, plan, loads, auth, switches, serverVars>>
    /\ Rendered

-----------------------------------------------------------------------------
(* The sweep of an active row: one transfer.                               *)

SweepRow(w, a) ==
    /\ \/ /\ rows[w][a] = "ACTIVE" /\ transfers[w][a] = "none"
          /\ transfers' = [transfers EXCEPT ![w][a] = "PENDING"]
       \/ /\ transfers[w][a] = "PENDING"
          /\ \E status \in {"CONFIRMED", "FAILED"} :
               transfers' = [transfers EXCEPT ![w][a] = status]
    /\ UNCHANGED <<tabVars, rows, txs>>

Server ==
    \/ \E w \in Wallets, a \in Assets : SweepRow(w, a)
    \/ \E i \in DOMAIN polls : ServePoll(i)

User ==
    \/ \E w \in Wallets : Connect(w)
    \/ Disconnect \/ Reload \/ Retry
    \/ ContinueReview \/ Authorize \/ ContinueProcessing
    \/ \E a \in Assets : Revoke(a)

Tab ==
    \/ Load
    \/ Signed \/ SignThrows \/ Reported \/ ReportThrows \/ SignatureShown
    \/ PollAgain
    \/ \E i \in DOMAIN polls : DeliverPoll(i) \/ PollFails(i)
    \/ Revoked \/ RevokeThrows \/ RevokeRefreshed

Next == Server \/ User \/ Tab

\* The interval goes on; of infinitely many polls, some reach the server and
\* some answers the tab.
Fairness ==
    /\ WF_vars(PollAgain)
    /\ SF_vars(\E i \in DOMAIN polls : ServePoll(i))
    /\ SF_vars(\E i \in DOMAIN polls : DeliverPoll(i))

Spec == Init /\ [][Next]_vars /\ Fairness

-----------------------------------------------------------------------------
(* Properties.                                                             *)

\* Types of the tab's state and of the rows it is answered with.
WebTypeOK ==
    /\ wallet \in Wallets \cup {NoWallet}
    /\ ui.step \in Steps /\ ui.error \in BOOLEAN
    /\ ui.selected \subseteq ui.scan.assets
    /\ processing \in [Assets -> ProcessingState]
    /\ auth.at \in {"idle", "sign", "report"}
    /\ auth.reported \in 0 .. Len(auth.assets)
    /\ auth.at = "report" => auth.reported < Len(auth.assets)
    /\ rows \in [Wallets -> [Assets -> RowStatus]]
    /\ transfers \in [Wallets -> [Assets -> TransferStatus]]

\* "Authorization confirmed" and the processing screen are only reached when
\* the server has recorded every asset of the plan, for the wallet that signed
\* it, whatever failed, was switched or answered late before
\* (AppExperience.tsx:134-148).
StepAfterReports ==
    ui.step \in {"awaiting-signature", "processing"} =>
      /\ plan # NoPlan
      /\ \A a \in Range(plan.assets) : rows[plan.wallet][a] # "none"

\* While the connected wallet is the plan's, the processing screen never says
\* more than the server knows (AppExperience.tsx:158-159, "never fabricates a
\* status").
ShownStatusReal ==
    ui.step = "processing" /\ wallet = plan.wallet =>
      \A a \in Range(plan.assets) :
        LET real == transfers[wallet][a]
        IN  /\ rows[wallet][a] # "none"
            /\ processing[a] = "processing" => real # "none"
            /\ processing[a] = "completed" => real = "CONFIRMED"
            /\ processing[a] = "failed" => real = "FAILED"

Progress == [none |-> 0, authorized |-> 1, processing |-> 2, completed |-> 3, failed |-> 3]

\* Answers to polls may come back in another order; what the processing screen
\* shows of an asset still never goes back.
PollNeverGoesBack ==
    [][ui.step = "processing" /\ ui'.step = "processing" =>
         \A a \in Assets : Progress[processing'[a]] >= Progress[processing[a]]]_vars

\* When the transfers of a plan are settled, the screen says so some time, even
\* if polls fail on the way (AppExperience.tsx:160-192).
ScreenCatchesUp ==
    (/\ ui.step = "processing" /\ wallet = plan.wallet
     /\ \A a \in Range(plan.assets) : transfers[wallet][a] \in {"CONFIRMED", "FAILED"})
      ~> (allProcessingDone \/ ui.step # "processing" \/ wallet # plan.wallet)
=============================================================================
