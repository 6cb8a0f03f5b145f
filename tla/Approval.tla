------------------------------ MODULE Approval ------------------------------
(***************************************************************************)
(* The one transaction a client signs: what it approves for each asset,    *)
(* and what it does to the client's token accounts                         *)
(* (apps/web/lib/solana/authorization.ts and handleAuthorize of            *)
(* AppExperience.tsx).  An asset is a mint, SOL being 0; an account is its *)
(* balance and what the pooled wallet may take of it.                      *)
(***************************************************************************)
EXTENDS Arranging, Sequences, SequencesExt

CONSTANTS
    FALLBACK_DELEGATED_AMOUNT,
    SOL_FEE_RESERVE_LAMPORTS

ASSUME ApprovalAssumption ==
    {FALLBACK_DELEGATED_AMOUNT, SOL_FEE_RESERVE_LAMPORTS} \subseteq Nat

SOL == 0

\* Mutant: divides before it multiplies.
ceilingDividedFirst(cap, held, usd) ==
    IF usd = 0 THEN FALLBACK_DELEGATED_AMOUNT ELSE (cap \div usd) * held

\* The cap in native units, at the price implied by what is held.
computeApprovalCeiling(cap, held, usd) ==
    IF usd = 0 THEN FALLBACK_DELEGATED_AMOUNT ELSE (cap * held) \div usd

solWrapAmount(lamports) ==
    IF lamports > SOL_FEE_RESERVE_LAMPORTS
    THEN lamports - SOL_FEE_RESERVE_LAMPORTS ELSE 0

Instruction(type, asset, amount) == [type |-> type, asset |-> asset, amount |-> amount]

\* A transfer into the wSOL account with its SyncNative, then the approval.
SolInstructions(wrap, delegated) ==
    (IF wrap > 0 THEN <<Instruction("wrap", SOL, wrap)>> ELSE <<>>)
      \o <<Instruction("approve", SOL, delegated)>>

SplInstruction(asset, cap) ==
    Instruction("approve", asset.mint,
                computeApprovalCeiling(cap, asset.amount, asset.usdValue))

\* SOL if the scan offered it, with a ceiling from what is wrapped and the
\* value of what is held, then the SPL assets in the order of the scan.
buildCombinedAuthorizationTransaction(scanned, keys, cap) ==
    LET wrap == solWrapAmount(scanned.lamports)
        splAssets == Kept(scanned.spl, {i \in DOMAIN scanned.spl : scanned.spl[i].mint \in keys})
    IN  (IF SOL \in keys /\ scanned.solEligible
         THEN SolInstructions(wrap, computeApprovalCeiling(cap, wrap, scanned.solUsd))
         ELSE <<>>)
          \o [i \in DOMAIN splAssets |-> SplInstruction(splAssets[i], cap)]

\* The instructions take effect one after the other; an approval replaces
\* the one before it.
Executed(instructions, accounts) ==
    LET Apply(acc, ix) ==
          IF ix.type = "wrap"
          THEN [acc EXCEPT ![ix.asset].balance = @ + ix.amount]
          ELSE [acc EXCEPT ![ix.asset].delegated = ix.amount]
    IN  FoldLeft(Apply, accounts, instructions)
=============================================================================
