----------------------------- MODULE DusdSystem -----------------------------
(***************************************************************************)
(* The dUSD system after the V2 upgrade: the issuer, the redeemer and the  *)
(* AMO manager over the same ledger, vaults and oracle.  Each transaction  *)
(* of any of them is one step; the steps of all callers, of governance and *)
(* of the oracle interleave freely.                                        *)
(***************************************************************************)
EXTENDS DusdIssuer, DusdRedeemer, AmoManagerV2

(* The decimals of the deployment: 6 for dUSD, 8 for the oracle, 18 for    *)
(* the debt token.  Only that each divides the next matters: no conversion *)
(* from dUSD to debt tokens rounds.                                        *)
ASSUME DecimalsAssumption == BaseUnit % Unit[Dusd] = 0 /\ Unit[DebtToken] % BaseUnit = 0

vars == <<ledgerVars, vaultVars, issuerVars, redeemerVars, amoVars>>

TypeOK ==
  /\ LedgerTypeOK
  /\ VaultTypeOK
  /\ IssuerTypeOK
  /\ RedeemerTypeOK
  /\ AmoTypeOK

Init ==
  /\ LedgerInit
  /\ VaultInit
  /\ IssuerInit
  /\ RedeemerInit
  /\ AmoInit

Next ==
  \/ LedgerNext /\ UNCHANGED <<vaultVars, issuerVars, redeemerVars, amoVars>>
  \/ VaultNext /\ UNCHANGED <<issuerVars, redeemerVars, amoVars>>
  \/ IssuerNext /\ UNCHANGED <<redeemerVars, amoVars>>
  \/ RedeemerNext /\ UNCHANGED <<issuerVars, amoVars>>
  \/ AmoNext /\ UNCHANGED <<issuerVars, redeemerVars>>

Spec == Init /\ [][Next]_vars

-----------------------------------------------------------------------------
(* The balances of every token add up to its total supply: no handler      *)
(* creates or loses tokens, whichever way it moves them.                   *)
Conservation == \A t \in Tokens : SumFunctionOnSet(bal[t], Holders) = supply[t]

(* Debt tokens rest in vaults only, and nothing rests in the issuer, the   *)
(* redeemer or the AMO manager between transactions: neither a redemption, *)
(* an exchange, an issuance nor a borrowing can carry debt tokens out,     *)
(* although they are supported collateral like any other.                  *)
AtRest ==
  /\ \A a \in Accounts : bal[DebtToken][a] = 0
  /\ \A t \in Tokens, c \in Contracts : bal[t][c] = 0

SystemValue == SumFunctionOnSet([v \in Vaults |-> TotalValue(v)], Vaults)

(* What the vaults hold beyond the dUSD in circulation, scaled so that no  *)
(* rounding hides a loss.                                                  *)
Surplus == SystemValue * Unit[Dusd] - supply[Dusd] * BaseUnit

(* The step leaves prices and lists alone and moves only assets its vault  *)
(* supports, with the debt token at its hard peg.                          *)
OrdinaryStep ==
  /\ UNCHANGED vaultVars
  /\ price[DebtToken] = BaseUnit
  /\ \A v \in Vaults, a \in Assets : bal'[a][v] # bal[a][v] => a \in supported[v]

(* Lending collateral out may round one base unit away, even when it is   *)
(* too little to be worth any debt, and whatever tolerance the admin has   *)
(* set; nothing else may lose anything.                                    *)
RoundingLoss ==
  IF /\ supply'[Dusd] = supply[Dusd]
     /\ \A v \in Vaults, a \in Collaterals : bal'[a][v] <= bal[a][v]
    THEN Unit[Dusd] ELSE 0

(* Without a price or list change the surplus never shrinks, except that   *)
(* governance may mint against it while the issuer's vault still covers    *)
(* all dUSD.                                                               *)
BackingKept ==
  OrdinaryStep =>
    \/ Surplus' >= Surplus - RoundingLoss
    \/ /\ \A v \in Vaults, a \in Assets : bal'[a][v] = bal[a][v]
       /\ supply'[Dusd] <= CollateralInDusd(bal', issuerVault)
BackingPreserved == [][BackingKept]_vars

(* dUSD is created only under cover: either the issuer's vault covers the  *)
(* whole supply afterwards, or the same step put debt tokens of the same   *)
(* worth into a vault.                                                     *)
MintCovered ==
  supply'[Dusd] > supply[Dusd] =>
    \/ supply'[Dusd] <= CollateralInDusd(bal', issuerVault)
    \/ \E v \in Vaults : bal'[DebtToken][v] - bal[DebtToken][v]
                           = DebtForDusd(supply'[Dusd] - supply[Dusd])
MintOnlyUnderCover == [][MintCovered]_vars

-----------------------------------------------------------------------------
Fallen(t, h) == bal[t][h] - bal'[t][h]
Gained(t, h) == bal'[t][h] - bal[t][h]
DebtUnchanged == supply'[DebtToken] = supply[DebtToken]

(* A pause stops the whole door it is on.  With minting paused, or with    *)
(* minting on an asset paused, dUSD is created (against that asset) only   *)
(* by the AMO, together with debt tokens; with redemption, or redemption   *)
(* of an asset, paused no step that destroys dUSD takes collateral, or     *)
(* that asset, out of the redeemer's vault.                                *)
PauseRespected ==
  /\ supply'[Dusd] > supply[Dusd] /\ DebtUnchanged =>
       /\ ~mintingPaused
       /\ \A a \in assetMintingPaused : Gained(a, issuerVault) <= 0
  /\ supply'[Dusd] < supply[Dusd] /\ DebtUnchanged =>
       \A a \in Assets : Fallen(a, redeemerVault) > 0 =>
         ~redemptionPaused /\ a \notin assetRedemptionPaused
PausesHold == [][PauseRespected]_vars

(* Whoever redeems dUSD takes out of the vault collateral worth no more    *)
(* than the dUSD, and receives of it at least what the highest fee leaves, *)
(* whichever of the default fee, an override or a cleared override applies.*)
RedemptionFair ==
  supply'[Dusd] < supply[Dusd] /\ DebtUnchanged =>
    \A a \in Assets, c \in Accounts :
      LET out == Fallen(a, redeemerVault)
      IN out > 0 =>
           /\ out = CollateralFor(supply[Dusd] - supply'[Dusd], a)
           /\ Fallen(Dusd, c) > 0 =>
                Gained(a, c) >= out - MulDiv(out, MaxFeeBps, OneHundredPercentBps)
RedemptionPaysFairly == [][RedemptionFair]_vars

(* While the peg guard is on and dUSD or the debt token is off its peg, no *)
(* debt token is created or destroyed: the AMO stands still.               *)
DebtFrozen ==
  pegDeviationBps # 0 /\ (\E t \in {Dusd, DebtToken} : PegDeviation(t) > pegDeviationBps)
    => DebtUnchanged
DebtFrozenOffPeg == [][DebtFrozen]_vars

(* In a step that changes the debt only an allowed AMO wallet gains or     *)
(* loses anything: a wallet that governance removed while it still owed    *)
(* can neither be lent to nor be drawn on.                                 *)
OnlyWalletsMove ==
  ~DebtUnchanged =>
    \A t \in Tokens, a \in Accounts : bal'[t][a] # bal[t][a] => a \in allowedWallets
AmoTouchesOnlyWallets == [][OnlyWalletsMove]_vars

(* A vault that no contract points to any more keeps the worth of what it  *)
(* holds through every step but a change of price; only a strategist can   *)
(* still exchange what is in it, value for value.                          *)
Worth(v) ==
  SumFunctionOnSet([a \in Assets |-> AssetValueFromAmount(bal[a][v], a)], Assets)
RetiredVaultKept ==
  price' = price =>
    \A v \in Vaults \ {issuerVault, redeemerVault, managerVault} : Worth(v)' >= Worth(v)
RetiredVaultKeepsWorth == [][RetiredVaultKept]_vars

-----------------------------------------------------------------------------
(* "We must take in a collateral that is supported"                        *)
(* (CollateralHolderVault.sol:50, of exchangeCollateral).                  *)
TakesIn ==
  \A v \in Vaults, from, to \in Assets :
    bal'[from][v] > bal[from][v] /\ bal'[to][v] < bal[to][v] => from \in supported[v]
TakesInOnlySupported == [][TakesIn]_vars
=============================================================================
