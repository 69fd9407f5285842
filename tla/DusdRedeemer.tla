---------------------------- MODULE DusdRedeemer ----------------------------
(***************************************************************************)
(* RedeemerV2.sol: burns dUSD for collateral at oracle prices, less a fee  *)
(* that is paid in the same collateral.                                    *)
(***************************************************************************)
EXTENDS CollateralVault

CONSTANTS
  OneHundredPercentBps,   \* Constants.ONE_HUNDRED_PERCENT_BPS
  MaxFeeBps,              \* MAX_FEE_BPS
  InitialFeeBps,
  InitialFeeReceiver,
  FeeChoices,             \* the fees the admin may choose
  FeeReceivers,           \* the receivers the admin may choose
  RedemptionManagers      \* accounts holding REDEMPTION_MANAGER_ROLE

ASSUME RedeemerAssumption ==
  /\ OneHundredPercentBps \in Nat \ {0}
  /\ MaxFeeBps \in Nat /\ MaxFeeBps <= OneHundredPercentBps
  /\ InitialFeeBps \in 0 .. MaxFeeBps
  /\ InitialFeeReceiver \in Accounts /\ FeeReceivers \subseteq Accounts
  /\ FeeChoices \subseteq Nat
  /\ RedemptionManagers \subseteq Accounts

VARIABLES
  redeemerVault,            \* collateralVault
  redemptionPaused,         \* Pausable._paused
  assetRedemptionPaused,    \* the assets whose redemption is paused
  feeReceiver,
  defaultRedemptionFeeBps,
  collateralRedemptionFeeBps,   \* [Assets -> Nat]
  isCollateralFeeOverridden     \* the assets whose own fee applies

feeVars == <<feeReceiver, defaultRedemptionFeeBps, collateralRedemptionFeeBps,
             isCollateralFeeOverridden>>
redeemerVars == <<redeemerVault, redemptionPaused, assetRedemptionPaused, feeVars>>

RedeemerTypeOK ==
  /\ redeemerVault \in Vaults
  /\ redemptionPaused \in BOOLEAN
  /\ assetRedemptionPaused \subseteq Assets
  /\ feeReceiver \in Accounts
  /\ defaultRedemptionFeeBps \in 0 .. MaxFeeBps
  /\ collateralRedemptionFeeBps \in [Assets -> 0 .. MaxFeeBps]
  /\ isCollateralFeeOverridden \subseteq Assets

RedeemerInit ==
  /\ redeemerVault = InitialVault
  /\ redemptionPaused = FALSE
  /\ assetRedemptionPaused = {}
  /\ feeReceiver = InitialFeeReceiver
  /\ defaultRedemptionFeeBps = InitialFeeBps
  /\ collateralRedemptionFeeBps = [a \in Assets |-> 0]
  /\ isCollateralFeeOverridden = {}

-----------------------------------------------------------------------------
(* Mutant: rounds up.                                                      *)
CollateralForRoundedUp(n, asset) ==
  (DusdAmountToBaseValue(n) * Unit[asset] + price[asset] - 1) \div price[asset]

CollateralFor(n, asset) == AssetAmountFromValue(DusdAmountToBaseValue(n), asset)

(* Mutant: the override adds to the default.                               *)
CombinedFeeBps(asset) == defaultRedemptionFeeBps + collateralRedemptionFeeBps[asset]

CurrentFeeBps(asset) ==
  IF asset \in isCollateralFeeOverridden THEN collateralRedemptionFeeBps[asset]
                                         ELSE defaultRedemptionFeeBps

FeeOn(n, asset) == MulDiv(n, CurrentFeeBps(asset), OneHundredPercentBps)

Redeemable(asset) ==
  /\ ~redemptionPaused
  /\ asset \in supported[redeemerVault]
  /\ asset \notin assetRedemptionPaused
  /\ price[asset] > 0

(* Mutant: the dUSD stays with the redeemer.                               *)
AfterPullOnly(b, caller, n) == Move(b, Dusd, caller, Redeemer, n)

(* _redeem: pull the dUSD, burn it, send the collateral.                   *)
AfterBurn(b, caller, n) ==
  Debit(Move(b, Dusd, caller, Redeemer, n), Dusd, Redeemer, n)

(* Mutant: pays from the vault the redeemer was deployed with.             *)
PayOutOfFirstVault(caller, n, asset, collateralAmount) ==
  Withdraw(AfterBurn(bal, caller, n), InitialVault, caller, collateralAmount, asset)

PayOut(caller, n, asset, collateralAmount) ==
  Withdraw(AfterBurn(bal, caller, n), redeemerVault, caller, collateralAmount, asset)

CanPayOut(caller, n, asset, collateralAmount) ==
  /\ CanTransferFrom(bal, Dusd, Redeemer, caller, Redeemer, n)
  /\ CanWithdraw(AfterBurn(bal, caller, n), redeemerVault, caller, collateralAmount, asset)

-----------------------------------------------------------------------------
Redeem(caller, n, asset, minNet) ==
  LET total == CollateralFor(n, asset)
      fee   == FeeOn(total, asset)
      net   == total - fee
      b1    == PayOut(caller, n, asset, net)
  IN /\ Redeemable(asset)
     /\ net >= minNet
     /\ CanPayOut(caller, n, asset, net)
     /\ \/ /\ fee > 0
           /\ CanWithdraw(b1, redeemerVault, feeReceiver, fee, asset)
           /\ bal' = Withdraw(b1, redeemerVault, feeReceiver, fee, asset)
        \/ /\ fee = 0
           /\ bal' = b1
     /\ supply' = [supply EXCEPT ![Dusd] = @ - n]
     /\ UNCHANGED <<allowlisted, vaultVars, redeemerVars>>

RedeemAsProtocol(caller, n, asset, min) ==
  LET total == CollateralFor(n, asset)
  IN /\ Redeemable(asset)
     /\ total >= min
     /\ CanPayOut(caller, n, asset, total)
     /\ bal' = PayOut(caller, n, asset, total)
     /\ supply' = [supply EXCEPT ![Dusd] = @ - n]
     /\ UNCHANGED <<allowlisted, vaultVars, redeemerVars>>

-----------------------------------------------------------------------------
SetRedeemerVault(v) ==
  /\ redeemerVault' = v
  /\ UNCHANGED <<ledgerVars, vaultVars, redemptionPaused, assetRedemptionPaused, feeVars>>

SetAssetRedemptionPause(asset, paused) ==
  /\ asset \in supported[redeemerVault]
  /\ assetRedemptionPaused' = IF paused THEN assetRedemptionPaused \cup {asset}
                                        ELSE assetRedemptionPaused \ {asset}
  /\ UNCHANGED <<ledgerVars, vaultVars, redeemerVault, redemptionPaused, feeVars>>

SetRedemptionPaused(paused) ==
  /\ redemptionPaused # paused
  /\ redemptionPaused' = paused
  /\ UNCHANGED <<ledgerVars, vaultVars, redeemerVault, assetRedemptionPaused, feeVars>>

SetFeeReceiver(account) ==
  /\ feeReceiver' = account
  /\ UNCHANGED <<ledgerVars, vaultVars, redeemerVault, redemptionPaused, assetRedemptionPaused,
                 defaultRedemptionFeeBps, collateralRedemptionFeeBps, isCollateralFeeOverridden>>

SetDefaultRedemptionFee(bps) ==
  /\ bps <= MaxFeeBps
  /\ defaultRedemptionFeeBps' = bps
  /\ UNCHANGED <<ledgerVars, vaultVars, redeemerVault, redemptionPaused, assetRedemptionPaused,
                 feeReceiver, collateralRedemptionFeeBps, isCollateralFeeOverridden>>

(* Overrides even with a fee of zero.                                      *)
SetCollateralRedemptionFee(asset, bps) ==
  /\ bps <= MaxFeeBps
  /\ collateralRedemptionFeeBps' = [collateralRedemptionFeeBps EXCEPT ![asset] = bps]
  /\ isCollateralFeeOverridden' = isCollateralFeeOverridden \cup {asset}
  /\ UNCHANGED <<ledgerVars, vaultVars, redeemerVault, redemptionPaused, assetRedemptionPaused,
                 feeReceiver, defaultRedemptionFeeBps>>

ClearCollateralRedemptionFee(asset) ==
  /\ collateralRedemptionFeeBps' = [collateralRedemptionFeeBps EXCEPT ![asset] = 0]
  /\ isCollateralFeeOverridden' = isCollateralFeeOverridden \ {asset}
  /\ UNCHANGED <<ledgerVars, vaultVars, redeemerVault, redemptionPaused, assetRedemptionPaused,
                 feeReceiver, defaultRedemptionFeeBps>>

-----------------------------------------------------------------------------
RedeemerNext ==
  \/ \E caller \in Accounts, n \in Amounts, asset \in Assets, min \in SlippageBounds :
       Redeem(caller, n, asset, min)
  \/ \E caller \in RedemptionManagers, n \in Amounts, asset \in Assets, min \in SlippageBounds :
       RedeemAsProtocol(caller, n, asset, min)
  \/ \E v \in Vaults : SetRedeemerVault(v)
  \/ \E asset \in Assets, paused \in PauseChoices : SetAssetRedemptionPause(asset, paused)
  \/ \E paused \in PauseChoices : SetRedemptionPaused(paused)
  \/ \E account \in FeeReceivers : SetFeeReceiver(account)
  \/ \E bps \in FeeChoices : SetDefaultRedemptionFee(bps)
  \/ \E asset \in Assets, bps \in FeeChoices : SetCollateralRedemptionFee(asset, bps)
  \/ \E asset \in Assets : ClearCollateralRedemptionFee(asset)
=============================================================================
