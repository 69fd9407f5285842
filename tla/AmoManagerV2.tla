---------------------------- MODULE AmoManagerV2 ----------------------------
(***************************************************************************)
(* AmoManagerV2.sol: mints and burns dUSD for AMO wallets against debt     *)
(* tokens held by the vault, and lends the vault's collateral to the       *)
(* wallets against debt tokens.                                            *)
(***************************************************************************)
EXTENDS CollateralVault

CONSTANTS
  PegScale,             \* BasisPointConstants.ONE_HUNDRED_PERCENT_BPS
  InitialPegDeviation,  \* pegDeviationBps after deployment
  InitialWallets,       \* the AMO wallets allowed at the start
  AmoWallets,           \* the accounts governance may allow
  ToleranceChoices,     \* the tolerances the admin may choose
  PegChoices,           \* the peg deviations the admin may choose
  MaxAmoDusd,           \* bound on the dUSD supply an AMO mint may reach
  MaxDebt               \* bound on the debt token supply explored

ASSUME AmoAssumption ==
  /\ PegScale \in Nat \ {0}
  /\ InitialPegDeviation \in 0 .. PegScale
  /\ AmoWallets \subseteq Accounts /\ InitialWallets \subseteq AmoWallets
  /\ ToleranceChoices \subseteq Nat /\ PegChoices \subseteq Nat
  /\ MaxAmoDusd \in Nat /\ MaxDebt \in Nat

VARIABLES
  managerVault,     \* collateralVault
  allowedWallets,   \* _allowedAmoWallets
  tolerance,        \* in base units
  pegDeviationBps   \* 0 disables the peg guard

amoVars == <<managerVault, allowedWallets, tolerance, pegDeviationBps>>

AmoTypeOK ==
  /\ managerVault \in Vaults
  /\ allowedWallets \subseteq AmoWallets
  /\ tolerance \in Nat
  /\ pegDeviationBps \in 0 .. PegScale

-----------------------------------------------------------------------------
PegDeviation(t) == MulDiv(AbsDiff(price[t], BaseUnit), PegScale, BaseUnit)

(* Mutant: only dUSD is watched.                                           *)
PegGuardOfDusd == pegDeviationBps # 0 => PegDeviation(Dusd) <= pegDeviationBps

(* _ensurePegGuard, with _enforcePegForAsset.                              *)
PegGuard ==
  pegDeviationBps # 0 => \A t \in {Dusd, DebtToken} : PegDeviation(t) <= pegDeviationBps

(* The constructor: it refuses to deploy off the peg.                      *)
AmoInit ==
  /\ managerVault = InitialVault
  /\ allowedWallets = InitialWallets
  /\ tolerance = 1
  /\ pegDeviationBps = InitialPegDeviation
  /\ PegGuard

OutsideTolerance(actual, expected) ==
  \/ actual + tolerance < expected
  \/ actual > expected + tolerance

(* The vault's value may fall by at most the tolerance.                    *)
ValueKept(b1) == TotalValueIn(b1, managerVault) + tolerance >= TotalValue(managerVault)

(* Mutant: the value is minted as it is, not in the debt token's decimals. *)
DebtForDusdUnscaled(n) == DusdAmountToBaseValue(n)

DebtForDusd(n) == BaseToDebtUnits(DusdAmountToBaseValue(n))
DebtForAsset(n, asset) == BaseToDebtUnits(AssetValueFromAmount(n, asset))

(* AmoDebtToken.mintToVault.                                               *)
CanMintDebt == managerVault \in allowlisted

(* Withdraw debt tokens from the vault to the manager, then burn them.     *)
CanBurnDebt(b, debt) ==
  /\ CanWithdraw(b, managerVault, Manager, debt, DebtToken)
  /\ CanBurn(Withdraw(b, managerVault, Manager, debt, DebtToken), DebtToken, Manager, debt)
AfterDebtBurn(b, debt) ==
  Debit(Withdraw(b, managerVault, Manager, debt, DebtToken), DebtToken, Manager, debt)

(* Mutant: any wallet will do.                                             *)
CollateralOperationAnyWallet(wallet, asset) ==
  /\ asset \in supported[managerVault]
  /\ asset # DebtToken
  /\ PegGuard

CollateralOperation(wallet, asset) ==
  /\ wallet \in allowedWallets
  /\ asset \in supported[managerVault]
  /\ asset # DebtToken
  /\ PegGuard

-----------------------------------------------------------------------------
IncreaseAmoSupply(n, wallet) ==
  LET debt == DebtForDusd(n)
  IN /\ wallet \in allowedWallets
     /\ PegGuard
     /\ CanMintDebt
     /\ supply[Dusd] + n <= MaxAmoDusd /\ supply[DebtToken] + debt <= MaxDebt
     /\ bal' = Credit(Credit(bal, DebtToken, managerVault, debt), Dusd, wallet, n)
     /\ supply' = [supply EXCEPT ![DebtToken] = @ + debt, ![Dusd] = @ + n]
     /\ ~OutsideTolerance(supply'[DebtToken] - supply[DebtToken],
                          DebtForDusd(supply'[Dusd] - supply[Dusd]))
     /\ UNCHANGED <<allowlisted, vaultVars, amoVars>>

DecreaseAmoSupply(n, wallet) ==
  LET debt == DebtForDusd(n)
      b1   == Debit(Move(bal, Dusd, wallet, Manager, n), Dusd, Manager, n)
  IN /\ wallet \in allowedWallets
     /\ PegGuard
     /\ CanTransferFrom(bal, Dusd, Manager, wallet, Manager, n)
     /\ CanBurnDebt(b1, debt)
     /\ bal' = AfterDebtBurn(b1, debt)
     /\ supply' = [supply EXCEPT ![DebtToken] = @ - debt, ![Dusd] = @ - n]
     /\ ~OutsideTolerance(supply[DebtToken] - supply'[DebtToken],
                          DebtForDusd(supply[Dusd] - supply'[Dusd]))
     /\ UNCHANGED <<allowlisted, vaultVars, amoVars>>

BorrowTo(wallet, asset, n, minDebtMinted) ==
  LET debt == DebtForAsset(n, asset)
      b1   == Credit(bal, DebtToken, managerVault, debt)
  IN /\ CollateralOperation(wallet, asset)
     /\ debt >= minDebtMinted
     /\ CanMintDebt
     /\ supply[DebtToken] + debt <= MaxDebt
     /\ CanWithdraw(b1, managerVault, wallet, n, asset)
     /\ bal' = Withdraw(b1, managerVault, wallet, n, asset)
     /\ ValueKept(bal')
     /\ supply' = [supply EXCEPT ![DebtToken] = @ + debt]
     /\ UNCHANGED <<allowlisted, vaultVars, amoVars>>

RepayFrom(wallet, asset, n, maxDebtBurned) ==
  LET debt == DebtForAsset(n, asset)
      b1   == Move(bal, asset, wallet, managerVault, n)
  IN /\ CollateralOperation(wallet, asset)
     /\ debt <= maxDebtBurned
     /\ CanTransferFrom(bal, asset, Manager, wallet, managerVault, n)
     /\ CanBurnDebt(b1, debt)
     /\ bal' = AfterDebtBurn(b1, debt)
     /\ ValueKept(bal')
     /\ supply' = [supply EXCEPT ![DebtToken] = @ - debt]
     /\ UNCHANGED <<allowlisted, vaultVars, amoVars>>

-----------------------------------------------------------------------------
SetManagerVault(v) ==
  /\ managerVault' = v
  /\ UNCHANGED <<ledgerVars, vaultVars, allowedWallets, tolerance, pegDeviationBps>>

SetAmoWalletAllowed(wallet, allowed) ==
  /\ allowedWallets' = IF allowed THEN allowedWallets \cup {wallet} ELSE allowedWallets \ {wallet}
  /\ UNCHANGED <<ledgerVars, vaultVars, managerVault, tolerance, pegDeviationBps>>

SetTolerance(n) ==
  /\ tolerance' = n
  /\ UNCHANGED <<ledgerVars, vaultVars, managerVault, allowedWallets, pegDeviationBps>>

SetPegDeviationBps(bps) ==
  /\ bps <= PegScale
  /\ pegDeviationBps' = bps
  /\ UNCHANGED <<ledgerVars, vaultVars, managerVault, allowedWallets, tolerance>>

-----------------------------------------------------------------------------
AmoNext ==
  \/ \E n \in Amounts, wallet \in AmoWallets : IncreaseAmoSupply(n, wallet)
  \/ \E n \in Amounts, wallet \in AmoWallets : DecreaseAmoSupply(n, wallet)
  \/ \E wallet \in AmoWallets, asset \in Assets, n \in Amounts, min \in SlippageBounds :
       BorrowTo(wallet, asset, n, min)
  \/ \E wallet \in AmoWallets, asset \in Assets, n \in Amounts, max \in SlippageBounds :
       RepayFrom(wallet, asset, n, max)
  \/ \E v \in Vaults : SetManagerVault(v)
  \/ \E wallet \in AmoWallets, allowed \in BOOLEAN : SetAmoWalletAllowed(wallet, allowed)
  \/ \E n \in ToleranceChoices : SetTolerance(n)
  \/ \E bps \in PegChoices : SetPegDeviationBps(bps)
=============================================================================
