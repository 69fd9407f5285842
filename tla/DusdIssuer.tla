----------------------------- MODULE DusdIssuer -----------------------------
(***************************************************************************)
(* IssuerV2_2.sol: mints dUSD against deposited collateral, or against     *)
(* collateral the vault holds in excess, and never beyond what the vault's *)
(* collateral is worth at that moment.                                     *)
(***************************************************************************)
EXTENDS CollateralVault

CONSTANTS
  CapChoices,      \* the deposit caps the admin may choose
  MaxDusdSupply    \* bound on the dUSD supply explored

ASSUME IssuerAssumption ==
  /\ CapChoices \subseteq Nat
  /\ MaxDusdSupply \in Nat

VARIABLES
  issuerVault,         \* collateralVault
  mintingPaused,       \* Pausable._paused
  assetMintingPaused,  \* the assets whose minting is paused
  assetDepositCap      \* [Assets -> Nat], 0 for no cap

issuerVars == <<issuerVault, mintingPaused, assetMintingPaused, assetDepositCap>>

IssuerTypeOK ==
  /\ issuerVault \in Vaults
  /\ mintingPaused \in BOOLEAN
  /\ assetMintingPaused \subseteq Assets
  /\ assetDepositCap \in [Assets -> Nat]

IssuerInit ==
  /\ issuerVault = InitialVault
  /\ mintingPaused = FALSE
  /\ assetMintingPaused = {}
  /\ assetDepositCap = [a \in Assets |-> 0]

-----------------------------------------------------------------------------
CollateralInDusd(b, v) == BaseValueToDusdAmount(TotalValueIn(b, v))

(* Mutant: the pause of the asset is forgotten.                            *)
IsAssetListed(asset) == asset \in supported[issuerVault]

IsAssetMintingEnabled(asset) ==
  asset \in supported[issuerVault] /\ asset \notin assetMintingPaused

WithinCap(asset, n) ==
  assetDepositCap[asset] > 0 => bal[asset][issuerVault] + n <= assetDepositCap[asset]

-----------------------------------------------------------------------------
(* The cover is read after the collateral has reached the vault and before *)
(* the dUSD is minted.                                                     *)
Issue(caller, n, asset, minDusd) ==
  LET dusdAmount == BaseValueToDusdAmount(AssetValueFromAmount(n, asset))
      b1 == Move(bal, asset, caller, issuerVault, n)
  IN /\ ~mintingPaused
     /\ IsAssetMintingEnabled(asset)
     /\ WithinCap(asset, n)
     /\ dusdAmount >= minDusd
     /\ CanTransferFrom(bal, asset, Issuer, caller, issuerVault, n)
     /\ supply[Dusd] + dusdAmount <= CollateralInDusd(b1, issuerVault)
     /\ supply[Dusd] + dusdAmount <= MaxDusdSupply
     /\ bal' = Credit(b1, Dusd, caller, dusdAmount)
     /\ supply' = [supply EXCEPT ![Dusd] = @ + dusdAmount]
     /\ UNCHANGED <<allowlisted, vaultVars, issuerVars>>

(* Mutant: the cover is compared with the supply before the mint.          *)
IssueExcessCheckedBefore(receiver, dusdAmount) ==
  /\ ~mintingPaused
  /\ supply[Dusd] + dusdAmount <= MaxDusdSupply
  /\ supply[Dusd] <= CollateralInDusd(bal, issuerVault)
  /\ bal' = Credit(bal, Dusd, receiver, dusdAmount)
  /\ supply' = [supply EXCEPT ![Dusd] = @ + dusdAmount]
  /\ UNCHANGED <<allowlisted, vaultVars, issuerVars>>

IssueUsingExcessCollateral(receiver, dusdAmount) ==
  /\ ~mintingPaused
  /\ supply[Dusd] + dusdAmount <= MaxDusdSupply
  /\ bal' = Credit(bal, Dusd, receiver, dusdAmount)
  /\ supply' = [supply EXCEPT ![Dusd] = @ + dusdAmount]
  /\ supply'[Dusd] <= CollateralInDusd(bal', issuerVault)
  /\ UNCHANGED <<allowlisted, vaultVars, issuerVars>>

-----------------------------------------------------------------------------
SetIssuerVault(v) ==
  /\ issuerVault' = v
  /\ UNCHANGED <<ledgerVars, vaultVars, mintingPaused, assetMintingPaused, assetDepositCap>>

SetAssetMintingPause(asset, paused) ==
  /\ asset \in supported[issuerVault]
  /\ assetMintingPaused' = IF paused THEN assetMintingPaused \cup {asset}
                                     ELSE assetMintingPaused \ {asset}
  /\ UNCHANGED <<ledgerVars, vaultVars, issuerVault, mintingPaused, assetDepositCap>>

SetAssetDepositCap(asset, cap) ==
  /\ asset \in supported[issuerVault]
  /\ assetDepositCap' = [assetDepositCap EXCEPT ![asset] = cap]
  /\ UNCHANGED <<ledgerVars, vaultVars, issuerVault, mintingPaused, assetMintingPaused>>

(* pauseMinting and unpauseMinting: pausing twice reverts.                 *)
SetMintingPaused(paused) ==
  /\ mintingPaused # paused
  /\ mintingPaused' = paused
  /\ UNCHANGED <<ledgerVars, vaultVars, issuerVault, assetMintingPaused, assetDepositCap>>

-----------------------------------------------------------------------------
IssuerNext ==
  \/ \E caller \in Accounts, n \in Amounts, asset \in Assets, min \in SlippageBounds :
       Issue(caller, n, asset, min)
  \/ \E receiver \in Accounts, n \in Amounts : IssueUsingExcessCollateral(receiver, n)
  \/ \E v \in Vaults : SetIssuerVault(v)
  \/ \E asset \in Assets, paused \in PauseChoices : SetAssetMintingPause(asset, paused)
  \/ \E asset \in Assets, cap \in CapChoices : SetAssetDepositCap(asset, cap)
  \/ \E paused \in PauseChoices : SetMintingPaused(paused)
=============================================================================
