--------------------------- MODULE CollateralVault ---------------------------
(***************************************************************************)
(* CollateralVault.sol and CollateralHolderVault.sol: the vaults that hold *)
(* the collateral, their lists of supported collateral, their valuation at *)
(* oracle prices, and the exchange of one collateral for another.  The     *)
(* oracle is external: its prices move at any time, within PriceChoices.   *)
(***************************************************************************)
EXTENDS Ledger

CONSTANTS
  PriceChoices,      \* [Tokens -> SUBSET Nat]: the prices the oracle may report
  InitialPrice,      \* [Tokens -> Nat]
  InitialSupported,  \* [Vaults -> SUBSET Assets]
  Listable,          \* the assets the collateral manager may allow or disallow
  Strategists,       \* accounts holding COLLATERAL_STRATEGY_ROLE
  InitialVault,      \* the vault every contract is deployed with
  SlippageBounds,    \* the minimum (or maximum) amounts callers ask for
  PauseChoices       \* the settings the pausers may choose

ASSUME VaultAssumption ==
  /\ PriceChoices \in [Tokens -> SUBSET Nat]
  /\ InitialPrice \in [Tokens -> Nat]
  /\ InitialSupported \in [Vaults -> SUBSET Assets]
  /\ Listable \subseteq Assets
  /\ Strategists \subseteq Accounts
  /\ InitialVault \in Vaults
  /\ SlippageBounds \subseteq Nat
  /\ PauseChoices \subseteq BOOLEAN

VARIABLES
  price,       \* what oracle.getAssetPrice returns
  supported    \* supported[v] = v's _supportedCollaterals

vaultVars == <<price, supported>>

VaultTypeOK ==
  /\ price \in [Tokens -> Nat]
  /\ supported \in [Vaults -> SUBSET Assets]

VaultInit == price = InitialPrice /\ supported = InitialSupported

-----------------------------------------------------------------------------
AssetValueFromAmount(amount, asset) == ValueOf(amount, price[asset], Unit[asset])

(* Reverts on a zero price: the callers below require price[asset] > 0.    *)
AssetAmountFromValue(value, asset) == AmountOf(value, price[asset], Unit[asset])

TotalValueIn(b, v) ==
  SumFunctionOnSet([a \in Assets |-> AssetValueFromAmount(b[a][v], a)], supported[v])

TotalValue(v) == TotalValueIn(bal, v)

(* withdraw and withdrawTo: no check that the asset is supported.  Only    *)
(* the redeemer and the AMO manager hold COLLATERAL_WITHDRAWER_ROLE.       *)
CanWithdraw(b, v, to, n, asset) == CanTransfer(b, asset, v, to, n)
Withdraw(b, v, to, n, asset) == Move(b, asset, v, to, n)

-----------------------------------------------------------------------------
(* deposit, by anyone.                                                     *)
Deposit(v, caller, n, asset) ==
  /\ asset \in supported[v]
  /\ CanTransferFrom(bal, asset, v, caller, v, n)
  /\ bal' = Move(bal, asset, caller, v, n)
  /\ UNCHANGED <<supply, allowlisted, vaultVars>>

MaxExchangeAmount(n, from, to) == AssetAmountFromValue(AssetValueFromAmount(n, from), to)

(* The list is consulted for the collateral that LEAVES the vault.         *)
ExchangeCollateral(v, caller, fromAmount, from, toAmount, to) ==
  /\ to \in supported[v]
  /\ price[to] > 0
  /\ toAmount <= MaxExchangeAmount(fromAmount, from, to)
  /\ CanTransferFrom(bal, from, v, caller, v, fromAmount)
  /\ LET b1 == Move(bal, from, caller, v, fromAmount) IN
       /\ CanTransfer(b1, to, v, caller, toAmount)
       /\ bal' = Move(b1, to, v, caller, toAmount)
  /\ UNCHANGED <<supply, allowlisted, vaultVars>>

ExchangeMaxCollateral(v, caller, fromAmount, from, to, toMin) ==
  /\ price[to] > 0
  /\ LET toAmount == MaxExchangeAmount(fromAmount, from, to) IN
       /\ toAmount >= toMin
       /\ ExchangeCollateral(v, caller, fromAmount, from, toAmount, to)

AllowCollateral(v, asset) ==
  /\ asset \notin supported[v]
  /\ price[asset] # 0
  /\ supported' = [supported EXCEPT ![v] = @ \cup {asset}]
  /\ UNCHANGED <<ledgerVars, price>>

DisallowCollateral(v, asset) ==
  /\ asset \in supported[v]
  /\ Cardinality(supported[v]) > 1
  /\ supported' = [supported EXCEPT ![v] = @ \ {asset}]
  /\ UNCHANGED <<ledgerVars, price>>

(* The oracle reports a new price.                                         *)
SetPrice(t, p) ==
  /\ price' = [price EXCEPT ![t] = p]
  /\ UNCHANGED <<ledgerVars, supported>>

-----------------------------------------------------------------------------
VaultNext ==
  \/ \E v \in Vaults, caller \in Accounts, n \in Amounts, asset \in Assets :
       Deposit(v, caller, n, asset)
  \/ \E v \in Vaults, caller \in Strategists, n, m \in Amounts, from, to \in Assets :
       ExchangeCollateral(v, caller, n, from, m, to)
  \/ \E v \in Vaults, caller \in Strategists, n \in Amounts, min \in SlippageBounds,
        from, to \in Assets :
       ExchangeMaxCollateral(v, caller, n, from, to, min)
  \/ \E v \in Vaults, asset \in Listable : AllowCollateral(v, asset)
  \/ \E v \in Vaults, asset \in Listable : DisallowCollateral(v, asset)
  \/ \E t \in Tokens : \E p \in PriceChoices[t] : SetPrice(t, p)
=============================================================================
