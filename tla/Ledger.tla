------------------------------- MODULE Ledger -------------------------------
(***************************************************************************)
(* The token balances the dUSD contracts act on: the collateral tokens,    *)
(* dUSD, and the AMO debt token with its allowlist (AmoDebtToken.sol).     *)
(*                                                                         *)
(* A transaction moves several tokens in sequence, so the operators here   *)
(* map books of balances to books of balances; the handlers of the other   *)
(* modules chain them and give the last one to bal'.                       *)
(***************************************************************************)
EXTENDS FixedPoint, FiniteSets, Functions

CONSTANTS
  Collaterals,   \* ordinary collateral tokens
  Dusd,          \* the stablecoin
  DebtToken,     \* the AMO debt token
  Accounts,      \* users, AMO wallets, fee receivers
  Vaults,        \* collateral vaults
  Issuer, Redeemer, Manager,   \* the contracts that move tokens for others
  Unit,          \* Unit[t] = 10 ** decimals of t
  BaseUnit,      \* the oracle's base currency unit
  MayBeAllowlisted,   \* the holders governance may put on the debt token's allowlist
  InitialAllowlist,
  InitialBalance,     \* [Collaterals -> [Accounts -> Nat]]
  Amounts        \* the token amounts a caller may ask for

Assets == Collaterals \cup {DebtToken}
Tokens == Assets \cup {Dusd}
Contracts == {Issuer, Redeemer, Manager}
Holders == Accounts \cup Vaults \cup Contracts

(* Names stand for distinct things.  Governance allowlists the vaults and  *)
(* the AMO manager and nobody else (deploy/23_dusd_upgrade_v2_2).          *)
ASSUME NamesAssumption ==
  /\ Dusd \notin Assets /\ DebtToken \notin Collaterals
  /\ Accounts \cap Vaults = {} /\ Contracts \cap (Accounts \cup Vaults) = {}
  /\ Cardinality(Contracts) = 3 /\ Issuer # Redeemer /\ Redeemer # Manager /\ Issuer # Manager
  /\ IsFiniteSet(Collaterals) /\ IsFiniteSet(Accounts) /\ IsFiniteSet(Vaults)
  /\ MayBeAllowlisted \subseteq Vaults \cup {Manager}
  /\ InitialAllowlist \subseteq Vaults \cup {Manager}
ASSUME NumbersAssumption ==
  /\ Unit \in [Tokens -> Nat \ {0}] /\ BaseUnit \in Nat \ {0}
  /\ InitialBalance \in [Collaterals -> [Accounts -> Nat]]
  /\ Amounts \subseteq Nat

VARIABLES
  bal,          \* [Tokens -> [Holders -> Nat]]
  supply,       \* [Tokens -> Nat], totalSupply()
  allowlisted   \* AmoDebtToken._allowlist

ledgerVars == <<bal, supply, allowlisted>>

LedgerTypeOK ==
  /\ bal \in [Tokens -> [Holders -> Nat]]
  /\ supply \in [Tokens -> Nat]
  /\ allowlisted \subseteq Vaults \cup {Manager}

LedgerInit ==
  /\ bal = [t \in Tokens |-> [h \in Holders |->
              IF t \in Collaterals /\ h \in Accounts THEN InitialBalance[t][h] ELSE 0]]
  /\ supply = [t \in Tokens |->
                 IF t \in Collaterals THEN SumFunctionOnSet(InitialBalance[t], Accounts) ELSE 0]
  /\ allowlisted = InitialAllowlist

-----------------------------------------------------------------------------
(* The conversions of the issuer, the redeemer and the AMO manager between *)
(* dUSD, the base currency and debt tokens.                                *)
BaseValueToDusdAmount(value) == MulDiv(value, Unit[Dusd], BaseUnit)
DusdAmountToBaseValue(n) == MulDiv(n, BaseUnit, Unit[Dusd])
BaseToDebtUnits(value) == MulDiv(value, Unit[DebtToken], BaseUnit)

-----------------------------------------------------------------------------
Credit(b, t, h, n) == [b EXCEPT ![t][h] = @ + n]
Debit(b, t, h, n)  == [b EXCEPT ![t][h] = @ - n]

(* Mutant: one allowlisted end is enough.                                  *)
UpdateAllowedOneEnd(t, ends) == t = DebtToken => ends \cap allowlisted # {}

(* AmoDebtToken._update: both ends of a debt token movement must be on the *)
(* allowlist; a mint has no sender and a burn no recipient.                *)
UpdateAllowed(t, ends) == t = DebtToken => ends \subseteq allowlisted

Move(b, t, from, to, n) == Credit(Debit(b, t, from, n), t, to, n)

(* Mutant: the balance is not checked.                                     *)
CanTransferUnchecked(b, t, from, to, n) == UpdateAllowed(t, {from, to})

(* transfer, by the holder itself.                                         *)
CanTransfer(b, t, from, to, n) == b[t][from] >= n /\ UpdateAllowed(t, {from, to})

(* transferFrom: for the debt token the spender must be allowlisted too.   *)
CanTransferFrom(b, t, spender, from, to, n) ==
  b[t][from] >= n /\ UpdateAllowed(t, {spender, from, to})

CanBurn(b, t, from, n) == b[t][from] >= n /\ UpdateAllowed(t, {from})

-----------------------------------------------------------------------------
(* AmoDebtToken.setAllowlisted, by governance.                             *)
SetAllowlisted(account, allowed) ==
  /\ allowlisted' = IF allowed THEN allowlisted \cup {account} ELSE allowlisted \ {account}
  /\ UNCHANGED <<bal, supply>>

(* A holder sends tokens to another account, outside the protocol.         *)
HolderTransfer(t, from, to, n) ==
  /\ CanTransfer(bal, t, from, to, n)
  /\ bal' = Move(bal, t, from, to, n)
  /\ UNCHANGED <<supply, allowlisted>>

(* ERC20Burnable.burn: dUSD holders may burn what they hold.               *)
HolderBurn(holder, n) ==
  /\ CanBurn(bal, Dusd, holder, n)
  /\ bal' = Debit(bal, Dusd, holder, n)
  /\ supply' = [supply EXCEPT ![Dusd] = @ - n]
  /\ UNCHANGED allowlisted

LedgerNext ==
  \/ \E account \in MayBeAllowlisted, allowed \in BOOLEAN : SetAllowlisted(account, allowed)
  \/ \E t \in Tokens, from, to \in Accounts, n \in Amounts : HolderTransfer(t, from, to, n)
  \/ \E holder \in Accounts, n \in Amounts : HolderBurn(holder, n)
=============================================================================
