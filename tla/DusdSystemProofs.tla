-------------------------- MODULE DusdSystemProofs --------------------------
(***************************************************************************)
(* DusdSystem keeps its types, conserves every token and lets nothing rest *)
(* where it should not, for all tokens, units, prices, accounts, vaults    *)
(* and settings.  None of the three is inductive alone: a burn keeps the   *)
(* supply a natural number only because the balances add up to it, and a   *)
(* contract can burn what it has just taken in only because it held        *)
(* nothing before.  IInv is their conjunction.                             *)
(***************************************************************************)
EXTENDS DusdSystem, LedgerProofs, FixedPointTheorems

SettingsTypeOK == VaultTypeOK /\ IssuerTypeOK /\ RedeemerTypeOK /\ AmoTypeOK

IInv ==
  /\ Sound(bal, supply)
  /\ allowlisted \subseteq Vaults \cup {Manager}
  /\ SettingsTypeOK

-----------------------------------------------------------------------------
(* The oracle conversions return natural numbers.                          *)
LEMMA ValueNat ==
  ASSUME VaultTypeOK, NEW n \in Nat, NEW a \in Tokens
  PROVE  AssetValueFromAmount(n, a) \in Nat
<1>1. price[a] \in Nat /\ Unit[a] \in Nat \ {0}
  BY NumbersAssumption DEF VaultTypeOK
<1> QED BY <1>1, MulDivNat DEF AssetValueFromAmount, ValueOf

LEMMA AmountNat ==
  ASSUME VaultTypeOK, NEW n \in Nat, NEW a \in Tokens, price[a] > 0
  PROVE  AssetAmountFromValue(n, a) \in Nat
<1>1. price[a] \in Nat \ {0} /\ Unit[a] \in Nat
  BY NumbersAssumption DEF VaultTypeOK
<1> QED BY <1>1, MulDivNat DEF AssetAmountFromValue, AmountOf

(* What the AMO manager mints or burns is a natural number of debt tokens. *)
LEMMA DebtNat ==
  ASSUME VaultTypeOK, NEW n \in Nat
  PROVE  /\ DebtForDusd(n) \in Nat
         /\ \A a \in Tokens : DebtForAsset(n, a) \in Nat
BY ValueNat, ConversionsNat DEF DebtForDusd, DebtForAsset

(* A redemption fee never exceeds what is redeemed.                        *)
LEMMA FeeBounded ==
  ASSUME RedeemerTypeOK, NEW n \in Nat, NEW a \in Assets
  PROVE  FeeOn(n, a) \in Nat /\ FeeOn(n, a) <= n
<1> DEFINE f == CurrentFeeBps(a)
           d == OneHundredPercentBps
<1>1. f \in Nat /\ d \in Nat \ {0} /\ f <= d
  BY RedeemerAssumption DEF RedeemerTypeOK, CurrentFeeBps
<1>2. FeeOn(n, a) = (n * f) \div d
  BY DEF FeeOn, MulDiv
<1> HIDE DEF f, d
<1>3. n * f <= n * d /\ n * f \in Nat
  BY <1>1
<1> QED BY <1>1, <1>2, <1>3, DivAtMost

-----------------------------------------------------------------------------
(* The initial state.                                                      *)
LEMMA InitIInv == Init => IInv
<1> SUFFICES ASSUME Init PROVE IInv
  OBVIOUS
<1> USE DEF Init
<1>1. bal \in Books
  BY NumbersAssumption DEF LedgerInit, Books
<1>2. \A t \in Collaterals : SumFunctionOnSet(InitialBalance[t], Accounts) \in Nat
  BY NumbersAssumption, NamesAssumption, SumNat
<1>3. supply \in Supplies
  BY <1>2 DEF LedgerInit, Supplies
<1>4. ASSUME NEW t \in Tokens PROVE SumFunctionOnSet(bal[t], Holders) = supply[t]
  <2> DEFINE H == Holders
             A == Accounts
             f == bal[t]
  <2>1. IsFiniteSet(H) /\ A \subseteq H /\ \A x \in H : f[x] \in Nat
    BY <1>1, HoldersFinite DEF Holders, Books
  <2>2. \A x \in H \ A : f[x] = 0
    BY DEF LedgerInit
  <2> HIDE DEF H, A, f
  <2>3. SumFunctionOnSet(f, H) = SumFunctionOnSet(f, A)
    BY <2>1, <2>2, SumSupport
  <2>4. IsFiniteSet(A)
    BY NamesAssumption DEF A
  <2>5. CASE t \in Collaterals
    <3> DEFINE g == InitialBalance[t]
    <3>1. \A x \in A : f[x] = g[x]
      BY <2>1, <2>5 DEF LedgerInit, A, f, H
    <3>2. supply[t] = SumFunctionOnSet(g, A)
      BY <2>5 DEF LedgerInit, A
    <3> HIDE DEF g
    <3>3. SumFunctionOnSet(f, A) = SumFunctionOnSet(g, A)
      BY <3>1, <2>4, SumEqual
    <3> QED BY <2>3, <3>2, <3>3 DEF f, H
  <2>6. CASE t \notin Collaterals
    <3>1. \A x \in A : f[x] = 0
      BY <2>1, <2>6 DEF LedgerInit, f, H
    <3>2. SumFunctionOnSet(f, A) = 0
      BY <3>1, <2>4, SumZero
    <3> QED BY <2>3, <2>6, <3>2 DEF LedgerInit, f, H
  <2> QED BY <2>5, <2>6
<1>5. Settled(bal)
  BY NamesAssumption, NamesPlaced DEF LedgerInit, Settled
<1>6. Sound(bal, supply)
  BY <1>1, <1>3, <1>4, <1>5 DEF Sound, Balanced
<1>7. SettingsTypeOK
  <2>1. VaultTypeOK
    BY VaultAssumption DEF VaultInit, VaultTypeOK
  <2>2. IssuerTypeOK
    BY VaultAssumption DEF IssuerInit, IssuerTypeOK
  <2>3. RedeemerTypeOK
    <3>1. 0 \in 0 .. MaxFeeBps
      BY RedeemerAssumption
    <3> QED BY <3>1, VaultAssumption, RedeemerAssumption DEF RedeemerInit, RedeemerTypeOK
  <2>4. AmoTypeOK
    BY VaultAssumption, AmoAssumption DEF AmoInit, AmoTypeOK
  <2> QED BY <2>1, <2>2, <2>3, <2>4 DEF SettingsTypeOK
<1> QED BY <1>6, <1>7, NamesAssumption DEF IInv, LedgerInit

-----------------------------------------------------------------------------
(* A transfer that the guards admit keeps the books sound.                 *)
LEMMA TransferSound ==
  ASSUME allowlisted \subseteq Vaults \cup {Manager}, NEW b, NEW s, Sound(b, s),
         NEW t \in Tokens, NEW from \in Parties, NEW to \in Parties, NEW n \in Nat,
         \/ CanTransfer(b, t, from, to, n)
         \/ \E spender : CanTransferFrom(b, t, spender, from, to, n)
  PROVE  Sound(Move(b, t, from, to, n), s)
<1>1. b[t][from] >= n
  BY DEF CanTransfer, CanTransferFrom
<1>2. t = DebtToken => to \in Vaults
  BY AllowedEnds DEF CanTransfer, CanTransferFrom
<1> QED BY <1>1, <1>2, MoveSound

(* Transfers between accounts, and the debt token's allowlist.             *)
LEMMA LedgerStep ==
  ASSUME IInv, LedgerNext, UNCHANGED <<vaultVars, issuerVars, redeemerVars, amoVars>>
  PROVE  IInv'
<1>1. SettingsTypeOK'
  BY DEF IInv, SettingsTypeOK, VaultTypeOK, IssuerTypeOK, RedeemerTypeOK, AmoTypeOK,
         vaultVars, issuerVars, redeemerVars, feeVars, amoVars
<1>2. ASSUME NEW account \in MayBeAllowlisted, NEW allowed \in BOOLEAN,
             SetAllowlisted(account, allowed)
      PROVE  IInv'
  <2>1. Sound(bal, supply)'
    BY <1>2 DEF IInv, SetAllowlisted, Sound, Balanced, Settled
  <2>2. allowlisted' \subseteq Vaults \cup {Manager}
    BY <1>2, NamesAssumption DEF IInv, SetAllowlisted
  <2> QED BY <1>1, <2>1, <2>2 DEF IInv
<1>3. ASSUME NEW t \in Tokens, NEW from \in Accounts, NEW to \in Accounts, NEW n \in Amounts,
             HolderTransfer(t, from, to, n)
      PROVE  IInv'
  <2>1. n \in Nat /\ from \in Parties /\ to \in Parties
    BY NumbersAssumption DEF Parties
  <2>2. Sound(Move(bal, t, from, to, n), supply)
    BY <1>3, <2>1, TransferSound DEF IInv, HolderTransfer
  <2>3. Sound(bal', supply')
    BY <1>3, <2>2 DEF HolderTransfer
  <2> QED BY <1>1, <1>3, <2>3 DEF IInv, HolderTransfer
<1>4. ASSUME NEW holder \in Accounts, NEW n \in Amounts, HolderBurn(holder, n)
      PROVE  IInv'
  <2>1. n \in Nat /\ holder \in Parties /\ Dusd \in Tokens
    BY NumbersAssumption, NamesPlaced
  <2>2. Sound(Debit(bal, Dusd, holder, n), [supply EXCEPT ![Dusd] = @ - n])
    BY <1>4, <2>1, BurnSound DEF IInv, HolderBurn, CanBurn
  <2>3. Sound(bal', supply')
    BY <1>4, <2>2 DEF HolderBurn
  <2> QED BY <1>1, <1>4, <2>3 DEF IInv, HolderBurn
<1> QED BY <1>2, <1>3, <1>4 DEF LedgerNext

-----------------------------------------------------------------------------
(* The exchange of collateral: in, then out.                               *)
LEMMA ExchangeSound ==
  ASSUME IInv, NEW v \in Vaults, NEW caller \in Accounts, NEW n \in Nat, NEW m \in Nat,
         NEW from \in Assets, NEW to \in Assets,
         ExchangeCollateral(v, caller, n, from, m, to)
  PROVE  Sound(bal', supply')
<1> DEFINE b1 == Move(bal, from, caller, v, n)
<1>1. caller \in Parties /\ v \in Parties /\ from \in Tokens /\ to \in Tokens
  BY NamesPlaced
<1>2. Sound(b1, supply)
  BY <1>1, TransferSound DEF IInv, ExchangeCollateral
<1>3. CanTransfer(b1, to, v, caller, m)
  BY DEF ExchangeCollateral
<1>4. Sound(Move(b1, to, v, caller, m), supply)
  BY <1>1, <1>2, <1>3, TransferSound DEF IInv
<1> QED BY <1>4 DEF ExchangeCollateral

(* Deposits, exchanges, listings and prices.                               *)
LEMMA VaultStep ==
  ASSUME IInv, VaultNext, UNCHANGED <<issuerVars, redeemerVars, amoVars>>
  PROVE  IInv'
<1>1. IssuerTypeOK' /\ RedeemerTypeOK' /\ AmoTypeOK'
  BY DEF IInv, SettingsTypeOK, IssuerTypeOK, RedeemerTypeOK, AmoTypeOK,
         issuerVars, redeemerVars, feeVars, amoVars
<1>2. ASSUME Sound(bal', supply'), UNCHANGED <<allowlisted, vaultVars>>
      PROVE  IInv'
  BY <1>1, <1>2 DEF IInv, SettingsTypeOK, VaultTypeOK, vaultVars
<1>3. ASSUME UNCHANGED ledgerVars, VaultTypeOK'
      PROVE  IInv'
  BY <1>1, <1>3 DEF IInv, SettingsTypeOK, ledgerVars, Sound, Balanced, Settled
<1>4. ASSUME NEW v \in Vaults, NEW caller \in Accounts, NEW n \in Amounts, NEW asset \in Assets,
             Deposit(v, caller, n, asset)
      PROVE  IInv'
  <2>1. n \in Nat /\ caller \in Parties /\ v \in Parties /\ asset \in Tokens
    BY NumbersAssumption, NamesPlaced
  <2>2. Sound(Move(bal, asset, caller, v, n), supply)
    BY <1>4, <2>1, TransferSound DEF IInv, Deposit
  <2> QED BY <1>2, <1>4, <2>2 DEF Deposit
<1>5. ASSUME NEW v \in Vaults, NEW caller \in Strategists, NEW n \in Amounts, NEW m \in Amounts,
             NEW from \in Assets, NEW to \in Assets,
             ExchangeCollateral(v, caller, n, from, m, to)
      PROVE  IInv'
  <2>1. n \in Nat /\ m \in Nat /\ caller \in Accounts
    BY NumbersAssumption, VaultAssumption
  <2>2. Sound(bal', supply')
    BY <1>5, <2>1, ExchangeSound
  <2> QED BY <1>2, <1>5, <2>2 DEF ExchangeCollateral
<1>6. ASSUME NEW v \in Vaults, NEW caller \in Strategists, NEW n \in Amounts,
             NEW min \in SlippageBounds, NEW from \in Assets, NEW to \in Assets,
             ExchangeMaxCollateral(v, caller, n, from, to, min)
      PROVE  IInv'
  <2> DEFINE m == MaxExchangeAmount(n, from, to)
  <2>1. n \in Nat /\ caller \in Accounts /\ from \in Tokens /\ to \in Tokens
    BY NumbersAssumption, VaultAssumption, NamesPlaced
  <2>2. price[to] > 0 /\ ExchangeCollateral(v, caller, n, from, m, to)
    BY <1>6 DEF ExchangeMaxCollateral
  <2>3. m \in Nat
    BY <2>1, <2>2, ValueNat, AmountNat DEF MaxExchangeAmount, IInv, SettingsTypeOK
  <2> HIDE DEF m
  <2>4. Sound(bal', supply')
    BY <2>1, <2>2, <2>3, ExchangeSound
  <2> QED BY <1>2, <2>2, <2>4 DEF ExchangeCollateral
<1>7. ASSUME NEW v \in Vaults, NEW asset \in Listable,
             AllowCollateral(v, asset) \/ DisallowCollateral(v, asset)
      PROVE  IInv'
  <2>1. asset \in Assets
    BY VaultAssumption
  <2>2. VaultTypeOK'
    BY <1>7, <2>1 DEF AllowCollateral, DisallowCollateral, VaultTypeOK, IInv, SettingsTypeOK
  <2> QED BY <1>3, <1>7, <2>2 DEF AllowCollateral, DisallowCollateral
<1>8. ASSUME NEW t \in Tokens, NEW p \in PriceChoices[t], SetPrice(t, p)
      PROVE  IInv'
  <2>1. p \in Nat
    BY VaultAssumption
  <2>2. VaultTypeOK'
    BY <1>8, <2>1 DEF SetPrice, VaultTypeOK, IInv, SettingsTypeOK
  <2> QED BY <1>3, <1>8, <2>2 DEF SetPrice
<1> QED BY <1>4, <1>5, <1>6, <1>7, <1>8 DEF VaultNext

-----------------------------------------------------------------------------
(* Issuing: collateral in, dUSD minted.                                    *)
LEMMA IssuerStep ==
  ASSUME IInv, IssuerNext, UNCHANGED <<redeemerVars, amoVars>>
  PROVE  IInv'
<1>1. RedeemerTypeOK' /\ AmoTypeOK'
  BY DEF IInv, SettingsTypeOK, RedeemerTypeOK, AmoTypeOK, redeemerVars, feeVars, amoVars
<1>2. ASSUME Sound(bal', supply'), UNCHANGED <<allowlisted, vaultVars, issuerVars>>
      PROVE  IInv'
  BY <1>1, <1>2 DEF IInv, SettingsTypeOK, VaultTypeOK, vaultVars, IssuerTypeOK, issuerVars
<1>3. ASSUME UNCHANGED <<ledgerVars, vaultVars>>, IssuerTypeOK'
      PROVE  IInv'
  BY <1>1, <1>3 DEF IInv, SettingsTypeOK, VaultTypeOK, ledgerVars, vaultVars,
                    Sound, Balanced, Settled
<1>4. issuerVault \in Vaults /\ issuerVault \in Parties
  BY NamesPlaced DEF IInv, SettingsTypeOK, IssuerTypeOK
<1>5. ASSUME NEW caller \in Accounts, NEW n \in Amounts, NEW asset \in Assets,
             NEW min \in SlippageBounds, Issue(caller, n, asset, min)
      PROVE  IInv'
  <2> DEFINE dusdAmount == BaseValueToDusdAmount(AssetValueFromAmount(n, asset))
             b1 == Move(bal, asset, caller, issuerVault, n)
  <2>1. n \in Nat /\ caller \in Parties /\ asset \in Tokens
        /\ Dusd \in Tokens /\ Dusd # DebtToken
    BY NumbersAssumption, NamesPlaced
  <2>2. dusdAmount \in Nat
    BY <2>1, ValueNat, ConversionsNat DEF IInv, SettingsTypeOK
  <2>3. Sound(b1, supply)
    BY <1>4, <1>5, <2>1, TransferSound DEF IInv, Issue
  <2> HIDE DEF b1, dusdAmount
  <2>4. Sound(Credit(b1, Dusd, caller, dusdAmount), [supply EXCEPT ![Dusd] = @ + dusdAmount])
    BY <2>1, <2>2, <2>3, MintSound
  <2> QED BY <1>2, <1>5, <2>4 DEF Issue, b1, dusdAmount
<1>6. ASSUME NEW receiver \in Accounts, NEW n \in Amounts,
             IssueUsingExcessCollateral(receiver, n)
      PROVE  IInv'
  <2>1. n \in Nat /\ receiver \in Parties /\ Dusd \in Tokens /\ Dusd # DebtToken
    BY NumbersAssumption, NamesPlaced
  <2>2. Sound(Credit(bal, Dusd, receiver, n), [supply EXCEPT ![Dusd] = @ + n])
    BY <2>1, MintSound DEF IInv
  <2> QED BY <1>2, <1>6, <2>2 DEF IssueUsingExcessCollateral
<1>7. ASSUME NEW v \in Vaults, SetIssuerVault(v)
      PROVE  IInv'
  <2>1. IssuerTypeOK'
    BY <1>7 DEF SetIssuerVault, IInv, SettingsTypeOK, IssuerTypeOK
  <2> QED BY <1>3, <1>7, <2>1 DEF SetIssuerVault
<1>8. ASSUME NEW asset \in Assets, NEW paused \in PauseChoices,
             SetAssetMintingPause(asset, paused)
      PROVE  IInv'
  <2>1. IssuerTypeOK'
    BY <1>8 DEF SetAssetMintingPause, IInv, SettingsTypeOK, IssuerTypeOK
  <2> QED BY <1>3, <1>8, <2>1 DEF SetAssetMintingPause
<1>9. ASSUME NEW asset \in Assets, NEW cap \in CapChoices, SetAssetDepositCap(asset, cap)
      PROVE  IInv'
  <2>1. IssuerTypeOK'
    BY <1>9, IssuerAssumption DEF SetAssetDepositCap, IInv, SettingsTypeOK, IssuerTypeOK
  <2> QED BY <1>3, <1>9, <2>1 DEF SetAssetDepositCap
<1>10. ASSUME NEW paused \in PauseChoices, SetMintingPaused(paused)
       PROVE  IInv'
  <2>1. IssuerTypeOK'
    BY <1>10, VaultAssumption DEF SetMintingPaused, IInv, SettingsTypeOK, IssuerTypeOK
  <2> QED BY <1>3, <1>10, <2>1 DEF SetMintingPaused
<1> QED BY <1>5, <1>6, <1>7, <1>8, <1>9, <1>10 DEF IssuerNext

-----------------------------------------------------------------------------
(* A payout of the redeemer: the caller's dUSD is burned, collateral sent. *)
LEMMA PayOutSound ==
  ASSUME IInv, NEW caller \in Accounts, NEW n \in Nat, NEW asset \in Assets, NEW m \in Nat,
         CanPayOut(caller, n, asset, m)
  PROVE  Sound(PayOut(caller, n, asset, m), [supply EXCEPT ![Dusd] = @ - n])
<1> DEFINE b1 == Debit(bal, Dusd, caller, n)
           s1 == [supply EXCEPT ![Dusd] = @ - n]
<1>1. /\ caller \in Parties /\ caller \in Holders /\ asset \in Tokens
      /\ Redeemer \in Holders /\ caller # Redeemer /\ Dusd \in Tokens
      /\ redeemerVault \in Parties
  BY NamesPlaced DEF IInv, SettingsTypeOK, RedeemerTypeOK
<1>2. bal \in Books /\ bal[Dusd][caller] >= n
  BY DEF IInv, Sound, Balanced, CanPayOut, CanTransferFrom
<1>3. AfterBurn(bal, caller, n) = b1
  BY <1>1, <1>2, PassThrough DEF AfterBurn
<1>4. Sound(b1, s1)
  BY <1>1, <1>2, BurnSound DEF IInv
<1>5. CanTransfer(b1, asset, redeemerVault, caller, m)
  BY <1>3 DEF CanPayOut, CanWithdraw
<1> HIDE DEF b1, s1
<1>6. Sound(Move(b1, asset, redeemerVault, caller, m), s1)
  BY <1>1, <1>4, <1>5, TransferSound DEF IInv
<1> QED BY <1>3, <1>6 DEF PayOut, Withdraw, s1

(* Redeeming: dUSD burned, collateral and fee out.                         *)
LEMMA RedeemerStep ==
  ASSUME IInv, RedeemerNext, UNCHANGED <<issuerVars, amoVars>>
  PROVE  IInv'
<1>1. IssuerTypeOK' /\ AmoTypeOK'
  BY DEF IInv, SettingsTypeOK, IssuerTypeOK, AmoTypeOK, issuerVars, amoVars
<1>2. ASSUME Sound(bal', supply'), UNCHANGED <<allowlisted, vaultVars, redeemerVars>>
      PROVE  IInv'
  BY <1>1, <1>2 DEF IInv, SettingsTypeOK, VaultTypeOK, vaultVars, RedeemerTypeOK,
                    redeemerVars, feeVars
<1>3. ASSUME UNCHANGED <<ledgerVars, vaultVars>>, RedeemerTypeOK'
      PROVE  IInv'
  BY <1>1, <1>3 DEF IInv, SettingsTypeOK, VaultTypeOK, ledgerVars, vaultVars,
                    Sound, Balanced, Settled
<1>4. ASSUME NEW n \in Nat, NEW asset \in Assets, Redeemable(asset)
      PROVE  CollateralFor(n, asset) \in Nat
  <2>1. asset \in Tokens /\ price[asset] > 0
    BY <1>4, NamesPlaced DEF Redeemable
  <2> QED BY <2>1, ConversionsNat, AmountNat DEF CollateralFor, IInv, SettingsTypeOK
<1>5. ASSUME NEW caller \in Accounts, NEW n \in Amounts, NEW asset \in Assets,
             NEW min \in SlippageBounds, Redeem(caller, n, asset, min)
      PROVE  IInv'
  <2> DEFINE total == CollateralFor(n, asset)
             fee == FeeOn(total, asset)
             net == total - fee
             b1 == PayOut(caller, n, asset, net)
             s1 == [supply EXCEPT ![Dusd] = @ - n]
  <2>1. n \in Nat /\ total \in Nat
    BY <1>4, <1>5, NumbersAssumption DEF Redeem
  <2>2. fee \in Nat /\ fee <= total
    BY <2>1, FeeBounded DEF IInv, SettingsTypeOK
  <2>3. net \in Nat
    BY <2>1, <2>2
  <2>4. Sound(b1, s1)
    BY <1>5, <2>1, <2>3, PayOutSound DEF Redeem
  <2>5. feeReceiver \in Parties /\ redeemerVault \in Parties /\ asset \in Tokens
    BY NamesPlaced DEF IInv, SettingsTypeOK, RedeemerTypeOK
  <2>6. supply' = s1 /\ UNCHANGED <<allowlisted, vaultVars, redeemerVars>>
    BY <1>5 DEF Redeem
  <2>7. CASE fee = 0 /\ bal' = b1
    BY <1>2, <2>4, <2>6, <2>7
  <2>8. CASE /\ fee > 0
             /\ CanWithdraw(b1, redeemerVault, feeReceiver, fee, asset)
             /\ bal' = Withdraw(b1, redeemerVault, feeReceiver, fee, asset)
    <3> HIDE DEF b1, s1, fee
    <3>1. Sound(Move(b1, asset, redeemerVault, feeReceiver, fee), s1)
      BY <2>2, <2>4, <2>5, <2>8, TransferSound DEF IInv, CanWithdraw
    <3> QED BY <1>2, <2>6, <2>8, <3>1 DEF Withdraw
  <2> QED BY <1>5, <2>7, <2>8 DEF Redeem
<1>6. ASSUME NEW caller \in RedemptionManagers, NEW n \in Amounts, NEW asset \in Assets,
             NEW min \in SlippageBounds, RedeemAsProtocol(caller, n, asset, min)
      PROVE  IInv'
  <2>1. n \in Nat /\ caller \in Accounts /\ CollateralFor(n, asset) \in Nat
    BY <1>4, <1>6, NumbersAssumption, RedeemerAssumption DEF RedeemAsProtocol
  <2>2. Sound(PayOut(caller, n, asset, CollateralFor(n, asset)), [supply EXCEPT ![Dusd] = @ - n])
    BY <1>6, <2>1, PayOutSound DEF RedeemAsProtocol
  <2> QED BY <1>2, <1>6, <2>2 DEF RedeemAsProtocol
<1>7. ASSUME NEW v \in Vaults, SetRedeemerVault(v)
      PROVE  IInv'
  <2>1. RedeemerTypeOK'
    BY <1>7 DEF SetRedeemerVault, IInv, SettingsTypeOK, RedeemerTypeOK, feeVars
  <2> QED BY <1>3, <1>7, <2>1 DEF SetRedeemerVault
<1>8. ASSUME NEW asset \in Assets, NEW paused \in PauseChoices,
             SetAssetRedemptionPause(asset, paused)
      PROVE  IInv'
  <2>1. RedeemerTypeOK'
    BY <1>8 DEF SetAssetRedemptionPause, IInv, SettingsTypeOK, RedeemerTypeOK, feeVars
  <2> QED BY <1>3, <1>8, <2>1 DEF SetAssetRedemptionPause
<1>9. ASSUME NEW paused \in PauseChoices, SetRedemptionPaused(paused)
      PROVE  IInv'
  <2>1. RedeemerTypeOK'
    BY <1>9, VaultAssumption
       DEF SetRedemptionPaused, IInv, SettingsTypeOK, RedeemerTypeOK, feeVars
  <2> QED BY <1>3, <1>9, <2>1 DEF SetRedemptionPaused
<1>10. ASSUME NEW account \in FeeReceivers, SetFeeReceiver(account)
       PROVE  IInv'
  <2>1. RedeemerTypeOK'
    BY <1>10, RedeemerAssumption DEF SetFeeReceiver, IInv, SettingsTypeOK, RedeemerTypeOK
  <2> QED BY <1>3, <1>10, <2>1 DEF SetFeeReceiver
<1>11. ASSUME NEW bps \in FeeChoices, SetDefaultRedemptionFee(bps)
       PROVE  IInv'
  <2>1. bps \in 0 .. MaxFeeBps
    BY <1>11, RedeemerAssumption DEF SetDefaultRedemptionFee
  <2>2. RedeemerTypeOK'
    BY <1>11, <2>1 DEF SetDefaultRedemptionFee, IInv, SettingsTypeOK, RedeemerTypeOK
  <2> QED BY <1>3, <1>11, <2>2 DEF SetDefaultRedemptionFee
<1>12. ASSUME NEW asset \in Assets, NEW bps \in FeeChoices,
              SetCollateralRedemptionFee(asset, bps)
       PROVE  IInv'
  <2>1. bps \in 0 .. MaxFeeBps
    BY <1>12, RedeemerAssumption DEF SetCollateralRedemptionFee
  <2>2. RedeemerTypeOK'
    BY <1>12, <2>1 DEF SetCollateralRedemptionFee, IInv, SettingsTypeOK, RedeemerTypeOK
  <2> QED BY <1>3, <1>12, <2>2 DEF SetCollateralRedemptionFee
<1>13. ASSUME NEW asset \in Assets, ClearCollateralRedemptionFee(asset)
       PROVE  IInv'
  <2>1. 0 \in 0 .. MaxFeeBps
    BY RedeemerAssumption
  <2>2. RedeemerTypeOK'
    BY <1>13, <2>1 DEF ClearCollateralRedemptionFee, IInv, SettingsTypeOK, RedeemerTypeOK
  <2> QED BY <1>3, <1>13, <2>2 DEF ClearCollateralRedemptionFee
<1> QED BY <1>5, <1>6, <1>7, <1>8, <1>9, <1>10, <1>11, <1>12, <1>13 DEF RedeemerNext

-----------------------------------------------------------------------------
(* Burning debt through the manager is a burn from its vault.              *)
LEMMA DebtBurnSound ==
  ASSUME IInv, NEW b, NEW s, Sound(b, s), NEW debt \in Nat, CanBurnDebt(b, debt)
  PROVE  Sound(AfterDebtBurn(b, debt), [s EXCEPT ![DebtToken] = @ - debt])
<1>1. /\ managerVault \in Parties /\ managerVault \in Holders
      /\ Manager \in Holders /\ managerVault # Manager /\ DebtToken \in Tokens
  BY NamesPlaced DEF IInv, SettingsTypeOK, AmoTypeOK
<1>2. b \in Books /\ b[DebtToken][managerVault] >= debt
  BY DEF Sound, Balanced, CanBurnDebt, CanWithdraw, CanTransfer
<1>3. AfterDebtBurn(b, debt) = Debit(b, DebtToken, managerVault, debt)
  BY <1>1, <1>2, PassThrough DEF AfterDebtBurn, Withdraw
<1> QED BY <1>1, <1>2, <1>3, BurnSound

(* The AMO manager's operations.                                           *)
LEMMA AmoStep ==
  ASSUME IInv, AmoNext, UNCHANGED <<issuerVars, redeemerVars>>
  PROVE  IInv'
<1>1. IssuerTypeOK' /\ RedeemerTypeOK'
  BY DEF IInv, SettingsTypeOK, IssuerTypeOK, RedeemerTypeOK, issuerVars, redeemerVars, feeVars
<1>2. ASSUME Sound(bal', supply'), UNCHANGED <<allowlisted, vaultVars, amoVars>>
      PROVE  IInv'
  BY <1>1, <1>2 DEF IInv, SettingsTypeOK, VaultTypeOK, vaultVars, AmoTypeOK, amoVars
<1>3. ASSUME UNCHANGED <<ledgerVars, vaultVars>>, AmoTypeOK'
      PROVE  IInv'
  BY <1>1, <1>3 DEF IInv, SettingsTypeOK, VaultTypeOK, ledgerVars, vaultVars,
                    Sound, Balanced, Settled
<1>4. /\ managerVault \in Vaults /\ managerVault \in Parties
      /\ Dusd \in Tokens /\ DebtToken \in Tokens /\ Dusd # DebtToken
  BY NamesPlaced DEF IInv, SettingsTypeOK, AmoTypeOK
<1>5. supply \in Supplies /\ VaultTypeOK
  BY DEF IInv, Sound, Balanced, SettingsTypeOK
<1>6. ASSUME NEW n \in Amounts, NEW wallet \in AmoWallets, IncreaseAmoSupply(n, wallet)
      PROVE  IInv'
  <2> DEFINE debt == DebtForDusd(n)
             b1 == Credit(bal, DebtToken, managerVault, debt)
             s1 == [supply EXCEPT ![DebtToken] = @ + debt]
  <2>1. n \in Nat /\ wallet \in Parties /\ debt \in Nat
    BY <1>5, NumbersAssumption, AmoAssumption, NamesPlaced, DebtNat
  <2>2. Sound(b1, s1)
    BY <1>4, <2>1, MintSound DEF IInv
  <2>3. Sound(Credit(b1, Dusd, wallet, n), [s1 EXCEPT ![Dusd] = @ + n])
    BY <1>4, <2>1, <2>2, MintSound
  <2>4. supply' = [s1 EXCEPT ![Dusd] = @ + n]
    <3>1. supply' = [supply EXCEPT ![DebtToken] = @ + debt, ![Dusd] = @ + n]
      BY <1>6 DEF IncreaseAmoSupply
    <3> QED BY <1>4, <1>5, <3>1 DEF Supplies
  <2> QED BY <1>2, <1>6, <2>3, <2>4 DEF IncreaseAmoSupply
<1>7. ASSUME NEW n \in Amounts, NEW wallet \in AmoWallets, DecreaseAmoSupply(n, wallet)
      PROVE  IInv'
  <2> DEFINE debt == DebtForDusd(n)
             b1 == Debit(bal, Dusd, wallet, n)
             s1 == [supply EXCEPT ![Dusd] = @ - n]
  <2>1. /\ n \in Nat /\ wallet \in Parties /\ wallet \in Holders /\ debt \in Nat
        /\ Manager \in Holders /\ wallet # Manager
    BY <1>5, NumbersAssumption, AmoAssumption, NamesPlaced, DebtNat
  <2>2. bal \in Books /\ bal[Dusd][wallet] >= n
    BY <1>7 DEF IInv, Sound, Balanced, DecreaseAmoSupply, CanTransferFrom
  <2>3. Debit(Move(bal, Dusd, wallet, Manager, n), Dusd, Manager, n) = b1
    BY <1>4, <2>1, <2>2, PassThrough
  <2>4. Sound(b1, s1)
    BY <1>4, <2>1, <2>2, BurnSound DEF IInv
  <2>5. CanBurnDebt(b1, debt) /\ bal' = AfterDebtBurn(b1, debt)
    BY <1>7, <2>3 DEF DecreaseAmoSupply
  <2>6. Sound(AfterDebtBurn(b1, debt), [s1 EXCEPT ![DebtToken] = @ - debt])
    BY <2>1, <2>4, <2>5, DebtBurnSound
  <2>7. supply' = [s1 EXCEPT ![DebtToken] = @ - debt]
    <3>1. supply' = [supply EXCEPT ![DebtToken] = @ - debt, ![Dusd] = @ - n]
      BY <1>7 DEF DecreaseAmoSupply
    <3> QED BY <1>4, <1>5, <3>1 DEF Supplies
  <2> QED BY <1>2, <1>7, <2>5, <2>6, <2>7 DEF DecreaseAmoSupply
<1>8. ASSUME NEW wallet \in AmoWallets, NEW asset \in Assets, NEW n \in Amounts,
             NEW min \in SlippageBounds, BorrowTo(wallet, asset, n, min)
      PROVE  IInv'
  <2> DEFINE debt == DebtForAsset(n, asset)
             b1 == Credit(bal, DebtToken, managerVault, debt)
             s1 == [supply EXCEPT ![DebtToken] = @ + debt]
  <2>1. n \in Nat /\ wallet \in Parties /\ asset \in Tokens /\ debt \in Nat
    BY <1>5, NumbersAssumption, AmoAssumption, NamesPlaced, DebtNat
  <2>2. Sound(b1, s1)
    BY <1>4, <2>1, MintSound DEF IInv
  <2>3. CanTransfer(b1, asset, managerVault, wallet, n)
    BY <1>8 DEF BorrowTo, CanWithdraw
  <2>4. Sound(Move(b1, asset, managerVault, wallet, n), s1)
    BY <1>4, <2>1, <2>2, <2>3, TransferSound DEF IInv
  <2> QED BY <1>2, <1>8, <2>4 DEF BorrowTo, Withdraw
<1>9. ASSUME NEW wallet \in AmoWallets, NEW asset \in Assets, NEW n \in Amounts,
             NEW max \in SlippageBounds, RepayFrom(wallet, asset, n, max)
      PROVE  IInv'
  <2> DEFINE debt == DebtForAsset(n, asset)
             b1 == Move(bal, asset, wallet, managerVault, n)
  <2>1. n \in Nat /\ wallet \in Parties /\ asset \in Tokens /\ debt \in Nat
    BY <1>5, NumbersAssumption, AmoAssumption, NamesPlaced, DebtNat
  <2>2. Sound(b1, supply)
    BY <1>4, <1>9, <2>1, TransferSound DEF IInv, RepayFrom
  <2>3. CanBurnDebt(b1, debt) /\ bal' = AfterDebtBurn(b1, debt)
    BY <1>9 DEF RepayFrom
  <2>4. Sound(AfterDebtBurn(b1, debt), [supply EXCEPT ![DebtToken] = @ - debt])
    BY <2>1, <2>2, <2>3, DebtBurnSound
  <2> QED BY <1>2, <1>9, <2>3, <2>4 DEF RepayFrom
<1>10. ASSUME NEW v \in Vaults, SetManagerVault(v)
       PROVE  IInv'
  <2>1. AmoTypeOK'
    BY <1>10 DEF SetManagerVault, IInv, SettingsTypeOK, AmoTypeOK
  <2> QED BY <1>3, <1>10, <2>1 DEF SetManagerVault
<1>11. ASSUME NEW wallet \in AmoWallets, NEW allowed \in BOOLEAN,
              SetAmoWalletAllowed(wallet, allowed)
       PROVE  IInv'
  <2>1. AmoTypeOK'
    BY <1>11 DEF SetAmoWalletAllowed, IInv, SettingsTypeOK, AmoTypeOK
  <2> QED BY <1>3, <1>11, <2>1 DEF SetAmoWalletAllowed
<1>12. ASSUME NEW n \in ToleranceChoices, SetTolerance(n)
       PROVE  IInv'
  <2>1. AmoTypeOK'
    BY <1>12, AmoAssumption DEF SetTolerance, IInv, SettingsTypeOK, AmoTypeOK
  <2> QED BY <1>3, <1>12, <2>1 DEF SetTolerance
<1>13. ASSUME NEW bps \in PegChoices, SetPegDeviationBps(bps)
       PROVE  IInv'
  <2>1. bps \in 0 .. PegScale
    BY <1>13, AmoAssumption DEF SetPegDeviationBps
  <2>2. AmoTypeOK'
    BY <1>13, <2>1 DEF SetPegDeviationBps, IInv, SettingsTypeOK, AmoTypeOK
  <2> QED BY <1>3, <1>13, <2>2 DEF SetPegDeviationBps
<1> QED BY <1>6, <1>7, <1>8, <1>9, <1>10, <1>11, <1>12, <1>13 DEF AmoNext

-----------------------------------------------------------------------------
(* Every step of the system preserves the invariant.                       *)
LEMMA NextIInv == IInv /\ [Next]_vars => IInv'
<1> SUFFICES ASSUME IInv, [Next]_vars PROVE IInv'
  OBVIOUS
<1>1. CASE UNCHANGED vars
  BY <1>1 DEF vars, IInv, SettingsTypeOK, Sound, Balanced, Settled, ledgerVars,
     VaultTypeOK, vaultVars, IssuerTypeOK, issuerVars, RedeemerTypeOK, redeemerVars, feeVars,
     AmoTypeOK, amoVars
<1>2. CASE LedgerNext /\ UNCHANGED <<vaultVars, issuerVars, redeemerVars, amoVars>>
  BY <1>2, LedgerStep
<1>3. CASE VaultNext /\ UNCHANGED <<issuerVars, redeemerVars, amoVars>>
  BY <1>3, VaultStep
<1>4. CASE IssuerNext /\ UNCHANGED <<redeemerVars, amoVars>>
  BY <1>4, IssuerStep
<1>5. CASE RedeemerNext /\ UNCHANGED <<issuerVars, amoVars>>
  BY <1>5, RedeemerStep
<1>6. CASE AmoNext /\ UNCHANGED <<issuerVars, redeemerVars>>
  BY <1>6, AmoStep
<1> QED BY <1>1, <1>2, <1>3, <1>4, <1>5, <1>6 DEF Next

(* The inductive invariant holds throughout.                               *)
THEOREM Invariance == Spec => []IInv
BY InitIInv, NextIInv, PTL DEF Spec

(* Every variable keeps its type.  In particular no balance and no supply  *)
(* is ever negative: a burn or a transfer never takes what is not there.   *)
THEOREM TypeCorrect == Spec => []TypeOK
<1>1. IInv => TypeOK
  BY DEF IInv, SettingsTypeOK, TypeOK, LedgerTypeOK, Sound, Balanced, Books, Supplies
<1> QED BY <1>1, Invariance, PTL

(* No handler creates or loses tokens: the balances of every token add up  *)
(* to its total supply in every reachable state.                           *)
THEOREM TokensConserved == Spec => []Conservation
<1>1. IInv => Conservation
  BY DEF IInv, Conservation, Sound, Balanced
<1> QED BY <1>1, Invariance, PTL

(* Debt tokens never leave the vaults, and nothing is ever left behind in  *)
(* the issuer, the redeemer or the AMO manager.                            *)
THEOREM NothingLeftBehind == Spec => []AtRest
<1>1. IInv => AtRest
  BY DEF IInv, AtRest, Sound, Settled
<1> QED BY <1>1, Invariance, PTL
=============================================================================
