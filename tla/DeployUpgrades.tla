---------------------------- MODULE DeployUpgrades ----------------------------
(***************************************************************************)
(* The upgrade scripts: issuer and redeemer V2 (deploy/22), issuer V2.2    *)
(* and AMO manager V2 (23), the rate of dUSD (24) and the pool of dLEND    *)
(* (25).  What the deployer may not do is handed to the governance Safe by *)
(* a GovernanceExecutor; a script with such an operation returns false and *)
(* is run again once the Safe has executed its batch.                      *)
(***************************************************************************)
EXTENDS DeployConfig

Token == "dUSD"
Vault == "CollateralHolderVault"
Aggregator == "OracleAggregator"
HardPeg == "HardPegOracleWrapper"
AmoManager == "AmoManager"
DebtToken == "AmoDebtToken"
Manager == "AmoManagerV2"
Provider == "PoolAddressesProvider"
ACLManager == "ACLManager"
Pool == "Pool-Proxy"
Withdrawer == "COLLATERAL_WITHDRAWER"

\* Mutant: no Safe transaction is built for the operation that failed.
TryOrNote(step, label) == [step EXCEPT !.onFail = "ignore", !.noteFail = {label}]

\* GovernanceExecutor.tryOrQueue; its result is in the local variable label.
TryOrQueue(step, label) == [step EXCEPT !.onFail = "queue", !.noteFail = {label}]

\* The end of every script here: flush and return false if something is left to governance.
FlushOrFinish ==
  <<IfNoted("pending", [Noop EXCEPT !.kind = "flush"]),
    IfNoted("pending", Return("false")),
    Return("true")>>

\* Mutants: the grant, or the revocation, is not queued.
EnsureRoleUnqueued(contract, role, account, label) ==
  <<Unless(Has(contract, role, account),
           TryOrNote(Grant(Deployer, contract, role, account), label))>>
RemoveRoleUnqueued(contract, role, account, label) ==
  <<When(Has(contract, role, account), Caught(Revoke(Deployer, contract, role, account)))>>

\* What they all do for a role: nothing if it is already as wanted.
EnsureRole(contract, role, account, label) ==
  <<Unless(Has(contract, role, account),
           TryOrQueue(Grant(Deployer, contract, role, account), label))>>
RemoveRole(contract, role, account, label) ==
  <<When(Has(contract, role, account),
         TryOrQueue(Revoke(Deployer, contract, role, account), label))>>

(***************************************************************************)
(* ensureDefaultAdminExistsAndRevokeFrom: grant the role to governance,    *)
(* read that it has it, and only then renounce the deployer's.  Whatever   *)
(* fails is queued or given up: the caller is told nothing.                *)
(***************************************************************************)
EnsureDefaultAdmin(contract) ==
  LET grantFailed == "admin grant failed on " \o contract
      renounceFailed == "renounce failed on " \o contract
      grant == Grant(Deployer, contract, "ADMIN", Governance)
      renounce == [Caught(Renounce(Deployer, contract, "ADMIN")) EXCEPT !.noteFail = {renounceFailed}]
      revoke == Revoke(Deployer, contract, "ADMIN", Deployer)
  IN <<Unless(Has(contract, "ADMIN", Governance), [Caught(grant) EXCEPT !.noteFail = {grantFailed}]),
       IfNoted(grantFailed, TryOrQueue(grant, "")),
       When(Has(contract, "ADMIN", Governance), When(Has(contract, "ADMIN", Deployer), renounce)),
       IfNoted(renounceFailed, TryOrQueue(revoke, ""))>>

\* Mutant: the deployer's admin role goes like the others.
MigrateRolesUnread(contract, roles) ==
  LET all == <<"ADMIN">> \o roles
  IN ForEach(all, LAMBDA r : EnsureRole(contract, r, Governance, "pending"))
     \o ForEach(all, LAMBDA r : RemoveRole(contract, r, Deployer, "pending"))

\* migrate...Roles: grants to governance first, then the deployer's roles go.
MigrateRoles(contract, roles) ==
  EnsureRole(contract, "ADMIN", Governance, "pending")
  \o ForEach(roles, LAMBDA r : EnsureRole(contract, r, Governance, "pending"))
  \o ForEach(roles, LAMBDA r : RemoveRole(contract, r, Deployer, "pending"))
  \o EnsureDefaultAdmin(contract)

EnsureMinterRole(account) == EnsureRole(Token, "MINTER", account, "pending")
EnsureVaultWithdrawerRole(account) == EnsureRole(Vault, Withdrawer, account, "pending")

MigrateIssuerV2Roles == MigrateRoles("IssuerV2", <<"AMO_MANAGER", "INCENTIVES_MANAGER", "PAUSER">>)
MigrateRedeemerV2Roles == MigrateRoles("RedeemerV2", <<"REDEMPTION_MANAGER", "PAUSER">>)
MigrateAmoManagerRoles == MigrateRoles(Manager, <<"AMO_INCREASE", "AMO_DECREASE">>)
MigrateAmoDebtTokenAdmin == MigrateRoles(DebtToken, <<>>)

EnsureDebtTokenCollateral ==
  <<Unless(Is(Vault, "supports", DebtToken),
           TryOrQueue(Set(Deployer, Vault, "COLLATERAL_MANAGER", "supports", DebtToken), "pending"))>>

DeployWithRoles(name, roles) ==
  DeployWith(name, Deployer, {Has(name, r, Deployer) : r \in {"ADMIN"} \cup roles})

\* 22/1.  Revoking the old issuer's role does not count for the result.
SetupIssuerV2 ==
  Script("22_1_setup_issuerv2", {"setup-issuerv2"}, <<Vault, "dUSD", Aggregator, AmoManager>>,
    <<When(Missing("Issuer"), Return("true")),
      Get(Aggregator), Get(Vault), Get(AmoManager),
      DeployWithRoles("IssuerV2", {"AMO_MANAGER", "INCENTIVES_MANAGER", "PAUSER"})>>
    \o EnsureMinterRole("IssuerV2")
    \o RemoveRole(Token, "MINTER", "Issuer", "")
    \o MigrateIssuerV2Roles
    \o FlushOrFinish)

\* 22/2.  One collateral stands for those with a fee of their own.
SetupRedeemerV2 ==
  Script("22_2_setup_redeemerv2", {"setup-redeemerv2"}, <<Vault, "dUSD", Aggregator>>,
    <<Get(Aggregator), Get(Vault),
      DeployWithRoles("RedeemerV2", {"REDEMPTION_MANAGER", "PAUSER"}),
      Unless(Is("RedeemerV2", "fee", "set"),
             Caught(Set(Deployer, "RedeemerV2", "ADMIN", "fee", "set")))>>
    \o EnsureVaultWithdrawerRole("RedeemerV2")
    \o ForEach(<<"Redeemer", "dUSD_RedeemerWithFees">>, LAMBDA old :
         ForEach(RemoveRole(Vault, Withdrawer, old, "pending"), LAMBDA s : <<When(Recorded(old), s)>>))
    \o MigrateRedeemerV2Roles
    \o FlushOrFinish)

DeployIssuerV2_2 ==
  Script("dUSD:IssuerV2_2", {"dusd-upgrade", "IssuerV2_2"}, <<Vault, "dUSD", Aggregator>>,
    <<When(Recorded("IssuerV2_2"), Return("false")), Get(Aggregator), Get(Vault),
      DeployWithRoles("IssuerV2_2", {"INCENTIVES_MANAGER", "PAUSER"}),
      Return("true")>>)

(***************************************************************************)
(* 23/01.  The manager's constructor reads both prices, so the manager     *)
(* waits until the debt token has one.  The last steps call the debt token *)
(* directly: nothing is queued if the deployer is not its admin.           *)
(***************************************************************************)
DeployAmoManagerV2 ==
  LET priced == Is(Aggregator, DebtToken, HardPeg)
      wired(step) == When(Recorded(Manager), Awaited(step))
  IN Script("dUSD:AmoManagerV2", {"dusd-upgrade", Manager, DebtToken},
            <<Vault, "dUSD", "oracle-wrapper", Aggregator>>,
       <<Get(Aggregator), Get(Vault),
         Note(Missing(DebtToken), "new debt token"),
         DeployWithRoles(DebtToken, {}),
         Unless(priced, Get(HardPeg)),
         Unless(priced, TryOrQueue(Awaited(Set(Deployer, Aggregator, "ORACLE_MANAGER", DebtToken, HardPeg)),
                                   "pending")),
         UnlessNoted("pending",
           [Needing(priced, Needing(Is(Aggregator, "dUSD", HardPeg), DeployWithRoles(Manager, {})))
              EXCEPT !.onFail = "ignore", !.noteFail = {"pending"}]),
         IfNoted("new debt token", Unless(Has(DebtToken, "ADMIN", Deployer),
           wired(Grant(Deployer, DebtToken, "ADMIN", Deployer)))),
         Unless(Has(DebtToken, "AMO_MANAGER", Manager),
           wired(Grant(Deployer, DebtToken, "AMO_MANAGER", Manager)))>>
       \o ForEach(<<Vault, Manager>>, LAMBDA target :
            <<Unless(Is(DebtToken, "allowlisted " \o target, "yes"),
                wired(Set(Deployer, DebtToken, "ADMIN", "allowlisted " \o target, "yes")))>>)
       \o FlushOrFinish)

(***************************************************************************)
(* mirrorLegacyAssetPauses: the vault has no getSupportedCollaterals, so   *)
(* the assets are those of the configuration.  "listed" stands for them,   *)
(* "unlisted" for a collateral of the vault the configuration leaves out.  *)
(***************************************************************************)
MirrorPauses(assets) ==
  ForEach(assets, LAMBDA a :
    <<When(Recorded("IssuerV2"), When(Is("IssuerV2", "paused " \o a, "yes"),
        Unless(Is("IssuerV2_2", "paused " \o a, "yes"),
          TryOrQueue(Set(Deployer, "IssuerV2_2", "PAUSER", "paused " \o a, "yes"), "pending"))))>>)

SetupIssuerV2_2 ==
  LET ifRecorded(name, steps) == ForEach(steps, LAMBDA s : <<When(Recorded(name), s)>>)
  IN Script("23_02_setup_issuer_v2_2", {"dusd-upgrade", "setup-issuer-v2_2"},
            <<Vault, "dUSD", "IssuerV2_2", Manager, DebtToken>>,
       <<When(Missing("IssuerV2_2"), Return("true")), Get(Vault)>>
       \o EnsureMinterRole("IssuerV2_2")
       \o MirrorPauses(<<"listed">>)
       \o ifRecorded("IssuerV2", RemoveRole(Token, "MINTER", "IssuerV2", "pending"))
       \o MigrateRoles("IssuerV2_2", <<"INCENTIVES_MANAGER", "PAUSER">>)
       \o ifRecorded(Manager,
            EnsureVaultWithdrawerRole(Manager)
            \o EnsureMinterRole(Manager)
            \o MigrateAmoManagerRoles
            \o ifRecorded(AmoManager, RemoveRole(Vault, Withdrawer, AmoManager, "pending")))
       \o ifRecorded(DebtToken, EnsureDebtTokenCollateral \o MigrateAmoDebtTokenAdmin)
       \o FlushOrFinish)

\* 24.  Only mainnet has the new strategy.  The configurator takes a risk admin or a pool admin.
UpdateRateStrategy ==
  LET strategy == "ReserveStrategy-dUSD-kink-7p5"
      update(fact) ==
        Unless(fact, TryOrQueue(Awaited(Tx(Deployer, <<ACLManager, "POOL_ADMIN">>, {fact})), "pending"))
      factor == Is(Pool, "dUSD reserve factor", "0")
      rate == Is(Pool, "dUSD strategy", strategy)
  IN Script("dUSD:rate-strategy-3-7p5-30-fee-0", {"dusd", "dusd-rate-strategy"},
            <<Provider, "PoolConfigurator-Proxy">>,
       IF ~Mainnet THEN <<Return("true")>>
       ELSE <<Get(Provider), Deploy(strategy, Deployer),
              [Return("true") EXCEPT !.onlyIf = {factor, rate}],
              Get("PoolConfigurator-Proxy"), update(factor), update(rate)>>
            \o FlushOrFinish)

ListingHelper == "AtomicMarketListingHelper"
NewPoolImpl == "L2Pool-Implementation-SecurityUpgrade"
Upgraded == Is(Pool, "revision", "2")

\* 25/00.  An owner that is neither is left alone.
DeployListingHelper ==
  Script("FraxtalLendingSecurityUpgrade:AtomicMarketListingHelper",
         {"lbp", "lbp-security-upgrade", "lbp-market-listing-helper"}, <<"lbp-market">>,
    <<DeployWith(ListingHelper, Deployer, {Has(ListingHelper, "owner", Deployer)}),
      When(Has(ListingHelper, "owner", Governance), Return("true")),
      Unless(Has(ListingHelper, "owner", Deployer), Return("false")),
      Awaited(TransferOwnership(Deployer, ListingHelper, Governance)),
      Return("true")>>)

\* 25/01.  setPoolImpl points the proxy to the new code, which raises its revision.
UpgradePoolImplementation ==
  Script("FraxtalLendingSecurityUpgrade:PoolImplementation",
         {"lbp", "lbp-security-upgrade", "lbp-pool-security-upgrade"}, <<"lbp-market">>,
    <<Get(Provider), When(Upgraded, Return("true"))>>
    \o ForEach(<<"SupplyLogic", "BorrowLogic", "LiquidationLogic", "EModeLogic", "BridgeLogic",
                 "FlashLoanLogic", "PoolLogic", "CalldataLogic">>, LAMBDA l : <<Get(l)>>)
    \o <<Deploy("FlashLoanLogic-SecurityUpgrade", Deployer), Deploy(NewPoolImpl, Deployer),
         IfNoted(New(NewPoolImpl), Awaited(Initialize(Deployer, NewPoolImpl))),
         TryOrQueue(Awaited(Tx(Deployer, <<Provider, "owner">>, {Upgraded})), "pending")>>
    \o FlushOrFinish)

GrantListingHelperRoles ==
  Script("FraxtalLendingSecurityUpgrade:AtomicMarketListingHelperRoles",
         {"lbp", "lbp-security-upgrade", "lbp-market-listing-helper-roles"},
         <<"lbp-market", ListingHelper, "FraxtalLendingSecurityUpgrade:PoolImplementation">>,
    <<Get(ListingHelper), Get(Provider), Unless(Upgraded, Return("false"))>>
    \o ForEach(<<"ASSET_LISTING_ADMIN", "RISK_ADMIN">>, LAMBDA r :
         ForEach(EnsureRole(ACLManager, r, ListingHelper, "pending"), LAMBDA s : <<Awaited(s)>>))
    \o FlushOrFinish)

V2Scripts == <<SetupIssuerV2, SetupRedeemerV2>>
V2_2Scripts == <<DeployIssuerV2_2, DeployAmoManagerV2, SetupIssuerV2_2>>
SecurityScripts == <<DeployListingHelper, UpgradePoolImplementation, GrantListingHelperRoles>>
=============================================================================
