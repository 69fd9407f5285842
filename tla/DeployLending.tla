---------------------------- MODULE DeployLending ----------------------------
(***************************************************************************)
(* Scripts of deploy/03_lending, 13 and 14 and those that add reserves     *)
(* later, with the functions of utils/lending they call.  Every            *)
(* transaction of theirs is awaited but the ones of deployIncentives.      *)
(***************************************************************************)
EXTENDS DeployConfig

Registry == "PoolAddressesProviderRegistry"
Provider == "PoolAddressesProvider"
DataProvider == "PoolDataProvider"
PoolImpl == "L2Pool-Implementation"
ConfiguratorImpl == "PoolConfigurator-Implementation"
SetupHelper == "ReservesSetupHelper"
ACLManager == "ACLManager"
LendingOracle == "AaveOracle"
Pool == "Pool-Proxy"
Configurator == "PoolConfigurator-Proxy"

Market == {"lbp", "lbp-market"}
Post == {"lbp", "lbp-periphery-post"}
BeforeMarket == <<"before-deploy", "lbp-core", "lbp-periphery-pre">>

DeployOwned(name, owner) == DeployWith(name, Deployer, {Has(name, "owner", owner)})
Configure(contract, role, name, value) == Awaited(Set(Deployer, contract, role, name, value))

\* The registry's owner is the deployer on every network: nothing to transfer.
DeployPoolAddressesProviderRegistry ==
  <<DeployOwned(Registry, Deployer),
    Unless(Has(Registry, "owner", Deployer),
           Caught(Awaited(TransferOwnership(Deployer, Registry, Deployer)))),
    Return("true")>>

MarketsRegistry ==
  Script(Registry, {"lbp", "lbp-core", "lbp-registry"}, <<>>, DeployPoolAddressesProviderRegistry)

CommonLibraries ==
  <<"SupplyLogic", "BorrowLogic", "LiquidationLogic", "EModeLogic", "BridgeLogic">>

DeployLogicLibraries ==
  ForEach(CommonLibraries \o <<"ConfiguratorLogic", "FlashLoanLogic", "PoolLogic">>,
          LAMBDA l : <<Deploy(l, Deployer)>>)
  \o <<Return("true")>>

LogicLibraries ==
  Script("LogicLibraries", {"lbp", "lbp-core", "lbp-logic"}, <<>>, DeployLogicLibraries)

\* deployTreasury ends at once if the three contracts are recorded.
DeployTreasury ==
  <<[Return("true") EXCEPT
       !.onlyIf = {Recorded(n) : n \in {"TreasuryProxy", "TreasuryController", "TreasuryImpl"}}],
    Deploy("TreasuryProxy", Deployer),
    Deploy("TreasuryController", Deployer),
    Deploy("TreasuryImpl", Deployer),
    IfNoted(New("TreasuryImpl"), Awaited(InitializeOnce(Deployer, "TreasuryImpl"))),
    Awaited(InitializeOnce(Deployer, "TreasuryProxy")),
    Return("true")>>

Treasury ==
  Script("Treasury", {"lbp", "lbp-periphery-pre", "lbp-TreasuryProxy"}, <<>>, DeployTreasury)

\* Local prices of mock aggregators: the configuration lists none.
PriceAggregatorsSetup ==
  Script("MockPriceAggregators", {"lbp", "lbp-mock", "lbp-price-aggregators-setup"},
         <<"before-deploy", "tokens-setup", "lbp-periphery-pre">>, <<Return("true")>>)

\* Mutant: only a provider deployed by this run is registered.
SetupAddressesProviderIfNew ==
  <<DeployOwned(Provider, Deployer),
    Configure(Provider, "owner", "market id", "yes"),
    Get(Registry),
    IfNoted(New(Provider), Configure(Registry, "owner", "provider", "yes")),
    Deploy(DataProvider, Deployer),
    Configure(Provider, "owner", "data provider", "yes")>>

AddMarketToRegistry ==
  <<Get(Registry),
    Unless(Is(Registry, "provider", "yes"), Configure(Registry, "owner", "provider", "yes"))>>

SetupAddressesProvider ==
  <<DeployOwned(Provider, Deployer),
    Configure(Provider, "owner", "market id", "yes")>>
  \o AddMarketToRegistry
  \o <<Deploy(DataProvider, Deployer),
       Unless(Is(Provider, "data provider", "yes"),
              Configure(Provider, "owner", "data provider", "yes"))>>

SetupMarket ==
  Script("PoolAddressesProvider-dTrinity-Lend:lending-core", Market \cup {"lbp-provider"},
         BeforeMarket \o <<"token-setup">>, SetupAddressesProvider \o <<Return("true")>>)

\* deployL2PoolImplementation: initialize reverts if it was called before.
DeployL2PoolImplementation ==
  <<Get(Provider)>>
  \o ForEach(CommonLibraries \o <<"FlashLoanLogic", "PoolLogic">>, LAMBDA l : <<Get(l)>>)
  \o <<Deploy("CalldataLogic", Deployer), Deploy(PoolImpl, Deployer),
       Awaited(Initialize(Deployer, PoolImpl)),
       Return("true")>>
L2PoolImplementation == Script("L2PoolImplementations", Market, <<>>, DeployL2PoolImplementation)

DeployPoolConfigurator ==
  <<Get(Provider), Get("ConfiguratorLogic"), Deploy(ConfiguratorImpl, Deployer),
    Awaited(Initialize(Deployer, ConfiguratorImpl)),
    Deploy(SetupHelper, Deployer),
    Return("true")>>
PoolConfigurator == Script("PoolConfigurator", Market, <<>>, DeployPoolConfigurator)

\* The constructor of ACLManager makes the ACL admin its admin.
InitACLManager ==
  <<Get(Provider), Configure(Provider, "owner", "ACL admin", "yes"),
    Needing(Is(Provider, "ACL admin", "yes"),
            DeployWith(ACLManager, Deployer, {Has(ACLManager, "ADMIN", Deployer)})),
    Configure(Provider, "owner", "ACL manager", "yes"),
    Awaited(Grant(Deployer, ACLManager, "POOL_ADMIN", Deployer)),
    Awaited(Grant(Deployer, ACLManager, "EMERGENCY_ADMIN", Deployer)),
    Require(Has(ACLManager, "ADMIN", Deployer)),
    Require(Has(ACLManager, "POOL_ADMIN", Deployer)),
    Require(Has(ACLManager, "EMERGENCY_ADMIN", Deployer)),
    Return("true")>>
InitACL ==
  Script("ACLManager", Market \cup {"lbp-acl"}, BeforeMarket \o <<"lbp-provider">>, InitACLManager)

DeployOracles ==
  <<Get("OracleAggregator"), Get(Provider), Deploy(LendingOracle, Deployer), Return("true")>>
DeployOracle == Script("Oracles", Market \cup {"lbp-oracle"}, <<"before-deploy">>, DeployOracles)

InitOracles ==
  <<Get(Provider), Get(LendingOracle),
    Unless(Is(Provider, "price oracle", "yes"), Configure(Provider, "owner", "price oracle", "yes")),
    Return("true")>>
InitOracle ==
  Script("InitOracles", Market \cup {"lbp-oracles"}, BeforeMarket \o <<"lbp-provider">>, InitOracles)

\* The provider deploys the two proxies, whose records are saved each time.
InitPoolAndConfigurator ==
  <<Get(PoolImpl), Get(ConfiguratorImpl), Get(Provider),
    Unless(Is(Provider, "pool", "yes"),
           [Configure(Provider, "owner", "pool", "yes") EXCEPT !.sets = @ \cup {Is(Pool, "revision", "2")}]),
    Save(Pool),
    Unless(Is(Provider, "configurator", "yes"), Configure(Provider, "owner", "configurator", "yes")),
    Save(Configurator),
    Awaited(Tx(Deployer, <<ACLManager, "POOL_ADMIN">>, {Is(Pool, "premium total", "yes")})),
    Awaited(Tx(Deployer, <<ACLManager, "POOL_ADMIN">>, {Is(Pool, "premium to protocol", "yes")})),
    Return("true")>>
InitPool ==
  Script("PoolInitalization", Market \cup {"lbp-init-pool"}, BeforeMarket \o <<"lbp-provider">>,
         InitPoolAndConfigurator)

TokenImpls ==
  <<"AToken", "DelegationAwareAToken", "StableDebtToken", "VariableDebtToken">>

DeployTokenImplementation(t) == <<Deploy(t, Deployer), Awaited(InitializeOnce(Deployer, t))>>
DeployTokensImplementations ==
  <<Get(Provider)>> \o ForEach(TokenImpls, DeployTokenImplementation) \o <<Return("true")>>
TokenImplementations ==
  Script("TokenImplementations", Market \cup {"lbp-tokens"}, <<>>, DeployTokensImplementations)

\* initReservesByHelper: chunks of reserves that have no aToken yet.
InitReservesByHelper(chunks) ==
  <<Get(Provider), Get("StableDebtToken"), Get("VariableDebtToken"), Get("AToken")>>
  \o <<Get(Configurator)>>
  \o ForEach(chunks, LAMBDA c :
       <<Unless(Is(Pool, c[1], "reserve"),
                Awaited(Needing(Recorded("ReserveStrategy-dUSD"),
                  Tx(Deployer, <<ACLManager, "POOL_ADMIN">>,
                     {Is(Pool, c[i], "reserve") : i \in 1..Len(c)}))))>>)

(***************************************************************************)
(* configureReservesByHelper: the helper is risk admin while it configures *)
(* the reserves that are not collateral yet, if there are any.             *)
(***************************************************************************)
ConfigureReservesByHelper(chunks) ==
  LET enabled == UNION {{Is(Pool, "collateral " \o chunks[i][j], "yes") : j \in 1..Len(chunks[i])}
                        : i \in 1..Len(chunks)}
  IN <<Get(Provider), Get(SetupHelper), Get(DataProvider)>>
     \o ForEach(chunks, LAMBDA c :
          <<Note(Unset(Pool, "collateral " \o c[1]), "not configured")>>)
     \o <<IfNoted("not configured", Awaited(Grant(Deployer, ACLManager, "RISK_ADMIN", SetupHelper))),
          IfNoted("not configured",
            Awaited(Needing(Has(ACLManager, "RISK_ADMIN", SetupHelper),
                            Tx(Deployer, Anyone, enabled)))),
          IfNoted("not configured", Awaited(Revoke(Deployer, ACLManager, "RISK_ADMIN", SetupHelper)))>>

\* The records of a reserve's three tokens.
SavePoolTokens(chunks) ==
  <<Get(DataProvider)>>
  \o ForEach(chunks, LAMBDA c :
       <<[Noop EXCEPT !.sets = {Recorded(c[i] \o t) : i \in 1..Len(c),
            t \in {"-AToken", "-VariableDebtToken", "-StableDebtToken"}}]>>)

\* initReserves.
InitReserves(strategies, chunks) ==
  <<Get(Provider)>>
  \o ForEach(strategies, LAMBDA s : <<Deploy("ReserveStrategy-" \o s, Deployer)>>)
  \o <<Get("TreasuryProxy")>>
  \o InitReservesByHelper(chunks)
  \o ConfigureReservesByHelper(chunks)
  \o SavePoolTokens(chunks)
  \o <<Return("true")>>

ReservesInit ==
  Script("ReservesInit", Market \cup {"lbp-init-reserves"},
         BeforeMarket \o <<"lbp-provider", "lbp-init-pool", "lbp-oracles", "dStable">>,
         InitReserves(RateStrategies, Reserves))

AfterPool == BeforeMarket \o <<"lbp-provider", "lbp-init-pool", "lbp-oracles">>

\* 08: only mainnet lists the asset.
AddFXB20291231Reserve ==
  Script("AddFXB20291231Reserve", Market \cup {"lbp-init-reserves", "fxb-reserve"},
         AfterPool \o <<"curve-oracle-wrapper", "point-curve-oracle-wrapper">>,
         IF Mainnet THEN InitReserves(<<>>, << <<"FXB20291231">> >>) ELSE <<Return("true")>>)

\* 12: FRAX and USDe stand for the six assets.
AddReserves202502 ==
  Script("AdddTrinity-LendReserves202502", Market \cup {"lbp-init-reserves", "fxb-reserve"},
         AfterPool \o <<"api3-oracle-wrapper", "curve-oracle-wrapper", "point-curve-oracle-wrapper",
                        "point-api3-oracle-wrapper">>,
         IF Mainnet THEN InitReserves(<<>>, << <<"FRAX">>, <<"USDe">> >>) ELSE <<Return("false")>>)

AddFXB20261231Reserve ==
  Script("AdddTrinity-LendReservesFXB20261231",
         Market \cup {"lbp-init-reserves", "fxb-reserve", "fxb-2026"},
         AfterPool \o <<"api3-oracle-wrapper", "curve-oracle-wrapper", "point-curve-oracle-wrapper",
                        "point-api3-oracle-wrapper", "DeployCurveOracleWrapperFXB20261231",
                        "PointCurveOracleWrapperFXB20261231">>,
         IF Mainnet THEN InitReserves(<<>>, << <<"FXB20261231">> >>) ELSE <<Return("false")>>)

DeployMockFlashLoanReceiver == <<Get(Provider), Deploy("MockFlashLoanReceiver", Deployer)>>
PeripheryMocks ==
  Script("PeripheryInit", Market \cup {"lbp-init-periphery"}, AfterPool,
         Guarded(~Mainnet, DeployMockFlashLoanReceiver))

\* getWETH9Address: the record on a local network, the configuration elsewhere.
WrappedNativeToken == IF Local THEN <<Get("WETH9")>> ELSE <<>>

\* deployNativeTokenGateway, called by two scripts under the same name.
DeployGateway ==
  WrappedNativeToken \o <<Get(Pool), Deploy("WrappedTokenGatewayV3", Deployer), Return("true")>>

NativeTokenGateway ==
  Script("WrappedTokenGateway", Post \cup {"lbp-WrappedTokenGateway"}, <<>>, DeployGateway)
NewNativeTokenGateway ==
  Script("NewWrappedTokenGateway", Post \cup {"lbp-WrappedTokenGateway", "fraxtal-hardfork"}, <<>>,
         DeployGateway)

DeployWalletBalanceProvider == <<Deploy("WalletBalanceProvider", Deployer), Return("true")>>
WalletBalanceProvider ==
  Script("WalletBalanceProvider", Post \cup {"lbp-walletProvider"}, <<>>, DeployWalletBalanceProvider)

DeployUiPoolDataProvider ==
  Guarded(UiFeedConfigured,
          <<Deploy("UiIncentiveDataProviderV3", Deployer), Deploy("UiPoolDataProviderV3", Deployer)>>)
UiHelpers ==
  Script("UiPoolDataProvider", Post \cup {"lbp-ui-helpers"}, <<>>, DeployUiPoolDataProvider)

Adapters(names) == ForEach(names, LAMBDA n : <<Deploy(n, Deployer)>>)

DeployDSwapAdapters ==
  <<Get(Provider), Get("SwapRouter")>>
  \o Adapters(<<"DSwapLiquiditySwapAdapter", "DSwapWithdrawSwapAdapter", "DSwapRepayAdapter">>)
DSwapAdapters ==
  Script("DSwapAdapters", Post \cup {"lbp-dswap-adapters"}, <<>>, Guarded(Local, DeployDSwapAdapters))

DeployCurveAdapters ==
  <<Get(Provider), Get(Pool)>>
  \o Adapters(<<"CurveDebtSwapAdapter", "CurveLiquiditySwapAdapter", "CurveRepayAdapter",
                "CurveWithdrawSwapAdapter">>)
  \o <<Return("true")>>
CurveAdapters == Script("CurveAdapters", Post \cup {"lbp-curve-adapters"}, <<>>, DeployCurveAdapters)

DeployOdosAdapters ==
  <<Get(Provider), Get(Pool)>>
  \o Adapters(<<"OdosLiquiditySwapAdapter", "OdosDebtSwapAdapter", "OdosRepayAdapter",
                "OdosWithdrawSwapAdapter">>)
  \o <<Return("true")>>
OdosAdapters == Script("OdosAdapters", Post \cup {"lbp-odos-adapters"}, <<>>, DeployOdosAdapters)

Emission == "EmissionManager"
Incentives == "IncentivesProxy"
PullStrategy == "PullRewardsTransferStrategy"

\* deployIncentives ends at once if its four contracts are recorded.
DeployEmissionManager ==
  <<[Return("true") EXCEPT
       !.onlyIf = {Recorded(n) : n \in {Emission, "IncentivesV2-Implementation", Incentives, PullStrategy}}],
    Get(Provider),
    DeployOwned(Emission, Deployer),
    Deploy("IncentivesV2-Implementation", Deployer),
    InitializeOnce(Deployer, "IncentivesV2-Implementation")>>

\* The record of the proxy holds the address the provider answers after setAddressAsProxy was
\* sent, which is zero until that is mined.
AttachIncentivesProxy ==
  <<Note(Unset(Provider, "incentives controller"), "proxy pending"),
    IfNoted("proxy pending", Set(Deployer, Provider, "owner", "incentives controller", "yes")),
    Note(Is(Provider, "incentives controller", "yes"), "proxy answered"),
    IfNoted("proxy pending", IfNoted("proxy answered",
      [Save(Incentives) EXCEPT !.sets = @ \cup {Is(Incentives, "recorded at", "proxy")}])),
    IfNoted("proxy pending", UnlessNoted("proxy answered",
      [Save(Incentives) EXCEPT !.sets = @ \cup {Is(Incentives, "recorded at", "zero")}])),
    Get(Incentives),
    When(Is(Incentives, "recorded at", "proxy"), Unless(Is(Emission, "controller", "yes"),
      Set(Deployer, Emission, "owner", "controller", "yes")))>>

\* No script deploys a staked Aave token, so there is no staked strategy.
DeployIncentives ==
  DeployEmissionManager \o AttachIncentivesProxy \o
  <<Deploy(PullStrategy, Deployer),
    Unless(Has(Emission, "owner", Governance), Caught(TransferOwnership(Deployer, Emission, Governance))),
    Return("true")>>

IncentivesScript ==
  Script("Incentives", Market \cup {"lbp-IncentivesProxy"}, BeforeMarket \o <<"lbp-provider">>,
         DeployIncentives)

LendingScripts ==
  <<MarketsRegistry, LogicLibraries, Treasury, PriceAggregatorsSetup, SetupMarket,
    L2PoolImplementation, PoolConfigurator, InitACL, DeployOracle, InitOracle, InitPool,
    TokenImplementations, ReservesInit, PeripheryMocks, NativeTokenGateway, WalletBalanceProvider,
    UiHelpers, DSwapAdapters, IncentivesScript, CurveAdapters>>
=============================================================================
