----------------------------- MODULE DeployDstake -----------------------------
(***************************************************************************)
(* Scripts that deploy the static aToken wrapper (deploy/16), dSTAKE (17), *)
(* the vesting NFT (18) and the balance checkers (07 and 21).  Those of    *)
(* dSTAKE return undefined: they run again on every run.                   *)
(***************************************************************************)
EXTENDS DeployConfig

WrapperFactory == "dLend_StaticATokenFactory"
Wrapper == "dLend_ATokenWrapper_dUSD"
Pool == "Pool-Proxy"
DataProvider == "PoolDataProvider"
Token == "DStakeToken_sdUSD"
TokenProxyAdmin == "DStakeProxyAdmin_sdUSD"
Vault == "DStakeCollateralVault_sdUSD"
Router == "DStakeRouter_sdUSD"
Adapter == "WrappedDLendConversionAdapter_sdUSD"
RewardManager == "DStakeRewardManagerDLend_sdUSD"
Emission == "EmissionManager"
Provider == "PoolAddressesProvider"
DusdReserve == Is(Pool, "dUSD", "reserve")

Undefined == Return("false")
DoneIf(fact) == When(fact, Undefined)

StaticATokenFactory ==
  Script(WrapperFactory, {"StaticATokenFactory", "aTokenWrapper"}, <<"lbp-init-reserves">>,
    <<DoneIf(Recorded(WrapperFactory)), Get(Pool), Deploy(WrapperFactory, Deployer), Undefined>>)

\* Creating and saving the wrapper are in one try: a failure is only logged.
StaticATokenWrappers ==
  LET exists == Is(WrapperFactory, "wrapper", "dUSD")
  IN Script("StaticATokenLMWrappers", {"StaticATokenWrappers", "aTokenWrapper", "dUSD-aTokenWrapper"},
            <<"StaticATokenFactory", "lbp-init-reserves", "dStable">>,
       <<DoneIf(Recorded(Wrapper)), Get(WrapperFactory), Get(DataProvider),
         When(DusdReserve, Unless(exists,
           [Caught(Awaited(Tx(Deployer, Anyone, {exists}))) EXCEPT !.noteFail = {"failed"}])),
         When(DusdReserve, UnlessNoted("failed", Save(Wrapper))),
         Undefined>>)

ConfigureStaticATokenWrappers ==
  Script("ConfigureStaticATokenWrappers", {"ConfigureStaticATokenWrappers", "aTokenWrapper"},
         <<"StaticATokenWrappers">>,
    <<When(Recorded(Wrapper),
           Caught(Awaited(Tx(Deployer, Anyone, {Is(Wrapper, "reward tokens", "refreshed")})))),
      Undefined>>)

CheckStaticATokenStatus ==
  [Script("CheckStaticATokenStatus", {"CheckStaticATokenStatus"}, <<>>, <<Undefined>>)
     EXCEPT !.atEnd = TRUE]

\* config.dStake: a local network has it once its token and wrapper are recorded.
WithoutDStakeConfig ==
  IF Local THEN <<DoneIf(Missing("dUSD")), DoneIf(Missing(Wrapper))>> ELSE <<>>

\* The proxy of the token has an admin contract of its own; another owner is left alone.
DStakeCore ==
  Script("deploy_dstake_core", {"dStakeCore", "dStake"}, <<"dStable", "StaticATokenWrappers">>,
    WithoutDStakeConfig
    \o <<Require(Recorded(Wrapper)),
         [Undefined EXCEPT !.onlyIf = {Recorded(n) : n \in {Token, Vault, Router}}],
         When(Recorded(TokenProxyAdmin), Unless(Has(TokenProxyAdmin, "owner", Deployer), Undefined)),
         Unless(Recorded(Token), DeployWith(TokenProxyAdmin, Deployer, {Has(TokenProxyAdmin, "owner", Deployer)})),
         DeployWith(Token, Deployer, {Has(Token, "ADMIN", Deployer), Has(Token, "FEE_MANAGER", Deployer)}),
         DeployWith(Vault, Deployer, {Has(Vault, "ADMIN", Deployer)}),
         DeployWith(Router, Deployer, {Has(Router, "ADMIN", Deployer)}),
         Undefined>>)

DStakeAdapters ==
  Script("deploy_dstake_adapters", {"dStakeAdapters", "dStake", "WrappedDLendConversionAdapter"},
         <<"dStakeCore", "dUSD-aTokenWrapper">>,
    WithoutDStakeConfig
    \o <<When(Recorded(Vault), When(Recorded(Wrapper), Deploy(Adapter, Deployer))), Undefined>>)

(***************************************************************************)
(* The claimer and the roles of the reward manager are set up only by the  *)
(* run that deploys it.  The claimer is left to the owner of the emission  *)
(* manager when the deployer is not.                                       *)
(***************************************************************************)
DStakeRewards ==
  LET fresh(step) == IfNoted(New(RewardManager), step)
      handOver(role) ==
        IF Governance = Deployer THEN <<>>
        ELSE <<fresh(Unless(Has(RewardManager, role, Governance),
                            Grant(Deployer, RewardManager, role, Governance)))>>
      giveUp(role) ==
        IF Governance = Deployer THEN <<>>
        ELSE <<fresh(When(Has(RewardManager, role, Deployer),
                          Revoke(Deployer, RewardManager, role, Deployer)))>>
  IN [Script("dstake_dlend_rewards", {"DStakeRewardManagerDLend", "dStakeRewards"},
             <<"dStakeCore", "dStakeAdapters", "lbp-IncentivesProxy", Wrapper, DataProvider, Emission>>,
        WithoutDStakeConfig
        \o <<DoneIf(Missing("IncentivesProxy")), DoneIf(Missing(Emission)),
             DoneIf(Missing(DataProvider)), DoneIf(Missing(Wrapper)),
             Get(Vault), Get(Router),
             Unless(DusdReserve, Undefined),
             DeployWith(RewardManager, Deployer,
                        {Has(RewardManager, "ADMIN", Deployer),
                         Has(RewardManager, "REWARDS_MANAGER", Deployer)}),
             fresh(When(Has(Emission, "owner", Deployer),
                        Awaited(Set(Deployer, Emission, "owner", "claimer", RewardManager))))>>
        \o handOver("ADMIN") \o handOver("REWARDS_MANAGER")
        \o giveUp("REWARDS_MANAGER") \o giveUp("ADMIN")
        \o <<Undefined>>) EXCEPT !.atEnd = TRUE]

\* Every setting is compared with the configuration first.
ConfigureDStake ==
  LET setOnce(contract, name, value) ==
        Unless(Is(contract, name, value), Set(Deployer, contract, "ADMIN", name, value))
      adapterSet == Is(Router, "adapter", Adapter)
  IN [Script("configure_dstake", {"dStakeConfiguration", "dStake"}, <<"dStakeCore", "dStakeAdapters">>,
        WithoutDStakeConfig
        \o <<Require(Recorded(Wrapper)), Get(Vault), Get(Router), Get(Token),
             setOnce(Token, "router", Router),
             setOnce(Token, "collateral vault", Vault),
             Unless(Is(Token, "withdrawal fee", "configured"),
                    Set(Deployer, Token, "FEE_MANAGER", "withdrawal fee", "configured")),
             [setOnce(Vault, "router", Router) EXCEPT !.sets = @ \cup {Has(Vault, "ROUTER", Router)}],
             When(Recorded(Adapter), Unless(adapterSet, Require(Unset(Router, "adapter")))),
             When(Recorded(Adapter), setOnce(Router, "adapter", Adapter)),
             Unless(Has(Router, "COLLATERAL_EXCHANGER", Governance),
                    Grant(Deployer, Router, "COLLATERAL_EXCHANGER", Governance)),
             setOnce(Router, "default asset", Wrapper),
             Undefined>>) EXCEPT !.atEnd = TRUE]

\* migrateRoles: for each role, while the deployer is admin: grant, then revoke.
MigrateRoles(contract, roles) ==
  ForEach(roles, LAMBDA role :
    <<Note(Has(contract, "ADMIN", Deployer), "admin for " \o role \o contract),
      IfNoted("admin for " \o role \o contract,
              Unless(Has(contract, role, Governance), Grant(Deployer, contract, role, Governance))),
      IfNoted("admin for " \o role \o contract,
              When(Has(contract, role, Deployer), Revoke(Deployer, contract, role, Deployer)))>>)

TransferDStakeRoles ==
  [Script("transfer_dstake_roles_to_multisig", {"dStakeRoleTransfer", "postDStake"}, <<"dStakeConfiguration">>,
     (IF Mainnet THEN <<Get(Token)>> \o MigrateRoles(Token, <<"FEE_MANAGER", "ADMIN">>)
                      \o MigrateRoles(Vault, <<"ADMIN">>) \o MigrateRoles(Router, <<"ADMIN">>)
      ELSE <<>>)
     \o <<Return("true")>>) EXCEPT !.atEnd = TRUE]

\* A local network configures vesting once the token is recorded; elsewhere its address may not be empty.
VestingNft ==
  Script("ERC20VestingNFT", {"dstake_nft_vesting"}, <<"dStake">>,
    (IF VestingConfigured THEN <<>> ELSE <<Undefined>>)
    \o (IF Local THEN <<DoneIf(Missing(Token))>> ELSE <<>>)
    \o <<DoneIf(Recorded("ERC20VestingNFT")), Require(Recorded(Token)),
         DeployWith("ERC20VestingNFT", Deployer, {Has("ERC20VestingNFT", "owner", Governance)}),
         Return("true")>>)

LendingBalanceChecker ==
  Script("DLendBalanceChecker", {"dLendBalanceChecker", "fxtl"}, <<Provider>>,
    <<Get(Provider), Require(Is(Provider, "pool", "yes")), Deploy("DLendBalanceChecker", Deployer),
      Return("true")>>)

VaultBalanceChecker ==
  Script("deploy_erc4626_balance_checker_sdusd", {"ERC4626BalanceChecker", "sdUSD", "fxtl-balance-checkers"},
         <<"dStakeCore">>,
    <<When(Recorded("ERC4626BalanceChecker_sdUSD"), Return("true")), Get(Token),
      Deploy("ERC4626BalanceChecker_sdUSD", Deployer), Return("true")>>)

WrapperScripts ==
  <<StaticATokenFactory, StaticATokenWrappers, ConfigureStaticATokenWrappers, CheckStaticATokenStatus>>
DStakeScripts ==
  <<DStakeCore, DStakeAdapters, DStakeRewards, ConfigureDStake, TransferDStakeRoles>>
=============================================================================
