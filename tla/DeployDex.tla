------------------------------ MODULE DeployDex ------------------------------
(***************************************************************************)
(* Scripts of deploy/00_local and deploy/01_dex: the mock tokens of a      *)
(* local network and the Uniswap v3 fork.                                  *)
(***************************************************************************)
EXTENDS DeployConfig

(***************************************************************************)
(* A mint, a deposit or a transfer, which adds to what earlier runs did:   *)
(* the value tells once from more than once.                               *)
(***************************************************************************)
AddsTo(by, contract, name) ==
  LET adds(value) == Tx(by, Anyone, {Is(contract, name, value)})
  IN << When(Is(contract, name, "once"), adds("again")),
        When(Unset(contract, name), adds("once")) >>

WETH9Address == IF Local THEN <<Get("WETH9")>> ELSE <<>>
BaseTokenAddress == IF Local THEN <<Get("dUSD")>> ELSE <<>>
Permit2Address == IF Local THEN <<Get("Permit2")>> ELSE <<>>

DeployWETH9 ==
  Script("WETH9", {"mock"}, <<>>, Guarded(Local, <<Deploy("WETH9", Deployer)>>))

MintWETH9 ==
  Script("WETH9-mint", {"mock"}, <<>>,
    Guarded(Local, <<When(Missing("WETH9"), Return("false"))>>
                   \o AddsTo(Deployer, "WETH9", "deposit")
                   \o AddsTo(Deployer, "WETH9", "half sent on")))

\* deployTestERC20StablecoinUpgradeableTokenAndMint: the deployer makes itself a minter first.
DeployStablecoinAndMint(symbol) ==
  <<DeployWith(symbol, Deployer, {Has(symbol, "ADMIN", Deployer)}),
    Grant(Deployer, symbol, "MINTER", Deployer)>>
  \o AddsTo(Deployer, symbol, "minted to deployer")
  \o AddsTo(Deployer, symbol, "minted to testTokenOwner1")

\* deployTestERC20StablecoinUpgradeableTokens
TestStablecoins(symbols) == ForEach(symbols, DeployStablecoinAndMint)

DeployMintTestDusd ==
  Script("DeployMint-TestDUSD", {"mock", "test-token-mint"}, <<>>,
    Guarded(Local, TestStablecoins(<<"dUSD">>)))

\* deployTestTokenAndMint
DeployTestTokenAndMint(symbol) ==
  <<Deploy(symbol, Deployer)>>
  \o AddsTo(Deployer, symbol, "minted to deployer")
  \o AddsTo(Deployer, symbol, "minted to testTokenOwner1")

\* deployTestTokens
TestTokens(symbols) == ForEach(symbols, DeployTestTokenAndMint)

DeployMintTestFXS ==
  Script("DeployMint-TestFXS", {"mock", "test-token-mint"}, <<>>, Guarded(Local, TestTokens(<<"FXS">>)))
DeployMintTestSFRAX ==
  Script("DeployMint-TestSFRAX", {"mock", "test-token-mint"}, <<>>, Guarded(Local, TestTokens(<<"SFRAX">>)))
DeployMintTestSFRXETH ==
  Script("DeployMint-TestSFRXETH", {"mock", "test-token-mint"}, <<>>,
    Guarded(Local, TestTokens(<<"SFRXETH">>)))

DeployERC4626Token == <<Get("SFRAX"), Deploy("vSFRAX", Deployer)>>
DeployMockERC4626 ==
  Script("DeployMockERC4626", {"mock", "mock-erc4626"}, <<>>, Guarded(Local, DeployERC4626Token))

LocalScripts ==
  <<DeployWETH9, MintWETH9, DeployMintTestDusd, DeployMintTestFXS, DeployMintTestSFRAX,
    DeployMintTestSFRXETH, DeployMockERC4626>>

DexScript(id, tags, needed) ==
  Script(id, {"dex"} \cup tags, <<>>, Guarded(DexConfigured, needed \o <<Deploy(id, Deployer)>>))

Factory == DexScript("UniswapV3Factory", {"dex-core"}, <<>>)
CurveHelper ==
  Script("CurveHelper", {"dex", "dex-core", "curve-helper"}, <<>>,
    Guarded(DexConfigured, <<Deploy("CurveHelper", BotDeployer)>>))
Router == DexScript("SwapRouter", {"dex-periphery"}, WETH9Address \o <<Get("UniswapV3Factory")>>)
NftDescriptor == DexScript("NFTDescriptor", {"dex-periphery"}, <<>>)
PositionDescriptor ==
  DexScript("NonfungibleTokenPositionDescriptor", {"dex-periphery"},
            WETH9Address \o <<Get("NFTDescriptor")>>)
PositionManager ==
  DexScript("NonfungiblePositionManager", {"dex-periphery"},
            WETH9Address \o <<Get("UniswapV3Factory"), Get("NonfungibleTokenPositionDescriptor")>>)
Multicall2 == DexScript("UniswapInterfaceMulticall", {"dex-periphery"}, <<>>)
TickLens == DexScript("TickLens", {"dex-periphery"}, <<>>)
QuoterV2 == DexScript("QuoterV2", {"dex-periphery"}, WETH9Address \o <<Get("UniswapV3Factory")>>)

\* Not on a local network.
ProxyAdmin ==
  Script("ProxyAdmin", {"dex", "dex-periphery"}, <<>>,
    Guarded(DexConfigured /\ ~Local, <<Deploy("ProxyAdmin", Deployer)>>))
TransparentProxyDescriptor ==
  Script("TransparentUpgradeableProxy", {"dex", "dex-periphery"}, <<>>,
    Guarded(DexConfigured /\ ~Local,
      <<Get("NonfungibleTokenPositionDescriptor"), Get("ProxyAdmin"),
        Deploy("TransparentUpgradeableProxy", Deployer)>>))

\* deployPool: creating and initializing is idempotent, and awaited.
DeployPool ==
  <<Get("NonfungiblePositionManager"),
    Awaited(Tx(Deployer, Anyone, {Is("DUSD pool", "initialized", "yes")})),
    Get("UniswapV3Factory")>>

\* addPoolLiquidity: two approvals and a mint, each awaited.
AddPoolLiquidity ==
  LET adder == "dexLiquidityAdder"
      mint == AddsTo(adder, "DUSD pool", "liquidity")
  IN <<Require(Is("DUSD pool", "initialized", "yes")), Get("NonfungiblePositionManager"),
       Awaited(Tx(adder, Anyone, {Is("token0", "allowance", "max")})),
       Awaited(Tx(adder, Anyone, {Is("token1", "allowance", "max")})),
       Awaited(mint[1]), Awaited(mint[2])>>

DeployAndInitializePool == DeployPool \o AddPoolLiquidity

InitPool ==
  Script("DEXInitializePools", {"dex", "dex-init"}, <<>>,
         Guarded(DexConfigured, DeployAndInitializePool))

StaticOracle == DexScript("StaticOracle", {"dex-oracle"}, <<Get("UniswapV3Factory")>>)
OracleWrapper == DexScript("StaticOracleWrapper", {"dex-oracle"}, BaseTokenAddress \o <<Get("StaticOracle")>>)
Permit2 ==
  Script("Permit2", {"dex", "dex-ui"}, <<>>,
    Guarded(DexConfigured, IF Local THEN <<Deploy("Permit2", Deployer)>> ELSE <<>>))
UniversalRouter ==
  DexScript("UniversalRouter", {"dex-ui"}, WETH9Address \o Permit2Address \o <<Get("UniswapV3Factory")>>)
MockCurveRouter ==
  Script("MockCurveRouterNgPoolsOnlyV1", {"dex-mock", "mock-curve-router"}, <<>>,
    Guarded(DexConfigured /\ Local, <<Deploy("MockCurveRouterNgPoolsOnlyV1", Deployer)>>))

DexScripts ==
  <<Factory, CurveHelper, Router, NftDescriptor, PositionDescriptor, PositionManager, Multicall2,
    TickLens, QuoterV2, ProxyAdmin, TransparentProxyDescriptor, InitPool, StaticOracle,
    OracleWrapper, Permit2, UniversalRouter, MockCurveRouter>>
=============================================================================
