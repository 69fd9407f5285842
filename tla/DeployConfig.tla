---------------------------- MODULE DeployConfig ----------------------------
(***************************************************************************)
(* The network the scripts are run on, and what its configuration file     *)
(* says.  A list of assets of the configuration is stood for by one or two *)
(* members: every script treats all members alike.                         *)
(***************************************************************************)
EXTENDS DeploySteps, Sequences, Naturals

CONSTANTS Network,
          NetworkTags   \* the tags hardhat.config.ts gives the network

Local == Network = "local"
Testnet == Network = "testnet"
Mainnet == Network = "mainnet"

\* Named accounts: dexDeployer, lendingDeployer, dusdDeployer, testTokenDeployer and every
\* lending admin are the first account; on mainnet the bots and CurveHelper have another.
Deployer == "deployer"
BotDeployer == IF Mainnet THEN "botDeployer" ELSE Deployer

\* walletAddresses.governanceMultisig, and lending.incentivesEmissionManager.
Governance == IF Mainnet THEN "safe" ELSE Deployer

\* The parts of a configuration file a network may lack.
DexConfigured == ~Mainnet
CurveBotConfigured == ~Local
OdosBotConfigured == Mainnet
UniswapBotConfigured == FALSE
DLoopConfigured == Testnet
VestingConfigured == ~Mainnet
UiFeedConfigured == ~Local

\* Price feeds by the way they are wrapped.
PlainFeeds == CASE Local -> <<>> [] Testnet -> <<"DAI">> [] Mainnet -> <<"wfrxETH">>
ThresholdFeeds == CASE Local -> <<>> [] Testnet -> <<"FRAX">> [] Mainnet -> <<"frxUSD", "DAI">>
CompositeFeeds == CASE Local -> <<>> [] Testnet -> <<"sFRAX">> [] Mainnet -> <<"sfrxETH", "sfrxUSD">>
CurveFeeds == IF Mainnet THEN <<"FXB20291231">> ELSE <<>>
DexFeeds == IF Local THEN <<"SFRAX", "WETH9">> ELSE <<>>

\* The reserves 03_lending/02_market/09 finds, in the chunks of three initReserves takes.
Reserves ==
  CASE Local -> << <<"WETH9", "dUSD", "FXS">>, <<"SFRAX", "SFRXETH">> >>
    [] Testnet -> << <<"wfrxETH", "dUSD", "sFRAX">>, <<"FXS", "sfrxETH">> >>
    [] Mainnet -> << <<"wfrxETH", "dUSD", "sfrxETH">>, <<"sUSDe", "FXB20291231">> >>
RateStrategies ==
  <<"HighLiquidityVolatile", "dUSD">> \o (IF Mainnet THEN <<"dUSD_FraxtalMainnet_V2">> ELSE <<>>)

\* hardhat-deploy runs a script once: true is recorded under its id.
Guarded(condition, steps) ==
  IF condition THEN steps \o <<Return("true")>> ELSE <<Return("false")>>
=============================================================================
