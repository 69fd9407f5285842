---------------------------- MODULE DeployPeriphery ----------------------------
(***************************************************************************)
(* Scripts that deploy the liquidator bots (deploy/06) and dLOOP (19).     *)
(***************************************************************************)
EXTENDS DeployConfig

Provider == "PoolAddressesProvider"

(***************************************************************************)
(* A bot and its proxy contracts.  A flash mint bot also reads the aToken  *)
(* of dUSD; where no pool exists yet, the empty address stops the script.  *)
(***************************************************************************)
Bot(id, needed, tokens, proxies) ==
  needed \o <<Get(Provider)>> \o (IF tokens THEN <<Get("PoolDataProvider")>> ELSE <<>>)
  \o <<Deploy(id, BotDeployer), Get(id)>>
  \o (IF proxies THEN <<Set(BotDeployer, id, "owner", "proxy contract", "sfrxUSD")>> ELSE <<>>)

BotScript(id, configured, deps, needed, tokens, proxies) ==
  LET bot == Bot(id, needed, tokens, proxies)
  IN Script(id, {"liquidator-bot"}, deps,
       Guarded(configured,
         ForEach(bot, LAMBDA s : IF s.note = New(id)
                                 THEN <<[s EXCEPT !.sets = @ \cup {Has(id, "owner", BotDeployer)}]>>
                                 ELSE <<s>>)))

UniswapFlashMintBot ==
  BotScript("FlashMintLiquidatorAaveBorrowRepayUniswapV3", UniswapBotConfigured, <<>>,
            <<Get("SwapRouter")>>, TRUE, FALSE)
UniswapFlashLoanBot ==
  BotScript("FlashLoanLiquidatorAaveBorrowRepayUniswapV3", UniswapBotConfigured, <<>>,
            <<Get("SwapRouter")>>, FALSE, FALSE)
CurveFlashMintBot ==
  BotScript("FlashMintLiquidatorAaveBorrowRepayCurve", CurveBotConfigured, <<"curve-helper">>,
            <<Get("CurveHelper")>>, TRUE, Mainnet)
CurveFlashLoanBot ==
  BotScript("FlashLoanLiquidatorAaveBorrowRepayCurve", CurveBotConfigured, <<"curve-helper">>,
            <<Get("CurveHelper")>>, FALSE, Mainnet)
OdosFlashMintBot ==
  BotScript("FlashMintLiquidatorAaveBorrowRepayOdos", OdosBotConfigured, <<>>, <<>>, TRUE, TRUE)
OdosFlashLoanBot ==
  BotScript("FlashLoanLiquidatorAaveBorrowRepayOdos", OdosBotConfigured, <<>>, <<>>, FALSE, TRUE)

BotScripts ==
  <<UniswapFlashMintBot, UniswapFlashLoanBot, CurveFlashMintBot, CurveFlashLoanBot,
    OdosFlashMintBot, OdosFlashLoanBot>>

\* Without a vault in the configuration the script returns undefined.
DeployDLoopCore(vault) == <<Get(Provider), Deploy("DLoopCoreDLend-" \o vault, Deployer)>>
DLoopCoreVaults ==
  Script("DLoopCoreDLend", {"dloop", "core", "dlend"}, <<Provider>>,
    Guarded(DLoopConfigured, DeployDLoopCore("sFRAX")))

DLoopScript(id, venue, part, deps, steps) ==
  Script(id, {"dloop", "periphery", venue, part}, deps, Guarded(DLoopConfigured, steps))

UniswapSwapLogic ==
  DLoopScript("UniswapV3SwapLogic", "uniswap-v3", "swap-logic", <<>>,
              <<Deploy("UniswapV3SwapLogic", Deployer)>>)
UniswapDepositor ==
  DLoopScript("DLoopDepositorUniswapV3", "uniswap-v3", "depositor", <<"UniswapV3SwapLogic">>,
              <<Get("UniswapV3SwapLogic"), Get("SwapRouter"), Deploy("DLoopDepositorUniswapV3", Deployer)>>)
UniswapWithdrawer ==
  DLoopScript("DLoopWithdrawerUniswapV3", "uniswap-v3", "withdrawer", <<"UniswapV3SwapLogic">>,
              <<Get("UniswapV3SwapLogic"), Get("SwapRouter"), Deploy("DLoopWithdrawerUniswapV3", Deployer)>>)
CurveSwapLogic ==
  DLoopScript("CurveSwapLogic", "curve", "swap-logic", <<"CurveHelper">>,
              <<Deploy("CurveHelper", Deployer), Get("CurveHelper"), Deploy("CurveSwapLogic", Deployer)>>)
CurveDepositor ==
  DLoopScript("DLoopDepositorCurve", "curve", "depositor", <<"CurveSwapLogic">>,
              <<Get("CurveSwapLogic"), Deploy("DLoopDepositorCurve", Deployer)>>)
CurveWithdrawer ==
  DLoopScript("DLoopWithdrawerCurve", "curve", "withdrawer", <<"CurveSwapLogic">>,
              <<Get("CurveSwapLogic"), Deploy("DLoopWithdrawerCurve", Deployer)>>)
OdosSwapLogic ==
  DLoopScript("OdosSwapLogic", "odos", "swap-logic", <<>>, <<Deploy("OdosSwapLogic", Deployer)>>)
OdosDepositor ==
  DLoopScript("DLoopDepositorOdos", "odos", "depositor", <<"OdosSwapLogic">>,
              <<Get("OdosSwapLogic"), Deploy("DLoopDepositorOdos", Deployer)>>)
OdosWithdrawer ==
  DLoopScript("DLoopWithdrawerOdos", "odos", "withdrawer", <<"OdosSwapLogic">>,
              <<Get("OdosSwapLogic"), Deploy("DLoopWithdrawerOdos", Deployer)>>)

DLoopScripts ==
  <<DLoopCoreVaults, UniswapSwapLogic, UniswapDepositor, UniswapWithdrawer, CurveSwapLogic,
    CurveDepositor, CurveWithdrawer, OdosSwapLogic, OdosDepositor, OdosWithdrawer>>
=============================================================================
