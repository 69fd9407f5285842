---------------------------- MODULE DeployOracles ----------------------------
(***************************************************************************)
(* Scripts that deploy the oracle aggregator and its wrappers, configure   *)
(* feeds, and point the aggregator to the wrappers: deploy/02, 08, 09, 10, *)
(* 11, 12 (but the reserves) and 16_add_new_reserve (but the reserves).    *)
(***************************************************************************)
EXTENDS DeployConfig

Aggregator == "OracleAggregator"
HardPeg == "HardPegOracleWrapper"
Api3 == "API3Wrapper"
Thresholding == "API3WrapperWithThresholding"
Composite == "API3CompositeWrapperWithThresholding"
Curve == "CurveAPI3CompositeWrapperWithThresholding"
Manager == "ORACLE_MANAGER"

\* A wrapper's constructor makes its deployer admin and oracle manager.
DeployManaged(name) ==
  DeployWith(name, Deployer,
             {Has(name, "ADMIN", Deployer), Has(name, Manager, Deployer)})

Configure(contract, name, value) == Set(Deployer, contract, Manager, name, value)

SetProxies(feeds) == ForEach(feeds, LAMBDA a : <<Configure(Api3, a, "proxy")>>)
SetThresholdFeeds(feeds) ==
  ForEach(feeds, LAMBDA a : <<Configure(Thresholding, a, "proxy"),
                              Configure(Thresholding, "threshold " \o a, "yes")>>)
AddCompositeFeeds(feeds) == ForEach(feeds, LAMBDA a : <<Configure(Composite, a, "proxy")>>)

\* CurveOracleWrapper: setAssetConfig, then setCompositeFeed.
SetCurveFeeds(feeds) ==
  ForEach(feeds, LAMBDA a : <<Configure(Curve, "pool " \o a, "yes"), Configure(Curve, a, "proxy")>>)

\* The wrapper's price is not zero, then the aggregator is pointed to it.
PointTo(wrapper, feeds) ==
  <<Get(wrapper)>>
  \o ForEach(feeds, LAMBDA a : <<Require(Is(wrapper, a, "proxy")), Configure(Aggregator, a, wrapper)>>)

DexOracleWrapper ==
  Script("DexOracleWrapper", {"oracle-aggregator", "oracle-wrapper", "dex-oracle-wrapper"}, <<>>,
    Guarded(Local, <<Get("StaticOracleWrapper"), Deploy("DexOracleWrapper", Deployer),
                     Get("DexOracleWrapper")>>))

HardPegOracleWrapper ==
  Script(HardPeg, {"oracle-aggregator", "oracle-wrapper", "hard-peg-oracle-wrapper"}, <<>>,
    Guarded(TRUE, <<DeployManaged(HardPeg)>>))

Api3OracleWrappers ==
  Script(Api3, {"oracle-aggregator", "oracle-wrapper", "api3-oracle-wrapper"}, <<>>,
    Guarded(TRUE, <<DeployManaged(Api3)>> \o SetProxies(PlainFeeds)
                  \o <<DeployManaged(Composite)>> \o AddCompositeFeeds(CompositeFeeds)))

OracleAggregator ==
  Script(Aggregator, {"oracle-aggregator"}, <<"oracle-wrapper">>,
    Guarded(TRUE, <<DeployManaged(Aggregator), Get(HardPeg), Configure(Aggregator, "dUSD", HardPeg)>>))

\* On a local network the price of the DEX wrapper is not checked.
PointDexOracleWrappers ==
  Script("POINT_DEX_ORACLE_WRAPPER", {"point-dex-oracle-wrapper", "oracle-aggregator"}, <<Aggregator>>,
    Guarded(Local,
      <<Get(Aggregator), Get("DexOracleWrapper")>>
      \o ForEach(DexFeeds, LAMBDA a : <<Configure(Aggregator, a, "DexOracleWrapper")>>)))

PointApi3OracleWrappers ==
  Script("POINT_API3_ORACLE_WRAPPER", {"point-api3-oracle-wrapper", "oracle-aggregator"}, <<Aggregator>>,
    Guarded(TRUE, <<Get(Aggregator)>> \o PointTo(Api3, PlainFeeds) \o PointTo(Composite, CompositeFeeds)))

\* 08: the first Curve wrapper.
CurveOracleWrapper ==
  Script(Curve, {"oracle-aggregator", "oracle-wrapper", "curve-oracle-wrapper"}, <<>>,
    Guarded(TRUE, <<DeployManaged(Curve)>> \o SetCurveFeeds(CurveFeeds)))

PointCurveOracleWrappers ==
  Script("PointCurveOracleWrapper", {"point-curve-oracle-wrapper", "oracle-aggregator"}, <<Aggregator>>,
    Guarded(TRUE, <<Get(Aggregator)>> \o PointTo(Curve, CurveFeeds)))

\* 09: throws unless the configuration lists USDT as a plain feed.
AddUsdt ==
  Script("PointApi3UsdtOracleWrapper", {"point-api3-oracle-wrapper", "oracle-aggregator", "point-api3-usdt"},
         <<Api3, Aggregator>>,
    Guarded(Mainnet,
      <<Require(Is("config", "USDT", "plain")), Get(Api3), Configure(Api3, "USDT", "proxy"),
        Require(Is(Api3, "USDT", "proxy")), Get(Aggregator), Configure(Aggregator, "USDT", Api3),
        Require(Is(Aggregator, "USDT", Api3))>>))

\* 10: the same names, so wrappers already recorded are kept.
NewApi3Wrappers ==
  Script("Api3MigrationSetupNewWrappers",
         {"api3-migration-202501", "api3-wrapper-deployment-202501", "oracle-wrapper", "api3-oracle-wrapper"}, <<>>,
    Guarded(TRUE,
      <<DeployManaged(Api3)>> \o SetProxies(PlainFeeds)
      \o <<DeployManaged(Thresholding)>> \o SetThresholdFeeds(ThresholdFeeds)
      \o <<DeployManaged(Composite)>> \o AddCompositeFeeds(CompositeFeeds)
      \o <<DeployManaged(Curve)>> \o SetCurveFeeds(CurveFeeds)))

PointNewApi3Wrappers ==
  Script("Api3MigrationPointNewWrappers",
         {"api3-migration-202501", "api3-pointing-202501", "oracle-aggregator", "point-api3-oracle-wrapper"},
         <<"Api3MigrationSetupNewWrappers", Aggregator>>,
    Guarded(TRUE,
      <<Get(Aggregator)>> \o PointTo(Api3, PlainFeeds) \o PointTo(Thresholding, ThresholdFeeds)
      \o PointTo(Composite, CompositeFeeds) \o PointTo(Curve, CurveFeeds)))

\* 11: repoints the proxy of one feed.
UpdateSfrxUsdWrapper ==
  Script("UpdateSfrxUSDOracleWrapper", {"oracle-wrapper", "api3-oracle-wrapper", "update-sfrax-to-sfrxUSD"}, <<>>,
    Guarded(Mainnet, <<Get(Composite)>> \o AddCompositeFeeds(<<"sfrxUSD">>)))

\* 12: crvUSD, scrvUSD and FXB20551231 stand for the assets added.
ConfigureWrappers202502 ==
  Script("DeployNewOracleWrappers202502", {"oracle-wrapper", "api3-oracle-wrapper", "curve-oracle-wrapper"}, <<>>,
    Guarded(Mainnet,
      <<Get(Thresholding)>> \o SetThresholdFeeds(<<"crvUSD">>)
      \o <<Get(Composite)>> \o AddCompositeFeeds(<<"scrvUSD">>)
      \o <<Get(Curve)>> \o SetCurveFeeds(<<"FXB20551231">>)))

PointOracleAggregator202502 ==
  Script("PointNewOracleWrappers202502",
         {"oracle-aggregator", "point-api3-oracle-wrapper", "point-curve-oracle-wrapper"},
         <<"DeployNewOracleWrappers202502", Aggregator>>,
    Guarded(Mainnet,
      <<Get(Aggregator)>> \o PointTo(Thresholding, <<"crvUSD">>)
      \o PointTo(Composite, <<"scrvUSD">>) \o PointTo(Curve, <<"FXB20551231">>)))

\* 16: the deployer must be oracle manager.
ConfigureCurveWrapper2026 ==
  Script("DeployCurveOracleWrapperFXB20261231",
         {"oracle-wrapper", "api3-oracle-wrapper", "curve-oracle-wrapper", "fxb-2026"}, <<>>,
    Guarded(Mainnet, <<Get(Curve), Require(Has(Curve, Manager, Deployer))>>
                     \o SetCurveFeeds(<<"FXB20261231">>)))

\* The price must lie between 0.5 and 1 USD: any price of a configured feed does here.
PointOracleAggregator2026 ==
  Script("PointCurveOracleWrapperFXB20261231",
         {"oracle-aggregator", "point-api3-oracle-wrapper", "point-curve-oracle-wrapper", "fxb-2026"},
         <<"DeployCurveOracleWrapperFXB20261231", Aggregator>>,
    Guarded(Mainnet, <<Get(Aggregator)>> \o PointTo(Curve, <<"FXB20261231">>)))
=============================================================================
