------------------------------ MODULE DeployDusd ------------------------------
(***************************************************************************)
(* Scripts that deploy dUSD: its token on a local network, the collateral  *)
(* vault, the AMO manager, issuer and redeemer (deploy/04), the AMO vaults *)
(* (05) and the redeemer with fees (15).                                   *)
(***************************************************************************)
EXTENDS DeployConfig

Vault == "CollateralHolderVault"
Aggregator == "OracleAggregator"
AmoManager == "AmoManager"
CurveAmoVault == "CurveStableSwapNGAmoVault"
RedeemerWithFees == "dUSD_RedeemerWithFees"

\* The dUSD script before has deployed and granted already: no mint here.
DStableTokens ==
  Script("deploy_dstable_tokens", {"dstable", "dStable", "dstable-tokens", "mock"}, <<>>,
    (IF Local THEN <<DeployWith("dUSD", Deployer, {Has("dUSD", "ADMIN", Deployer)}),
                     Grant(Deployer, "dUSD", "MINTER", Deployer)>>
     ELSE <<>>)
    \o <<Return("true")>>)

CollateralVault ==
  Script("dUSD:CollateralHolderVault", {"dusd"}, <<Aggregator>>,
    <<Get(Aggregator),
      DeployWith(Vault, Deployer,
                 {Has(Vault, "ADMIN", Deployer), Has(Vault, "COLLATERAL_MANAGER", Deployer),
                  Has(Vault, "COLLATERAL_WITHDRAWER", Deployer)}),
      Return("true")>>)

AmoManagerScript ==
  Script("dUSD:AmoManager", {"dusd"}, <<"dUSD", Vault>>,
    <<Get(Vault), Get(Aggregator),
      DeployWith(AmoManager, Deployer, {Has(AmoManager, "ADMIN", Deployer)}),
      Return("true")>>)

Issuer ==
  Script("dUSD:Issuer", {"dusd"}, <<Vault, "dUSD", Aggregator, AmoManager>>,
    <<Get(Aggregator), Get(Vault), Get(AmoManager),
      DeployWith("Issuer", Deployer, {Has("Issuer", "ADMIN", Deployer)}),
      Return("true")>>)

Redeemer ==
  Script("dUSD:Redeemer", {"dusd"}, <<Vault, "dUSD", Aggregator>>,
    <<Get(Aggregator), Get(Vault),
      DeployWith("Redeemer", Deployer, {Has("Redeemer", "ADMIN", Deployer)}),
      Grant(Deployer, Vault, "COLLATERAL_WITHDRAWER", "Redeemer"),
      Return("true")>>)

\* enableAmoVault reverts if the vault is enabled; the script does not test for it.
CurveAmoVaultScript ==
  Script("dUSD:CurveStableSwapNGAmoVault", {"dusd", "amo_vault", "curve_stableswapng"},
         <<"dUSD", AmoManager, Aggregator>>,
    <<Get(AmoManager), Get(Aggregator),
      DeployWith(CurveAmoVault, Deployer, {Has(CurveAmoVault, "ADMIN", Deployer)}),
      Get(CurveAmoVault),
      Needing(Unset(AmoManager, CurveAmoVault),
              Set(Deployer, AmoManager, "ADMIN", CurveAmoVault, "enabled")),
      Return("true")>>)

\* No network configures the Uniswap vault.
UniswapAmoVault ==
  Script("dUSD:UniV3AmoVault", {"dusd", "amo_vault", "uniswap_v3"},
         <<"dUSD", AmoManager, "AaveOracle", "UniswapV3Pool", "NonfungiblePositionManager", "SwapRouter">>,
         <<Return("true")>>)

DusdScripts ==
  <<DStableTokens, CollateralVault, AmoManagerScript, Issuer, Redeemer, CurveAmoVaultScript,
    UniswapAmoVault>>

\* 15/00: mocks of a local network.
TestRedeemer ==
  Script("test_redeemer_with_fees_deployment", {"test-redeemer", "redeemerWithFees"}, <<"dstable-tokens">>,
    (IF Local THEN <<Deploy("MockUSDOracle", Deployer), Deploy("MockDUSDVault", Deployer),
                     When(Missing("dUSD"), Return("true")),
                     Deploy("TestDUSDRedeemerWithFees", Deployer)>>
     ELSE <<>>)
    \o <<Return("true")>>)

\* 15/01 ends at once if the redeemer is recorded.
DeployRedeemerWithFees ==
  Script("deploy_redeemer_with_fees", {"dstable", "redeemerWithFees"}, <<Vault, Aggregator>>,
    <<Get(Vault), Get(Aggregator),
      When(Recorded(RedeemerWithFees), Return("true")),
      DeployWith(RedeemerWithFees, Deployer,
                 {Has(RedeemerWithFees, "ADMIN", Deployer),
                  Has(RedeemerWithFees, "REDEMPTION_MANAGER", Deployer)}),
      When(Has(Vault, "ADMIN", Deployer),
           Unless(Has(Vault, "COLLATERAL_WITHDRAWER", RedeemerWithFees),
                  Grant(Deployer, Vault, "COLLATERAL_WITHDRAWER", RedeemerWithFees))),
      Return("true")>>)

\* 15/03: one collateral stands for the ones with a fee of their own; a failure is only logged.
ConfigureRedeemerFees ==
  [Script("configure_redeemer_fees", {"dstable", "configure", "redeemerWithFees"}, <<RedeemerWithFees>>,
     <<Get(RedeemerWithFees),
       Unless(Is(RedeemerWithFees, "fee", "set"),
              Caught(Awaited(Set(Deployer, RedeemerWithFees, "ADMIN", "fee", "set")))),
       Return("true")>>) EXCEPT !.atEnd = TRUE]

\* func.skip of the next two scripts: the network must have the tag.
SkipWithout(tag) == IF tag \in NetworkTags THEN <<>> ELSE <<Return("false")>>

CheckRedeemer ==
  Script("check_redeemer_deployment_status", {"dstable", "check", "redeemerWithFees"}, <<RedeemerWithFees>>,
    SkipWithout("check") \o <<Get(RedeemerWithFees), Get(Vault), Return("true")>>)

(***************************************************************************)
(* 15/05 reads who is admin before its grants: on the first run governance *)
(* is not, and the deployer keeps the role.                                *)
(***************************************************************************)
TransferRedeemerRoles ==
  LET R == RedeemerWithFees
  IN Script("transfer_redeemer_roles_to_governance", {"dstable", "governance", "redeemerWithFees"}, <<R>>,
       SkipWithout("governance")
       \o <<Get(R),
            Note(Has(R, "ADMIN", Deployer), "deployer was admin"),
            Note(Has(R, "ADMIN", Governance), "governance was admin"),
            Note(Has(R, "REDEMPTION_MANAGER", Governance), "governance was manager"),
            UnlessNoted("governance was admin", Awaited(Grant(Deployer, R, "ADMIN", Governance))),
            UnlessNoted("governance was manager",
                        Awaited(Grant(Deployer, R, "REDEMPTION_MANAGER", Governance))),
            IfNoted("deployer was admin", IfNoted("governance was admin",
                    Awaited(Renounce(Deployer, R, "ADMIN")))),
            Return("true")>>)
=============================================================================
