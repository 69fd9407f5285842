------------------------------ MODULE MCUpgrade ------------------------------
(***************************************************************************)
(* The upgrades of Fraxtal mainnet, with what goes wrong on the way: where *)
(* each starts.  They find dUSD, the vault, the pool's ACL and its         *)
(* provider in the hands of the Safe.                                      *)
(***************************************************************************)
EXTENDS UpgradeProperties

BaseFacts ==
  {Recorded(n) : n \in {"Issuer", "Redeemer", AmoManager, "dUSD_RedeemerWithFees", Vault,
                        Aggregator, HardPeg}}
  \cup {Has(c, "ADMIN", Safe) : c \in {Token, Vault}}
  \cup {Has(Vault, Withdrawer, w) : w \in {"Redeemer", "dUSD_RedeemerWithFees", AmoManager}}
  \cup {Is(Aggregator, "dUSD", HardPeg)}

\* Before 22: the first issuer and redeemers.
V2Facts == BaseFacts \cup {Has(Token, "MINTER", "Issuer")}

\* Before 23: issuer V2 and redeemer V2 in use, one asset paused.
AfterV2 ==
  (BaseFacts \ {Has(Vault, Withdrawer, w) : w \in {"Redeemer", "dUSD_RedeemerWithFees"}})
  \cup {Recorded("IssuerV2"), Recorded("RedeemerV2"), Has("IssuerV2", "ADMIN", Safe),
        Has("RedeemerV2", "ADMIN", Safe), Has(Vault, Withdrawer, "RedeemerV2"),
        Has(Vault, "COLLATERAL_MANAGER", Safe), Is("IssuerV2", "paused listed", "yes")}
V2_2Facts ==
  AfterV2 \cup {Has("IssuerV2", "PAUSER", Safe), Has(Token, "MINTER", "IssuerV2")}
  \cup {Has(Aggregator, "ORACLE_MANAGER", a) : a \in {Safe, Deployer}}

\* Before 24 and 25: the pool belongs to the Safe, and its libraries are recorded.
LendingFacts ==
  {Has(Token, "MINTER", "IssuerV2_2"), Has(Vault, Withdrawer, "RedeemerV2")}
  \cup {Recorded(n) : n \in {Provider, "PoolConfigurator-Proxy", "SupplyLogic", "BorrowLogic",
      "LiquidationLogic", "EModeLogic", "BridgeLogic", "FlashLoanLogic", "PoolLogic", "CalldataLogic"}}
  \cup {Has(ACLManager, "ADMIN", Safe), Has(ACLManager, "POOL_ADMIN", Safe), Has(Provider, "owner", Safe)}

(***************************************************************************)
(* The upgrades in the order of their directories, and where each starts.  *)
(* The ids of the others are taken for recorded: those before it have run, *)
(* and those after it are not there yet.                                   *)
(***************************************************************************)
LendingScripts == <<UpdateRateStrategy>> \o SecurityScripts
UpgradeScripts ==
  LET inOrder == V2Scripts \o V2_2Scripts \o LendingScripts IN SubSeq(inOrder, 1, Len(inOrder))
IdsOf(scripts) == {scripts[i].id : i \in DOMAIN scripts}
AllIds == IdsOf(UpgradeScripts)

Before(scripts, facts) ==
  [world |-> WorldOf(KeysOf(StepsOfAll(scripts), facts), facts), recorded |-> AllIds \ IdsOf(scripts)]

BeforeV2 == Before(V2Scripts, V2Facts)
BeforeV2_2 == Before(V2_2Scripts, V2_2Facts)
BeforeLending == Before(LendingScripts, LendingFacts)

\* Before 22, the deployer still an admin of dUSD.
BeforeV2ByAdmin == Before(V2Scripts, V2Facts \cup {Has(Token, "ADMIN", Deployer)})

\* Before 23, the deployer no oracle manager (23/01 asks: "deployer lacks ORACLE_MANAGER_ROLE").
BeforeV2_2Queued == Before(V2_2Scripts, V2_2Facts \ {Has(Aggregator, "ORACLE_MANAGER", Deployer)})

EachUpgrade == {BeforeV2, BeforeV2_2, BeforeLending}
V2ByAdmin == {BeforeV2ByAdmin}
V2_2Queued == {BeforeV2_2Queued}

\* The two scripts of 22, which share no contract but the chain, each after the other has run.
IssuerMoved ==
  (V2Facts \ {Has(Token, "MINTER", "Issuer")})
  \cup {Recorded("IssuerV2"), Has("IssuerV2", "ADMIN", Safe), Has(Token, "MINTER", "IssuerV2")}
RedeemerMoved ==
  (V2Facts \ {Has(Vault, Withdrawer, w) : w \in {"Redeemer", "dUSD_RedeemerWithFees"}})
  \cup {Recorded("RedeemerV2"), Has("RedeemerV2", "ADMIN", Safe), Has(Vault, Withdrawer, "RedeemerV2")}
BeforeIssuerV2 == Before(<<SetupIssuerV2>>, RedeemerMoved)
BeforeRedeemerV2 == Before(<<SetupRedeemerV2>>, IssuerMoved)
EachScript == {BeforeIssuerV2, BeforeRedeemerV2, BeforeV2_2, BeforeLending}

\* The starts are what the theorems ask of them, of the upgrades whose callers the Safe is not.
ASSUME StartsAssumption ==
  \A start \in EachUpgrade \cup EachScript :
    /\ ReadyToHandOver(start, Token, "MINTER", IssuerLine)
    /\ ReadyToHandOver(start, Vault, Withdrawer, RedeemerLine)
    /\ \A c \in Governed : ReadyToMoveAdmin(start, c)
    /\ ReadyToRetire(start, "22_1_setup_issuerv2", Token, "MINTER", "Issuer", "IssuerV2")
    /\ \A old \in Redeemers \ {"RedeemerV2"} :
         ReadyToRetire(start, "22_2_setup_redeemerv2", Vault, Withdrawer, old, "RedeemerV2")
=============================================================================
