----------------------------- MODULE DeployScripts -----------------------------
(***************************************************************************)
(* The deploy scripts of the repository, in the order hardhat-deploy runs  *)
(* them on a network.                                                      *)
(***************************************************************************)
EXTENDS Naturals, Sequences

CONSTANTS Network,      \* "local", "testnet" or "mainnet"
          NetworkTags   \* its tags in hardhat.config.ts

Dex == INSTANCE DeployDex
Oracles == INSTANCE DeployOracles
Lending == INSTANCE DeployLending
Dusd == INSTANCE DeployDusd
Periphery == INSTANCE DeployPeriphery
Dstake == INSTANCE DeployDstake
Upgrades == INSTANCE DeployUpgrades

\* The files of deploy/, sorted by path.
SortedScripts ==
  Dex!LocalScripts \o Dex!DexScripts
  \o <<Oracles!DexOracleWrapper, Oracles!HardPegOracleWrapper, Oracles!Api3OracleWrappers,
       Oracles!OracleAggregator, Oracles!PointDexOracleWrappers, Oracles!PointApi3OracleWrappers>>
  \o Lending!LendingScripts \o Dusd!DusdScripts \o Periphery!BotScripts
  \o <<Dstake!LendingBalanceChecker,
       Oracles!CurveOracleWrapper, Oracles!PointCurveOracleWrappers, Lending!AddFXB20291231Reserve,
       Oracles!AddUsdt, Oracles!NewApi3Wrappers, Oracles!PointNewApi3Wrappers,
       Oracles!UpdateSfrxUsdWrapper, Oracles!ConfigureWrappers202502,
       Oracles!PointOracleAggregator202502, Lending!AddReserves202502,
       Lending!OdosAdapters, Lending!NewNativeTokenGateway,
       Dusd!TestRedeemer, Dusd!DeployRedeemerWithFees, Dusd!ConfigureRedeemerFees,
       Dusd!CheckRedeemer, Dusd!TransferRedeemerRoles,
       Oracles!ConfigureCurveWrapper2026, Oracles!PointOracleAggregator2026,
       Lending!AddFXB20261231Reserve>>
  \o Dstake!WrapperScripts \o Dstake!DStakeScripts
  \o <<Dstake!VestingNft>> \o Periphery!DLoopScripts \o <<Dstake!VaultBalanceChecker>>
  \o Upgrades!V2Scripts \o Upgrades!V2_2Scripts
  \o <<Upgrades!UpdateRateStrategy>> \o Upgrades!SecurityScripts

(***************************************************************************)
(* The numbers of the sorted scripts in the order they run: hardhat-deploy *)
(* puts before a script, wherever they are in deploy/, the scripts that    *)
(* have a tag it depends on, and last those that ask to run at the end.    *)
(* OrderIsComputed derives it; a dependency that is no script's tag is     *)
(* ignored there as it is by hardhat-deploy.                               *)
(***************************************************************************)
Order == <<1, 2, 3, 4, 5, 6, 7, 8, 9, 10, 11, 12, 13, 14, 15, 16, 17, 18, 19, 20, 21, 22, 23, 24, 25,
           26, 27, 65, 69, 71, 72, 82, 28, 29, 30, 31, 32, 33, 34, 35, 36, 37, 38, 39, 40,
           41, 42, 51, 43, 44, 45, 46, 47, 48, 49, 50, 52, 53, 54, 55, 56, 57, 58, 59, 60,
           61, 62, 63, 64, 66, 73, 83, 67, 68, 70, 74, 75, 76, 77, 78, 80, 81, 84, 85, 86,
           87, 89, 90, 94, 95, 96, 97, 98, 99, 100, 101, 102, 103, 104, 105, 106, 107, 108,
           109, 110, 111, 112, 113, 114, 79, 88, 91, 92, 93>>

RunOrder ==
  LET sorted == SortedScripts IN [k \in DOMAIN Order |-> sorted[Order[k]]]

\* Outside a local network the eight scripts that upgrade the system are not run with the rest.
FirstUpgrade == 102
DeployOrder ==
  [k \in 1..(Len(Order) - 8) |-> SortedScripts[Order[IF k < FirstUpgrade THEN k ELSE k + 8]]]

Enqueue(dependsOn) ==
  LET enqueue[queued \in Seq(DOMAIN dependsOn), open \in Seq(DOMAIN dependsOn)] ==
        IF open = <<>> THEN queued
        ELSE IF \E k \in DOMAIN queued : queued[k] = Head(open) THEN enqueue[queued, Tail(open)]
        ELSE enqueue[Append(enqueue[queued, dependsOn[Head(open)]], Head(open)), Tail(open)]
  IN enqueue[<<>>, [i \in DOMAIN dependsOn |-> i]]

OrderIsComputed ==
  LET sorted == SortedScripts
      all == [i \in DOMAIN sorted |-> i]
      wanted == [i \in DOMAIN sorted |-> {sorted[i].deps[d] : d \in DOMAIN sorted[i].deps}]
      tags == [i \in DOMAIN sorted |-> sorted[i].tags]
      queued == Enqueue([i \in DOMAIN sorted |->
                          SelectSeq(all, LAMBDA k : wanted[i] \cap tags[k] # {})])
  IN Order = SelectSeq(queued, LAMBDA k : ~sorted[k].atEnd) \o SelectSeq(queued, LAMBDA k : sorted[k].atEnd)
=============================================================================
