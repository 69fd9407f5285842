# A verification project for the dTRINITY Fraxtal contracts

The repository holds the contracts of dTRINITY on Fraxtal: a stablecoin (dUSD) issued against
a vault of collateral, a money market (dLEND, a fork of Aave v3), yield vaults on top of it
(dSTAKE, dLOOP, a vesting NFT), oracle wrappers, liquidators, and the scripts that deploy and
upgrade all of it. Three parts of it are modelled: the dUSD contracts after their V2 upgrade; the
scripts that deploy and upgrade every contract, with the engine that runs them and the governance
executor; and the liquidator bots with their arithmetic.

## Inventory

| component | state | operations | speaks to | what makes it correct |
|---|---|---|---|---|
| collateral vault (`CollateralVault`, `CollateralHolderVault`) | balances, list of supported collateral | `deposit`, `withdraw(To)`, two exchanges, `allow`/`disallowCollateral` | oracle, tokens | an exchange never loses value; the list is respected |
| issuer V2.2 | vault, pauses, per-asset pauses, deposit caps | `issue`, `issueUsingExcessCollateral`, setters | vault, dUSD, oracle | dUSD never outruns its cover; pauses hold |
| redeemer V2 | vault, pauses, fees (default, override, flag), receiver | `redeem`, `redeemAsProtocol`, setters | vault, dUSD | pays no more than the dUSD is worth and no less than the fee leaves |
| AMO manager V2 | vault, wallets, tolerance, peg deviation, reentrancy lock | increase/decrease supply, `borrowTo`, `repayFrom`, `repayWithPermit`, setters | vault, dUSD, debt token, oracle | every operation neutral in value; debt stands still off the peg; only allowed wallets touched |
| AMO debt token | balances, allowlist | mint to a vault, burn, transfer | — | never leaves the vaults |
| dUSD token | balances, supply, pause, frozen accounts | mint, burn, transfer, freeze, seize, flash mint | — | conservation |
| oracle aggregator and wrappers | oracle per asset | `getAssetPrice`, `setOracle` | feeds | one unit for all wrappers |
| first AMO manager, AMO vaults, earlier issuers and redeemers | allocations per vault | allocate, deallocate, transfer in and out, collect profit | dUSD, AMO vaults | allocations equal the AMO supply |
| dSTAKE (token, router, collateral vault, adapter, rewards) | shares, adapters, default asset, fee | deposit, withdraw, exchange, claim | dLEND wrapper, dUSD | previews agree with execution; no share without assets |
| vesting NFT | positions, total, caps | deposit, redeem early, withdraw matured | dSTAKE token | total equals the open positions |
| dLOOP | leveraged position | deposit, withdraw, increase/decrease leverage | lending pool | leverage within bounds |
| deploy scripts (`deploy/00`–`21`, `utils/lending/deploy`) under hardhat-deploy | chain, deployment records, `.migrations.json` | deploy, initialise, configure, grant, transfer | every contract | a killed run, run again, leads where an uninterrupted one does; scripts meet the records and roles they need |
| upgrade scripts (`deploy/22`–`25`) and `GovernanceExecutor` | roles on chain, queued Safe transactions, batches | grant, revoke, migrate, mirror pauses; queue, flush | all contracts, the Safe | never nobody with a role; old contracts retired; the migration completes |
| liquidator bots (Odos, Curve, Uniswap, combo) | memory of ignored users and its file, batches, the user at hand, a transaction in flight | filter, shuffle, read health factors, quote, liquidate, ignore, report | dLEND, swap APIs, the chain, one file | users judged by their own factors; one transaction at a time; everybody liquidatable gets a turn |
| liquidation arithmetic | – | choice of markets, amount, profit | oracle prices | repays no more than the debt, seizes no more than the collateral |
| dLEND, DEX, liquidator contracts, swap adapters, balance checkers, shared tooling | | | | vendored, glue over external markets, or reports |

Behaviours that are hard here: transactions of users, AMO operators, strategists, pausers,
administrators and the oracle interleave at will; each transaction reads balances and prices
between its own external calls; every conversion rounds down; governance changes vaults,
listings, fees and wallets by several independent transactions. Deployment runs may be killed
between any two calls and are run again; some transactions are sent and never awaited; a role
moves by calls of which some go through, some fail, and some wait for a Safe. The bots read,
wait and act over users whose health changes meanwhile, and are killed and restarted.

## The dUSD contracts

| module | models | state | actions |
|---|---|---|---|
| `FixedPoint` | `Math.mulDiv` and the two oracle conversions | – | – |
| `Ledger` | token balances and supplies, `AmoDebtToken`'s allowlist, dUSD transfer and burn | `bal`, `supply`, `allowlisted` | `SetAllowlisted`, `HolderTransfer`, `HolderBurn` |
| `CollateralVault` | `CollateralVault.sol`, `CollateralHolderVault.sol`, the oracle's prices | `price`, `supported` | `Deposit`, `ExchangeCollateral`, `ExchangeMaxCollateral`, `AllowCollateral`, `DisallowCollateral`, `SetPrice` |
| `DusdIssuer` | `IssuerV2_2.sol` | `issuerVault`, `mintingPaused`, `assetMintingPaused`, `assetDepositCap` | `Issue`, `IssueUsingExcessCollateral` and the setters |
| `DusdRedeemer` | `RedeemerV2.sol` | `redeemerVault`, pauses, fees | `Redeem`, `RedeemAsProtocol` and the setters |
| `AmoManagerV2` | `AmoManagerV2.sol` | `managerVault`, `allowedWallets`, `tolerance`, `pegDeviationBps` | `IncreaseAmoSupply`, `DecreaseAmoSupply`, `BorrowTo`, `RepayFrom` and the setters |
| `DusdSystem` | the contracts above over one ledger, and the properties | all of these | their union |
| `BackedStablecoin` | what dUSD promises, as three amounts and the state of the market | `circulating`, `debt`, `reserve`, `market`, `inOrder` | `Issue`, `IssueExcess`, `Redeem`, `ChangeAmoSupply`, `Lend`, `Repay`, `Market` |
| `DusdRefinement` | `DusdSystem` as an implementation of it | | |
| `MCDusd` | instances for TLC | | |

A transaction is one step: the code runs it to the end or reverts it whole, and a revert is no
step. Inside a step the handlers chain books of balances (`Move`, `Credit`, `Debit`) in the order
of the code's calls, so that what the code reads between two calls (the cover in `issue`, the
vault's value in `borrowTo`) is read there. Balances and conversions keep the code's integer
arithmetic, floors included; a checked overflow would be a revert and numbers are unbounded.

Assumptions about the environment:

- Roles are constants. The vaults' withdrawer role is held by the redeemer and the AMO manager
  only, and governance allowlists vaults and the manager only, as the upgrade scripts leave it.
- All contracts see the same price and base unit; the price of any token may change between any
  two transactions within `PriceChoices`.
- A missing allowance is a transaction that does not happen. Collateral tokens are plain ERC-20s:
  no fee on transfer, no callback.
- Nobody sends tokens straight to a vault or a contract (`HolderTransfer` is between accounts).
- dUSD's pause, freeze, seize and flash mint are not modelled yet.

For the contracts there is no fairness and no liveness property: none acts on its own, and
nothing obliges a caller.

| run (cfg) | question | properties |
|---|---|---|
| `core` (`DusdCore`) | do all operations together, at moving prices and with rounding, keep dUSD covered? | `TypeOK`, `Conservation`, `BackingPreserved`, `MintOnlyUnderCover`, `CoinSpec` |
| `pauses` (`DusdPauses`) | do pauses, caps and fees do what they promise whenever they are changed? | `PausesHold`, `RedemptionPaysFairly` |
| `switching` (`DusdSwitch`) | is a migration to a second vault, one contract at a time, safe while listings, allowlist, AMO wallet, pegs and peg guard change? | `AtRest`, `RetiredVaultKeepsWorth`, `DebtFrozenOffPeg`, `AmoTouchesOnlyWallets` |
| `exchange` (`DusdExchange`) | finding: the exchange checks the wrong collateral | `TakesInOnlySupported` (violated) |

`BackingPreserved` is the property the system exists for. The *surplus* is the value of the
collateral all vaults count, less the dUSD supply, both scaled by the units so that no floor hides
a loss. Without a change of price or list the surplus never shrinks, whichever operation runs,
with two exceptions the property names: governance may mint dUSD against the surplus as long as
the issuer's vault covers the whole supply, and lending collateral may round one base unit away,
whatever tolerance is configured and even when the amount lent is too small to be worth any debt.

`CoinSpec` says what is left of the contracts when all of their names are forgotten. To
`BackedStablecoin` the system is the dUSD supply, the supply of the debt token, the value the
vaults count (`SystemValue`), and whether the vaults are `InOrder`: every asset listed in every
vault, the debt token at its hard peg. Every transaction has to be one of seven actions. Two
things are promised always: dUSD and debt change together only in the ratio of their units, and a
change of price or list moves no tokens. The rest is promised in order only: out of order (a
delisted asset, a debt token off its peg) the reserve may do as it likes, and in fact does:
finding (1) is one way, and AMO dUSD minted while the debt token is delisted another.

Bounds. One user and one AMO wallet (the two kinds of caller), one or two collaterals besides the
debt token (in `core` the debt token is listed and delisted, so that the vault is out of order too),
amounts of one and two units, balances of a few units, dUSD and debt supplies capped by
`MaxDusdSupply`, `MaxAmoDusd` and `MaxDebt`. In `core` (76 800 states) no unit divides another's
price, so each conversion rounds in some state, the AMO's tolerance is one unit or none, and USDC
may fall to a price at which one unit is worth nothing. `pauses` (17 280) and `switching` (276 480)
use exact conversions because their questions are about who may do what when; in `switching` dUSD
and the debt token leave their pegs, and the peg guard is as deployed, stricter or off. A basis is 4
"basis points" with a maximum fee of 2, so that a fee can round and can be the maximum. Properties
are about one step or one state; a step involves one caller, one vault and at most two assets, so
larger sets would only repeat the same steps. Deadlock is not checked for the contracts: an
exhausted instance may stop, and the contracts may too.

Finding (1). `CollateralHolderVault.exchangeCollateral` says "We must take in a collateral that is
supported" and checks `toCollateral`, the one it gives away: in the run the vault gives one unit of
a supported token for two of an unsupported one, and its value falls from 1 to 0.

Read in the code while modelling, and no property of a run:

- `repayWithPermit` is `nonReentrant` (`AmoManagerV2.sol:327`) and calls `repayFrom`, which is
  `nonReentrant` too (line 275): it always reverts, with a valid permit as with any other. It has no
  action.
- `borrowTo` and `repayFrom` promise that the vault's value "must remain unchanged within tolerance"
  (lines 217 and 268) and check only that it does not fall: a borrowing at a debt price above par,
  within the peg guard, raises it.

## Deploying and upgrading

A deploy script is data: a record with its id, tags, dependencies and a sequence of steps. A step
is a read, a transaction, a flush of the executor's queue or a return; it says who acts, what must
hold on chain or on disk for it to succeed, what it changes, under which tests of the script it is
skipped, and what the script does when it fails (throw, log, note it in a local variable, queue it
for the Safe). `DeploySteps` is that vocabulary; each helper of the code (`deployContract`,
`initialize` under a catch, a loop of setters) is an operator of it. `DeployEngine` interprets
scripts; one module per group of scripts gives them.

| module | models |
|---|---|
| `DeploySteps` | the calls scripts are made of, and their guards |
| `DeployEngine` | hardhat-deploy's run, kills, failed sends, unmined transactions, `GovernanceExecutor`, Safe batches; state `world` (chain and records), `at`, `migrations`, `noted` (local variables), `queue`, `batches`, `pending` |
| `DeployConfig` | what the scripts branch on in `config/networks` |
| `DeployDex`, `DeployOracles`, `DeployLending`, `DeployDusd`, `DeployPeriphery`, `DeployDstake` | `deploy/00` to `21` with the helpers they call |
| `DeployUpgrades` | `deploy/22` to `25`, the role migrations, `access_control.ts` |
| `MigrationLog`, `DeployRefinement` | the abstract log of migrations, and `DeployEngine` as an implementation of it: `done` is `migrations`, `current` the script that runs |
| `DeployScripts` | the 114 scripts, and the order hardhat-deploy runs them in, which `Ordered` in `MCDeploy` computes from tags, dependencies and `runAtTheEnd` |
| `DeployProperties`, `UpgradeProperties` | what is to hold; `UpgradeProperties` also where an upgrade may start (`Starts`, `UpgradeSpec`, `ReadyTo...`) |
| `UpgradeRules` | what a list of scripts can be seen to do without running it, in terms of their steps' fields: the hypotheses of the theorems about upgrades |
| `MCDeploy` | the whole deployment on a local network; those on testnet and mainnet, uninterrupted; `RulesKept` says the upgrades of mainnet keep `UpgradeRules` |
| `MCUpgrade` | the upgrades, and mainnet as each of them finds it; `StartsAssumption` says the starts are what the theorems ask for |

An address, a setting or a role is a key of `world` with a small value. A call that the code sends
and awaits is mined before the next step; one it only sends is `pending`, and later reads and gas
estimations see the chain without it. A pending call that reverts is not noticed, as in the code.

The statement about a whole deployment is relative: `DeployProperties` also defines an interpreter
that is never interrupted and runs the scripts until nothing changes (`Settled`; that it settles
without an exception is an assumption TLC evaluates). `EventuallyClean` says that every behaviour
with kills ends in that state, chain, records and all. It is stronger than idempotence of each
script: it fails for a script that returns early on what an interrupted run left behind.
`LogSpec` is the refinement: `DeployEngine` implements `MigrationLog`, including that every run
ends.

On testnet and mainnet the scripts take other branches, and there TLC has only the interpreter run
them: `TestnetSettles` and `MainnetSettles` in `MCDeploy` say that nothing throws there and that a
second run changes nothing. dUSD is not deployed by a script there, and its record is an initial
fact, as is the one of `CurveHelper` on mainnet.

`MCUpgrade` is one engine over the scripts of 22 to 25. `Starts` chooses where a behaviour begins:
before each of the two scripts of 22, the other one having run, before 23, before 24 and 25
(`EachScript`); and, for the findings, before 22 with a deployer who is still an admin of dUSD
(`V2ByAdmin`) and before 23 with a deployer who may not set the oracle (`V2_2Queued`). A start is
what is on the chain and on disk, and the ids taken for recorded (those of the other scripts). The
initial states are all starts of a run, so one run of TLC checks each upgrade. `EachUpgrade`, where
both scripts of 22 are still to run, is among the starts the theorems are seen to cover.

| run (cfg) | question | properties |
|---|---|---|
| `deploy` (`Deploy`) | 114 scripts on localhost, killed twice anywhere: do re-runs repair it, and does the log refine the abstract one? | `EngineTypeOK`, `NeverThrows`, `EventuallyClean`, `RerunsAreHarmless`, `LogSpec` |
| `upgrade` (`Upgrades`) | the upgrades of mainnet through a Safe, with a kill or a failed call and two calls mined late: does somebody hold every role at every moment, have the replaced contracts lost theirs, and does every upgrade end? | `MinterNeverMissing`, `WithdrawerNeverMissing`, `AdminNeverMissing`, `OldOnesRetired`, `UpgradeCompletes` |
| `upgrade_no_minter` (`UpgradeNoMinter`) | finding: a grant that fails before a revocation that does not | `MinterNeverMissing` (violated) |
| `upgrade_stuck` (`UpgradeStuck`) | finding: running the script again does not finalize | `RerunFinalizes` (violated) |

`UpgradeCompletes` says that in the end, and from then on, every script is done and governance is
an admin of every new contract (`Complete`). It names the one way in which the code does not get
there (`Stuck`, finding 3). A script is done when it is recorded; `dUSD:IssuerV2_2` also when its
issuer has a record, because it returns nothing where it finds one. `Complete` does not ask that
the deployer has no admin role left, nor that the implementation 25/01 deploys is initialised: both
may fail, see below.

Fairness. The operator runs the scripts again after a run that stopped and a running script makes
its next step (weak fairness of the run's steps), the chain mines what was sent, and the owners of
the Safe execute what they are given: the conditions the scripts' own messages state ("Re-run the
script after the Safe batch is executed"). Nothing forces a kill or a fault, and both are bounded.

Bounds. `MaxCrashes` is 2 in the deployment, so that a repair is interrupted too, and 1 in the
upgrades; `MaxFaults` is 1 there, and `MaxTroubles`, the bound on both together, 1 too: each
behaviour has a kill or a failed call, for the size of the search. A kill may come between any two
steps of any script, and any call of any script may fail. `MaxPending` is 2, so that a call can be
overtaken by what the script read and by what it sent next. 10 305 states in the deployment, 92 243
in `upgrade`. `MinterNeverMissing`, `WithdrawerNeverMissing`, `AdminNeverMissing` and
`OldOnesRetired` are proved for all bounds, from the starts of the run and from those of
`EachUpgrade` (see Proofs).

Findings. (2) 22/1 revokes the old issuer's minter role without asking whether the new one's grant
succeeded, although its comment says "but only after the new issuer has it". (3) 23/01 defers the
manager until the Safe has set the oracle and says "Re-run the script after the Safe batch is
executed to finalize"; 23/02, in the same run, takes from the deployer the role that 23/01 then
needs, and every later run throws.

### What the scripts do not survive

`Fragile` in `MCDeploy` names the scripts a kill leaves in a state their next run does not repair;
the `deploy` run kills anywhere else. They are:

- the mints and the pool initialisation of the local network, repeated by a second run;
- `Treasury`, which is skipped as soon as its three contracts have records, initialised or not;
- `Incentives`: killed between `setAddressAsProxy` and `save`, every later run throws in `get`;
- the pool's and the configurator's implementation, which call `initialize` again, uncaught;
- the four scripts that list reserves, whose helper keeps its risk admin role;
- the Curve AMO vault, whose `enableAmoVault` reverts a second time;
- `deploy_redeemer_with_fees`, which ends on an existing record before it grants the withdrawer's
  role;
- scripts that are never recorded after a kill (`ERC20VestingNFT`, `dUSD:IssuerV2_2`);
- the dSTAKE rewards, and the migrations of 22 and 23, killed in the upgrade runs instead.

The following was seen with other bounds or other initial facts, and is not part of a run:

- Where governance is the deployer, as on localhost, `ensureDefaultAdminExistsAndRevokeFrom`
  confirms that the account is an admin and then renounces its role
  (`access_control.ts:139`): `AdminNeverMissing` fails.
- Where the deployer is still an admin of dUSD, a failing revocation in 22/1 is dropped
  (`1_setup_issuerv2.ts:235`) and the script is recorded with the old issuer still minting:
  `OldOnesRetired` fails.
- 23/02 is to "mirror asset-level minting pauses" and asks the vault for `getSupportedCollaterals`,
  which no vault has (`02_setup_issuer_v2_2.ts:267`). It falls back to the configured collaterals,
  and the pause of any other is lost: the new issuer mints against what is paused on the old one.
- A mirrored pause of a configured asset, too, can be lost: sent and not awaited, it may revert
  behind the pending revocation of the pauser's role, or be unmined when the Safe executes the
  batch that lets the new issuer mint.
- With eight calls unmined, and a deployer still an admin of dUSD (else the script waits for the
  Safe), `ensureDefaultAdminExistsAndRevokeFrom` reads that governance is no
  admin yet, leaves the deployer's role, and 22/1 is recorded with the deployer an admin of
  `IssuerV2`, although its migration promises "grants roles to governance first, then revokes them
  from the deployer" (`1_setup_issuerv2.ts:86`).
- A pool implementation deployed by 25/01 in a run that was killed, or whose `initialize` failed,
  is never initialised (line 75). The proxy that uses it is.
- `deploy_dstake_core` is "marked as executed" and returns nothing: it is never recorded.
- With transactions unmined, the incentives proxy is recorded at the zero address, and the fee of
  15/03 and a refresh of 16/03 are only logged when they fail, yet recorded.

Read, not run: 22/2 swallows exceptions around the withdrawer's role; 17/06 revokes even if its
target is the deployer; `getDefaultDeployScriptPaths` names directories that do not exist; a
dependency that names an id instead of a tag is ignored; script 09 throws under the present
mainnet configuration unless it is recorded, which it is taken to be.

## The liquidator bots

| module | models | state |
|---|---|---|
| `IgnoreMemory` | `ShortTermIgnoreMemory` and its file | `memory`, `isInitialized`, `file`, and two history variables: `promised`, the time left since a put, and `standing`, what became of it |
| `LiquidatorBot` | the runs of the Odos, Curve, Uniswap and combo bots, the chain as far as it decides a liquidation | `process`, `health`, `pending`, `report`, `faults`, and `setting`, which never changes |
| `LiquidatorProperties`, `MCLiquidator` | properties; the settings | |
| `LiquidationMath`, `MCLiquidation` | `PercentMath`, choice of markets, amount and profit; over all small positions | `position`, `prices` |

A process is at a place of its run (`pc`): idle, in a batch, at a user, quoting, assembling,
sending, waiting, or with a receipt. Every place where the code awaits something external is a
place where the user's health, the time or the process may change. The reads of one batch of
health factors are one step, as nothing is decided between them. Expiry times are kept as time
left. Approvals of the bot's account, Slack (whose errors are swallowed) and the wording of
reports are left out; `NotProfitableLiquidationError` is never thrown by the code.

`setting` is the bot and the world it runs in: which script, its users and batch size, which of
them are unprofitable, unreadable or without a swap path, whether an API is down and
whether a kill may tear the file, and how many faults may happen. `Init` chooses one of the eight in
`MCLiquidator`, so one run of TLC checks them all:

| setting | what it is for |
|---|---|
| `OdosSetting` | two batches of three users, one not worth it, a failing request, a restart |
| `TearingSetting` | the process dies while it writes the file of ignored users |
| `UniswapSetting` | the read of a batch fails, a user without a route, a restart |
| `ShuffleSetting` | one user of Curve's one batch is never readable: do the others get their turn? |
| `ComboSetting` | Odos throws: does Curve take over? |
| `BothSetting` | requests fail now and then: both memories of the combo script write the file, across a restart |
| `NoFallbackSetting` | the swap API is down under the combo script |
| `RejectedSetting` | one user of the Uniswap bot's one batch is never readable |

| run (cfg) | question | properties |
|---|---|---|
| `bots` (`Liquidators`) | in each setting, does whoever can be liquidated get a turn, and nobody two or too soon? | `BotTypeOK`, `OneAtATime`, `OwnFactor`, `QuietAfterIgnore`, `EventuallyLiquidated` |
| `combo_forgets` (`ComboForgets`) | finding: a restart forgets what a bot saved | `RemembersWhatItSaved` (violated) |
| `combo_fallback` (`ComboFallback`) | finding: an Odos bot whose swaps all fail does not fail | `FallsBackToCurve` (violated) |
| `liquidation_math` (`Liquidation`) | amounts at every small position and price | `AmountWithinDebt`, `SeizureWithinCollateral` |

`QuietAfterIgnore` says that a user a bot put off is not taken up by it before the time is over,
and excepts puts that are `Forgotten`: another bot wrote its own map over the file (`standing` is
"unsaved"), and the process was killed before the bot itself wrote again ("lost").
`EventuallyLiquidated` is stated of all settings in which a bot can work (`CanWork`), and names the
three situations in which the code leaves users alone for good: `NoFallback`, `BatchesRejected` and
`FileTorn`. The first, and the puts that are lost, contradict what the code says of itself: they are
findings.

Fairness. A process goes on and is restarted (the loop of every script and the container's
restart policy), a transaction is mined or dropped, time passes, and a shuffle puts each user first
again and again: that holds with probability one, and the code relies on it ("to make sure
all addresses have the opportunity to be checked").

Bounds. Two or three users in batches of two or three: a batch boundary, a user behind another in a
batch, and an ignored one beside them. One to four failing requests, one failing read, one kill, two
or three changes of health by themselves. Durations of two and three ticks stand for three minutes
and an hour, two trials of each bot of the combo script for five and three. All bounds are bounds on
the environment; the bots run without end. Positions of `liquidation_math` have a debt and a
collateral among two reserves each, amounts up to 40 of units 1 and 4, three prices, and bonuses
from 0 to 50 %: every rounding occurs in both directions.

Findings. (4) `dumpToFileIfNeeded` writes one memory's map over the file of both. (5) The combo bot
"tries Odos first, then falls back to Curve", but an Odos run whose every swap fails returns and
does not throw.

Where the bots fall short besides, and what the properties therefore leave out:

- The Odos and the Curve bot drop health factors that could not be read and pair the rest with
  the users by index (`odos/run.ts:231`), so one user may be judged by another's factor. `OwnFactor`
  is stated of the Uniswap bot only, and the settings of the others have no failing reads beside
  the user who is never readable.
- The Uniswap bot returns the promise of a health factor without awaiting it
  (`uniswap-v3/run.ts:152`): not "undefined" (line 146) but the whole batch is lost if it fails. A
  user who can never be read stops his batch for good (`BatchesRejected`; `RejectedSetting` has it).
- The file of ignored users is written in place (`utils.ts:299`), and a torn one stops every later
  run at `JSON.parse`.
- `OneAtATime` is about one process in its present life. The bots share one account, so two of them,
  or a process and its killed predecessor, may have a transaction in flight each.
- `wait()` has no timeout: a transaction neither mined nor dropped would stop the bot. Raw amounts
  of tokens with different decimals are compared when markets are chosen
  (`odos/utils.run.ts:121`), a debt in a reserve whose borrowing was disabled is never chosen
  (line 120). The profit by which all bots choose uses the borrowed reserve's bonus where the pool
  pays the collateral's (`shared/utils.ts:35`), and the whole of it, of which the pool keeps the
  protocol's fee (70 % in `reserves-configs.ts:17`). Two bots with different
  durations in one state directory make the second throw (`utils.ts:134`).

## Proofs

| module | content |
|---|---|
| `Sums` | sums over finite sets: element split off, pointwise equality, update, support |
| `FixedPointTheorems` | bounds of the floor division |
| `LedgerProofs` | what `Move`, `Credit`, `Debit` do to a book, and that they keep it balanced and settled |
| `DusdSystemProofs` | the invariant of the whole system |
| `DusdStepProofs` | what every step keeps: backing, cover, pauses, fair redemptions, debt off the peg, wallets, retired vaults; and that the contracts implement `BackedStablecoin` |
| `DeployProofs` | the engine's types, that it implements the abstract log, and the invariants of the upgrades |
| `LiquidationProofs` | bounds of the roundings; a liquidation repays within the debt and seizes within the collateral |
| `LiquidatorProofs` | the bots' types, one transaction at a time, users judged by their own factors, ignored users left alone |

`TypeCorrect`, `TokensConserved` and `NothingLeftBehind` hold for every choice of tokens, units,
prices, accounts, vaults, amounts and settings that satisfies the named assumptions of the
modules. None of the three is inductive alone. `TypeOK` needs conservation: a burn keeps the
supply a natural number only because every balance is part of the sum. Conservation needs types.
`AtRest` needs both, and gives back that what a contract takes in and burns at once
is a burn from the sender (`PassThrough`). Their conjunction `IInv` is inductive: `InitIInv` and
`NextIInv`, the latter with one lemma per component and one step per action.

`BackingHolds` proves `BackingPreserved` for every choice of the constants. In an ordinary step a
handler changes the balance of at most two assets in one vault, so the value of all vaults changes
by the difference of those floors (`SystemChange`). Floors are superadditive: what comes in is
counted at its value or more (`WorthGained`), and what goes out lowers the count by its value
rounded up at most (`WorthLost`). One step per handler then compares that with the dUSD minted or
burned. The comparison needs `DecimalsAssumption`, the order of the deployment's decimals (6, 8
and 18): dUSD converts to base value exactly, and base value to debt tokens. `MintsCovered`,
`DebtStandsStill` and `OnlyWalletsAreTouched` go over the same handlers, each under `IInv`.

Three more theorems about a step rest on two facts that no single handler shows. The AMO cannot
change the dUSD supply and leave the debt alone (`AmoNeedsDebt`): its conversions are exact, so
some dUSD is some debt. And with the debt unchanged only a redemption both destroys dUSD and lets
an asset out of the redeemer's vault (`OnlyRedeeming`); a holder's burn leaves vaults alone.
`PausesAreRespected` then looks at the issuer and the redeemer only. `RedemptionsPayFairly`
follows a redemption through its two payouts, with the receiver of the fee the caller himself or
not, and the fee bounded by `FeeAtMost`. `RetiredVaultsKeepWorth` finds every withdrawal tied to
a vault some contract points to (`OthersLeftAlone`), except an exchange, which takes
in no less than the value it gives out (`ExchangeKeepsWorth`); prices hold still, lists need not.

`ImplementsCoin` takes every step to one of `BackedStablecoin`. `MarketMoves` separates the
changes of price or list; among the others a change of the debt is the AMO's (`DebtByAmo`) and
exact (`AmoMatches`), in order or not; the value comes from `BackingStep`, put into terms of
reserve and dUSD by `SurplusMeans`, except that a repayment rounds nothing away (`RepaysWhole`).
What governance mints against the surplus is covered because a vault is worth no more than
all of them (`VaultWithin`).

`DeployProofs.TypeCorrect` holds for all scripts that end in a return, all bounds and all initial
facts: at every moment a run is at a step of one of its scripts. Its point is the last step:
whatever is skipped or caught, nothing leads past a return. `ImplementsLog` takes each action of
the engine to a step of `MigrationLog` or a stutter, with `TypeCorrect` for the script at hand.
The fairness of the log (every run ends) is checked by TLC in `deploy`.

Four theorems are about upgrades, from `UpgradeSpec`: any scripts, any bounds, any number of kills,
failed and unmined calls, batches executed in any order or never. They do not retrace the
scripts, but rest on rules the scripts are seen to keep (`UpgradeRules`). TLC evaluates the rules
for the scripts of mainnet (`RulesKept`) and the starts (`StartsAssumption`). The rules tell the
mutants of the run apart: a grant or a revocation not queued, or an admin role taken unread, breaks
the ones its property needs.

- All four rest on what one step can do to the chain (`WorldChanges`): it executes one step of a
  script, or the calls of one batch, whose later calls overwrite the earlier (`BatchCovers`);
  `KeyAfter` says what that does to one key.
- `MinterStays` and `WithdrawerStays` see the role pass along a line of holders. The invariant
  (`HandoverInv`) says that a call that takes it from one and still waits is harmless, because
  a later one has the role or gets it in the same batch, and that a grant the script is past was
  not needed, or its caller may not grant and it is queued. Of the holders a step may take the role
  from, the last one that has it or is given it keeps it (`HolderStays`). The callers are no admins
  of dUSD or of the vault, or else calls are mined at once and none fails (`Outsider`). Without
  that the first theorem is false: `upgrade_no_minter` is the counterexample.
- `AdminStays` needs no such thing. Governance's role is never taken; the deployer's is only where
  governance's was read, or where a local variable is set that is set only after such a read
  (`Earned`), and a call still waiting to take it is as good as the read (`SafeToTake`).
- `OldOnesLoseTheirRoles` rests on `Outside`: nothing by an admin of the contract is mined but what
  the Safe executes. A flush comes after both the grant to the new contract and the revocation that
  goes with it, so a batch with the one has the other (`BatchReplaces`). An old holder that keeps
  the role has a script past the grant only with its failure noted (`PastSteps`), and that script
  returns before it would be recorded.

TLC has checked these invariants from the starts of `EachUpgrade`.

`RepaysWithinDebt` is arithmetic: the cap by the collateral applies only if the closable debt with
its bonus is worth more than the collateral, and then the half-up rounding of `percentDiv` and the
floor after it stay below it, for all prices, units and bonuses. `SeizesWithinCollateral` bounds
what the amount, with its bonus, is worth: no more than the collateral and what the two half-up
roundings add, `RoundedUp(bonus)`, which is one unit of the oracle for bonuses up to three times the
debt.

`LiquidatorProofs` is about all bots, users, batch sizes and faults that satisfy `BotAssumption`.
`BotsTypeCorrect` needs one relation between counters, that the lives of a process and the kills
still to come make up no more than the kills allowed. For `OneLiquidationAtATime` the invariant
adds that no transaction in flight is of a later life than its sender (`SentBefore`), so that a
restarted process finds none of its own. For `UniswapJudgesByOwnFactor` the batch in hand pairs
every user with his own factor (`Owned`), from the reading of the factors to the end of the batch;
bots that filter first do not keep that.

`IgnoredUsersAreLeftAlone` holds of any number of processes and bots over the one file. The
invariant (`Remembered`) follows every put: while it is "saved" it is in the file, with at least the
time that is promised (or the file is torn, and no bot starts); while "saved" or "unsaved" it is in
the bot's map as well, if that is loaded; and only a bot whose map is loaded has a put that is
"unsaved". A put, an expiry and a restart by any bot keep that (`PutRemembers`,
`IsIgnoredRemembers`, `ForgetRemembers`). What a start takes up has no live entry, so its put is
over or "lost".

Only model-checked: `NeverThrows` and `RerunsAreHarmless`, stated beside a recursive interpreter of
the 114 concrete scripts: a proof would retrace step by step what TLC computes. And the findings.
Out of the prover's reach: liveness and fairness (`EventuallyClean`, `UpgradeCompletes`,
`EventuallyLiquidated`, the fairness in `LogSpec`), and what recursive definitions compute (sums are
therefore handled through `Sums`; that the upgrades keep their rules is evaluated, since scripts are
computed by concatenation).

## Plan

1. dUSD token: pause, freeze, seize, flash mint (composed with the ledger).
2. More theorems about the deployment engine: which scripts a kill cannot harm, as rules like those
   of the upgrades.
3. The oracle and base unit of each contract, set one at a time.
4. dSTAKE: token, router, vault and adapter against an abstract share vault; withdrawal fees.
5. `ERC20VestingNFT`.
6. First AMO manager with AMO vaults; reward claiming; dLOOP.

## Not modelled

dLEND and the DEX (vendored forks), oracle wrappers (stateless conversions; any price they may
report is a step), liquidator contracts and swap adapters (one-transaction glue over external
markets; a liquidation is mined or reverted in the bots' model), balance checkers (read-only), the
shared role and verification tooling (`.shared`, which scans and reports) and one-off operator
scripts. The contracts of the plan's list are not modelled yet. Failures of the file system other
than a torn file of ignored users are not modelled: a record or a batch that cannot be written.
