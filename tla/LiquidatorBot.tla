---------------------------- MODULE LiquidatorBot ----------------------------
(***************************************************************************)
(* The liquidator bots: processes that run for ever the Odos, the Curve or *)
(* the UniswapV3 bot, or the combo of the first two.  A run of a bot reads *)
(* the users of the lending pool from a graph, drops those its memory      *)
(* ignores, shuffles and batches the rest, reads the health factors of a   *)
(* batch, and liquidates the unhealthy users one at a time.                *)
(*                                                                         *)
(* The chain is reduced to what decides a liquidation: whether each user   *)
(* may be liquidated, and the liquidations sent and not yet mined.         *)
(***************************************************************************)
EXTENDS IgnoreMemory, SequencesExt

CONSTANTS
    Processes,              \* the running processes
    Settings,               \* what they may find when they start, one of these records
    MaxOdosFailureCount, MaxCurveFailureCount   \* of the combo script

(***************************************************************************)
(* A setting says                                                          *)
(*   script        what every process runs: "odos", "curve", "uniswap" or  *)
(*                 "combo",                                                *)
(*   batchSize     liquidatingBatchSize of the network's configuration,    *)
(*   borrowers     the users the graph knows,                              *)
(*   unprofitable  users whose liquidation earns less than the threshold,  *)
(*   dusdDebtors   users whose largest debt is in dUSD,                    *)
(*   routeless     users whose collateral has no swap path,                *)
(*   unreadable    users whose health factor can never be read,            *)
(*   down          what never works: "graph", "odosApi", or a bot that is  *)
(*                 not deployed,                                           *)
(*   tears         whether a process may be killed while it writes a file, *)
(*   faults        the bounds: how many requests and how many reads of a   *)
(*                 health factor fail once, how often a process is killed  *)
(*                 and started again, and how often a user's health        *)
(*                 changes by itself.                                      *)
(***************************************************************************)
VARIABLES
    setting,                \* the setting, which never changes
    health,                 \* whether each user may be liquidated
    pending,                \* liquidations sent and not mined
    process,                \* the control state of each process
    report,                 \* the user-state file of each user
    faults                  \* what is left of every bound

botVars == <<health, pending, process, report, faults>>
vars == <<memoryVars, botVars, setting>>

Bots == {"odos", "curve", "uniswap"}
BotsOf(p) == IF setting.script = "combo" THEN {"odos", "curve"} ELSE {setting.script}
FirstBot(p) == IF setting.script = "combo" THEN "odos" ELSE setting.script

Scripts == Bots \cup {"combo"}

\* What is left of every bound.
Faults == [requests : Nat, reads : Nat, crashes : Nat, moves : Nat]

ASSUME BotAssumption ==
    /\ IsFiniteSet(Users)
    /\ Memories = Processes \X Bots
    /\ MaxOdosFailureCount \in Nat \ {0} /\ MaxCurveFailureCount \in Nat \ {0}
    /\ Settings \subseteq
          [script : Scripts, batchSize : Nat \ {0}, borrowers : SUBSET Users,
           unprofitable : SUBSET Users, dusdDebtors : SUBSET Users, routeless : SUBSET Users,
           unreadable : SUBSET Users, down : SUBSET (Bots \cup {"graph", "odosApi"}),
           tears : BOOLEAN, faults : Faults]

NoReport == [factorOf |-> "nobody", success |-> FALSE]

\* A process between two runs, about to run bot for the trial-th time in a row.
Idle(bot, trial, life) ==
    [pc |-> "idle", bot |-> bot, trial |-> trial, life |-> life,
     batches |-> <<>>, found |-> <<>>]

Init ==
    /\ MemoryInit
    /\ setting \in Settings
    /\ health = [u \in Users |-> "healthy"]
    /\ pending = {}
    /\ process = [p \in Processes |-> Idle(FirstBot(p), 0, 0)]
    /\ report = [u \in Users |-> NoReport]
    /\ faults = setting.faults

MemoryOf(p) == <<p, process[p].bot>>
User(p) == Head(process[p].found).user

Goto(p, pc) == process' = [process EXCEPT ![p].pc = pc]

\* A request fails, once more within the bound.
Fault == faults.requests > 0 /\ faults' = [faults EXCEPT !.requests = @ - 1]

(***************************************************************************)
(* The scripts.  A run that returns ends the trials; a run that throws is  *)
(* caught and tried again.  The combo script tries Odos and then, if every *)
(* trial threw, Curve.                                                     *)
(***************************************************************************)
runOdosTrialsForEver(p) ==     \* Mutant: trials that are not counted.
    Idle("odos", process[p].trial, process[p].life)

runOdosTrials(p) ==
    LET trial == process[p].trial + 1
    IN  IF trial < MaxOdosFailureCount THEN Idle("odos", trial, process[p].life)
                                       ELSE Idle("curve", 0, process[p].life)

runCurveTrial(p) ==
    LET trial == process[p].trial + 1
    IN  IF trial < MaxCurveFailureCount THEN Idle("curve", trial, process[p].life)
                                        ELSE Idle("odos", 0, process[p].life)

AfterThrow(p) ==
    IF setting.script # "combo" THEN Idle(setting.script, 0, process[p].life)
    ELSE IF process[p].bot = "odos" THEN runOdosTrials(p) ELSE runCurveTrial(p)

AfterReturn(p) == Idle(FirstBot(p), 0, process[p].life)

(***************************************************************************)
(* The first half of a run, up to its batches.                             *)
(***************************************************************************)
\* deployments.get of the two contracts of the bot throws.
NotDeployed(p) == process[p].bot \in setting.down

\* getAllLendingUserAddresses throws.
NoAddresses == "graph" \in setting.down

CannotStart(p) == NotDeployed(p) \/ NoAddresses \/ initializeThrows(MemoryOf(p))

Throw(p) ==
    /\ process[p].pc = "idle"
    /\ IF CannotStart(p) THEN UNCHANGED faults ELSE Fault
    /\ process' = [process EXCEPT ![p] = AfterThrow(p)]
    /\ UNCHANGED <<memoryVars, health, pending, report>>

\* splitToBatches
splitToBatches(order) ==
    LET n == Len(order)
        size == setting.batchSize
    IN  [k \in 1..((n + size - 1) \div size) |->
            SubSeq(order, (k - 1) * size + 1, Min({k * size, n}))]

\* The users in the order of a shuffle.
Shuffles(users) == SetToSeqs(users)

CanStart(p) == process[p].pc = "idle" /\ ~CannotStart(p)

StartRunInOrder(p, order) ==
    /\ isIgnoredOfAll(MemoryOf(p))
    /\ process' = [process EXCEPT ![p].pc = "batch", ![p].batches = splitToBatches(order)]
    /\ UNCHANGED <<health, pending, report, faults>>

ToCheck(p) == setting.borrowers \cap NotIgnored(MemoryOf(p))

StartRun(p) ==
    /\ CanStart(p)
    /\ \E order \in Shuffles(ToCheck(p)) : StartRunInOrder(p, order)

\* A run whose shuffle puts a given user first.
StartRunWith(p, u) ==
    /\ CanStart(p)
    /\ u \in ToCheck(p)
    /\ \E order \in Shuffles(ToCheck(p)) : Head(order) = u /\ StartRunInOrder(p, order)

FinishRun(p) ==
    /\ process[p].pc = "batch"
    /\ process[p].batches = <<>>
    /\ process' = [process EXCEPT ![p] = AfterReturn(p)]
    /\ UNCHANGED <<memoryVars, health, pending, report, faults>>

(***************************************************************************)
(* The health factors of a batch.  A factor that cannot be read is left    *)
(* out of the factors read, and the i-th of them is taken for the factor   *)
(* of the i-th user of the batch.                                          *)
(***************************************************************************)
Factors == [user : Users, factorOf : Users]

Unhealthy == {f \in Factors : health[f.factorOf] = "liquidatable"}

\* The entries of a sequence that are in a set, in their order.
Filtered(seq, keep) ==
    LET kept[n \in 0..Len(seq)] ==
            IF n = 0 THEN <<>>
            ELSE IF seq[n] \in keep THEN Append(kept[n - 1], seq[n]) ELSE kept[n - 1]
    IN  kept[Len(seq)]

Found(batch, read) ==
    Filtered([i \in 1..Len(read) |-> [user |-> batch[i], factorOf |-> read[i]]], Unhealthy)

NextBatch(p, found) ==
    process' = [process EXCEPT ![p].batches = Tail(@),
                               ![p].found = found,
                               ![p].pc = IF found = <<>> THEN "batch" ELSE "user"]

\* The users of a batch whose factors cannot be read.
UnreadOf(batch) ==
    {failed \cup (ToSet(batch) \cap setting.unreadable) :
        failed \in {users \in SUBSET (ToSet(batch) \ setting.unreadable) :
                        Cardinality(users) <= faults.reads}}

ReadFaults(missing) ==
    faults' = [faults EXCEPT !.reads = @ - Cardinality(missing \ setting.unreadable)]

\* Odos and Curve: a failed read is undefined, and filtered out.
ReadHealthFactors(p) ==
    /\ process[p].pc = "batch"
    /\ process[p].batches # <<>>
    /\ LET batch == Head(process[p].batches)
       IN  \E missing \in UnreadOf(batch) :
               /\ NextBatch(p, Found(batch, Filtered(batch, ToSet(batch) \ missing)))
               /\ ReadFaults(missing)
    /\ UNCHANGED <<memoryVars, health, pending, report>>

\* UniswapV3: the promise of a failed read is returned, not awaited, so that it
\* rejects the whole batch.
ReadHealthFactorsOrReject(p) ==
    /\ process[p].pc = "batch"
    /\ process[p].batches # <<>>
    /\ LET batch == Head(process[p].batches)
       IN  \E missing \in UnreadOf(batch) :
               /\ NextBatch(p, IF missing = {} THEN Found(batch, batch) ELSE <<>>)
               /\ ReadFaults(missing)
    /\ UNCHANGED <<memoryVars, health, pending, report>>

(***************************************************************************)
(* The users found, one at a time.  Whatever goes wrong, a user who is not *)
(* liquidated is ignored for a while.                                      *)
(***************************************************************************)
NextUserOrNone(p) ==   \* Mutant: the loop does not end.
    process' = [process EXCEPT ![p].found = Tail(@), ![p].pc = "user"]

NextUser(p) ==
    process' = [process EXCEPT ![p].found = Tail(@),
                               ![p].pc = IF Len(process[p].found) = 1 THEN "batch" ELSE "user"]

\* saveToFile of the user's state.
Report(p, success) ==
    report' = [report EXCEPT ![User(p)] =
                  [factorOf |-> Head(process[p].found).factorOf, success |-> success]]

Skip(p) ==
    /\ put(MemoryOf(p), User(p))
    /\ Report(p, FALSE)
    /\ NextUser(p)
    /\ UNCHANGED <<health, pending>>

SkipOrFault(p, reason) == Skip(p) /\ (IF reason THEN UNCHANGED faults ELSE Fault)

\* The health factor is read again: it may be fine by now, or be unreadable, and
\* what there is to liquidate may earn too little.
NotWorthwhile(u) == health[u] = "healthy" \/ u \in setting.unprofitable \cup setting.unreadable

\* getUserLiquidationParams and getLiquidationProfitInUSD
CheckUser(p) ==
    /\ process[p].pc = "user"
    /\ \/ SkipOrFault(p, NotWorthwhile(User(p)))
       \/ /\ ~NotWorthwhile(User(p))
          /\ Goto(p, "liquidate")
          /\ UNCHANGED <<memoryVars, health, pending, report, faults>>

\* liquidate of the flash contract: its gas estimate reverts for a user who has
\* become healthy; otherwise it is sent, and its receipt awaited.
SendUnawaited(p) ==     \* Mutant: the receipt is not awaited.
    /\ health[User(p)] = "liquidatable"
    /\ pending' = pending \cup {[process |-> p, life |-> process[p].life, user |-> User(p)]}
    /\ NextUser(p)
    /\ UNCHANGED <<memoryVars, health, report, faults>>

Send(p) ==
    \/ SkipOrFault(p, health[User(p)] = "healthy")
    \/ /\ health[User(p)] = "liquidatable"
       /\ pending' = pending \cup {[process |-> p, life |-> process[p].life, user |-> User(p)]}
       /\ Goto(p, "wait")
       /\ UNCHANGED <<memoryVars, health, report, faults>>

(***************************************************************************)
(* Odos: a quote, an assembled transaction between two approvals, and the  *)
(* contract that flash mints or flash borrows.                             *)
(***************************************************************************)
OdosFails(p) == "odosApi" \in setting.down \/ User(p) \in setting.routeless

getOdosSwapQuote(p) ==
    /\ process[p].pc = "liquidate"
    /\ \/ SkipOrFault(p, OdosFails(p))
       \/ /\ ~OdosFails(p)
          /\ Goto(p, "assemble")
          /\ UNCHANGED <<memoryVars, health, pending, report, faults>>

getAssembledQuote(p) ==
    /\ process[p].pc = "assemble"
    /\ \/ Fault /\ Skip(p)
       \/ /\ Goto(p, "send")
          /\ UNCHANGED <<memoryVars, health, pending, report, faults>>

executeFlashMintLiquidation(p) ==
    /\ process[p].pc = "send"
    /\ User(p) \in setting.dusdDebtors
    /\ Send(p)

executeFlashLoanLiquidation(p) ==
    /\ process[p].pc = "send"
    /\ User(p) \notin setting.dusdDebtors
    /\ Send(p)

performOdosLiquidation(p) ==
    \/ getOdosSwapQuote(p)
    \/ getAssembledQuote(p)
    \/ executeFlashMintLiquidation(p)
    \/ executeFlashLoanLiquidation(p)

\* Curve: an unstaked collateral needs a swap path in the configuration.
NotUnstakable(p) == User(p) \in setting.routeless

performCurveLiquidation(p) ==
    /\ process[p].pc = "liquidate"
    /\ IF NotUnstakable(p) THEN Skip(p) /\ UNCHANGED faults ELSE Send(p)

\* UniswapV3: two different tokens need a pool, or two by way of the stablecoin.
NoSwapPath(p) == User(p) \in setting.routeless

performUniswapV3Liquidation(p) ==
    /\ process[p].pc = "liquidate"
    /\ IF NoSwapPath(p) THEN Skip(p) /\ UNCHANGED faults ELSE Send(p)

\* The receipt: of a success, or of a revert, which throws.
Receipt(p) ==
    \/ /\ process[p].pc = "mined"
       /\ Report(p, TRUE)
       /\ NextUser(p)
       /\ UNCHANGED <<memoryVars, health, pending, faults>>
    \/ /\ process[p].pc = "reverted"
       /\ Skip(p)
       /\ UNCHANGED faults

(***************************************************************************)
(* runBotBatch of each bot.                                                *)
(***************************************************************************)
OdosBatch(p) ==
    /\ process[p].bot = "odos"
    /\ ReadHealthFactors(p) \/ CheckUser(p) \/ performOdosLiquidation(p) \/ Receipt(p)

CurveBatch(p) ==
    /\ process[p].bot = "curve"
    /\ ReadHealthFactors(p) \/ CheckUser(p) \/ performCurveLiquidation(p) \/ Receipt(p)

UniswapV3Batch(p) ==
    /\ process[p].bot = "uniswap"
    /\ ReadHealthFactorsOrReject(p) \/ CheckUser(p) \/ performUniswapV3Liquidation(p) \/ Receipt(p)

runOdosBot(p) == process[p].bot = "odos" /\ StartRun(p)
runCurveBot(p) == process[p].bot = "curve" /\ StartRun(p)
runUniswapV3Bot(p) == process[p].bot = "uniswap" /\ StartRun(p)

Run(p) ==
    \/ runOdosBot(p) \/ runCurveBot(p) \/ runUniswapV3Bot(p)
    \/ Throw(p) \/ FinishRun(p)
    \/ OdosBatch(p) \/ CurveBatch(p) \/ UniswapV3Batch(p)

(***************************************************************************)
(* The rest of the world.                                                  *)
(***************************************************************************)
\* The process waiting for a transaction hears of it.
Hear(tx, pc) ==
    IF process[tx.process].pc = "wait" /\ process[tx.process].life = tx.life
    THEN Goto(tx.process, pc) ELSE UNCHANGED process

Mine(tx) ==
    /\ tx \in pending
    /\ pending' = pending \ {tx}
    /\ \/ /\ health[tx.user] = "liquidatable"
          /\ health' = [health EXCEPT ![tx.user] = "healthy"]
          /\ Hear(tx, "mined")
          /\ UNCHANGED faults
       \/ /\ health[tx.user] = "healthy"
          /\ Hear(tx, "reverted")
          /\ UNCHANGED <<health, faults>>
       \/ Fault /\ Hear(tx, "reverted") /\ UNCHANGED health
    /\ UNCHANGED <<memoryVars, report>>

\* Prices move, or the user acts.
Move(u) ==
    /\ faults.moves > 0
    /\ faults' = [faults EXCEPT !.moves = @ - 1]
    /\ health' = [health EXCEPT ![u] = IF @ = "healthy" THEN "liquidatable" ELSE "healthy"]
    /\ UNCHANGED <<memoryVars, pending, process, report>>

Tick == Running /\ MemoryTick /\ UNCHANGED botVars

\* A process that is about to ignore a user may die while it writes the file.
Saving(p) ==
    \/ process[p].pc = "reverted"
    \/ process[p].pc = "user" /\ NotWorthwhile(User(p))

Crash(p, torn) ==
    /\ faults.crashes > 0
    /\ faults' = [faults EXCEPT !.crashes = @ - 1]
    /\ torn => setting.tears /\ Saving(p)
    /\ process' = [process EXCEPT ![p] = Idle(FirstBot(p), 0, process[p].life + 1)]
    /\ ForgetAll({p} \X BotsOf(p), torn)
    /\ UNCHANGED <<health, pending, report>>

Next ==
    /\ UNCHANGED setting
    /\ \/ \E p \in Processes : Run(p)
       \/ \E p \in Processes, torn \in BOOLEAN : Crash(p, torn)
       \/ \E tx \in pending : Mine(tx)
       \/ \E u \in setting.borrowers : Move(u)
       \/ Tick

Spec == Init /\ [][Next]_vars

\* Every process runs, every transaction is mined, and time passes.
Fairness ==
    /\ \A p \in Processes : WF_vars(UNCHANGED setting /\ Run(p))
    /\ WF_vars(UNCHANGED setting /\ \E tx \in pending : Mine(tx))
    /\ WF_vars(UNCHANGED setting /\ Tick)

\* A random shuffle puts every user first again and again.
FairShuffles ==
    \A p \in Processes, u \in Users : SF_vars(UNCHANGED setting /\ StartRunWith(p, u))

FairSpec == Spec /\ Fairness /\ FairShuffles
=============================================================================
