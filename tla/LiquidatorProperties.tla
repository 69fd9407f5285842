------------------------- MODULE LiquidatorProperties -------------------------
(***************************************************************************)
(* What the liquidator bots are to guarantee.                              *)
(***************************************************************************)
EXTENDS LiquidatorBot

Liquidations == [process : Processes, life : Nat, user : setting.borrowers]

ProcessStates ==
    [pc : {"idle", "batch", "user", "liquidate", "assemble", "send",
           "wait", "mined", "reverted"},
     bot : Bots, trial : Nat, life : Nat,
     batches : Seq(Seq(setting.borrowers)),
     found : Seq([user : setting.borrowers, factorOf : setting.borrowers])]

TrialLimit(bot) == IF bot = "odos" THEN MaxOdosFailureCount ELSE MaxCurveFailureCount

ProcessTypeOK ==
    /\ process \in [Processes -> ProcessStates]
    /\ \A p \in Processes :
           /\ process[p].bot \in BotsOf(p)
           /\ process[p].trial < TrialLimit(process[p].bot)
           /\ process[p].life + faults.crashes <= setting.faults.crashes
           /\ process[p].pc \notin {"idle", "batch"} => process[p].found # <<>>

BotTypeOK ==
    /\ MemoryTypeOK
    /\ ProcessTypeOK
    /\ setting \in Settings
    /\ faults \in Faults
    /\ health \in [Users -> {"healthy", "liquidatable"}]
    /\ pending \subseteq Liquidations
    /\ report \in [Users -> [factorOf : Users \cup {"nobody"}, success : BOOLEAN]]

\* The health factor the UniswapV3 bot judges a user by and saves for the user is
\* the user's own, even if other users' factors could not be read (its runBotBatch
\* pairs factors with users by their index, and drops a batch with a failed read;
\* the other bots drop the failed reads only, and do mix users up).
OwnFactor ==
    setting.script = "uniswap" => \A u \in Users : report[u].factorOf \in {"nobody", u}

\* The users a run that starts in this step takes up.
TakenUp(p) == UNION {ToSet(process'[p].batches[k]) : k \in DOMAIN process'[p].batches}
RunStarts(p) == process[p].pc = "idle" /\ process'[p].pc = "batch"

Forgotten(m, u) == promised[m][u] > 0 /\ standing[m][u] = "lost"

OnlyUnpromised ==
    \A p \in Processes : RunStarts(p) =>
        \A u \in TakenUp(p) : promised[MemoryOf(p)][u] = 0 \/ Forgotten(MemoryOf(p), u)

\* A user whom a bot put off is not taken up by it again before the time is over,
\* however often its process was killed and started again, and whatever the other
\* bots that use the file did; unless one of these wrote its own map over the put
\* and the process was killed before the bot itself wrote the file again.
QuietAfterIgnore == [][OnlyUnpromised]_vars

\* "As the value is added, we need to dump to file" (utils/utils.ts:82): no start
\* of a process makes a bot forget whom it put off.
NothingForgotten ==
    \A p \in Processes : RunStarts(p) =>
        \A u \in TakenUp(p) : ~Forgotten(MemoryOf(p), u)
RemembersWhatItSaved == [][NothingForgotten]_vars

\* The liquidations a process sent in its present life that are not yet mined.
InFlight(p) == {tx \in pending : tx.process = p /\ tx.life = process[p].life}

\* A process has at most one liquidation in flight in its life, and waits for
\* it: the bots share one account, whose transactions would otherwise race.
OneAtATime ==
    \A p \in Processes :
        \/ InFlight(p) = {}
        \/ /\ process[p].pc = "wait"
           /\ InFlight(p) = {[process |-> p, life |-> process[p].life, user |-> User(p)]}

\* A bot of the script can do its work, or the combo script's other one can.
CanWork ==
    /\ "graph" \notin setting.down
    /\ \E p \in Processes : \E bot \in BotsOf(p) :
           bot \notin setting.down /\ (bot = "odos" => "odosApi" \notin setting.down)

\* The users who can be liquidated with a profit.
Liquidatable(u) ==
    u \notin UNION {setting.unprofitable, setting.routeless, setting.unreadable}

\* The three situations in which a bot leaves users alone for good.
\* Combo: an Odos bot whose every swap fails returns and does not throw.
NoFallback ==
    setting.script = "combo" /\ "odos" \notin setting.down /\ "odosApi" \in setting.down

\* UniswapV3: a user who can never be read takes the batch along.
BatchesRejected ==
    setting.script = "uniswap" /\ setting.batchSize > 1
        /\ setting.unreadable \cap setting.borrowers # {}

\* A process died while it wrote its file of ignored users: saveToFile writes in
\* place, and initializeIfNeeded throws from then on.
FileTorn == file.state = "torn"

Served(u) == Liquidatable(u) /\ health[u] = "liquidatable" ~> health[u] = "healthy"

\* In every setting in which a bot can work, a user who may be liquidated with a
\* profit is, or is no longer unhealthy, whatever is interrupted, refused or
\* ignored for a while on the way: in all but the three situations above.
EventuallyLiquidated ==
    CanWork =>
        \A u \in Users : Served(u) \/ <>(NoFallback \/ BatchesRejected \/ FileTorn)

\* "The entry point for the combo liquidator bot that tries Odos first, then falls
\* back to Curve" (scripts/liquidator-bot/combo/run.ts:56).
FallsBackToCurve ==
    setting.script = "combo" /\ CanWork => \A u \in Users : Served(u)
=============================================================================
