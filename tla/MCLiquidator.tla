---------------------------- MODULE MCLiquidator ----------------------------
(***************************************************************************)
(* Small settings of the liquidator bots.  The hazards of one bot are not  *)
(* multiplied with those of another: each setting has its own bounds.      *)
(***************************************************************************)
EXTENDS LiquidatorProperties

One == {"p1"}
AllMemories == One \X Bots

\* 3 minutes for Odos and Curve and 60 for UniswapV3, shortened.
Minutes == [m \in AllMemories |-> IF m[2] = "uniswap" THEN 3 ELSE 2]

Plain(script) ==
  [script |-> script, batchSize |-> 2, borrowers |-> {"u1", "u2"}, unprofitable |-> {},
   dusdDebtors |-> {"u1"}, routeless |-> {}, unreadable |-> {}, down |-> {}, tears |-> FALSE,
   faults |-> [requests |-> 0, reads |-> 0, crashes |-> 0, moves |-> 2]]

\* Three users in two batches, one of them not worth it; failing calls and a restart.
OdosSetting ==
  [Plain("odos") EXCEPT !.borrowers = {"u1", "u2", "u3"}, !.unprofitable = {"u2"},
     !.faults = [requests |-> 1, reads |-> 0, crashes |-> 1, moves |-> 2]]

\* A process that may die while it writes its file.
TearingSetting ==
  [Plain("odos") EXCEPT !.unprofitable = {"u2"}, !.tears = TRUE, !.faults.crashes = 1]

\* The read of one batch of health factors fails, and one user has no swap path.
UniswapSetting ==
  [Plain("uniswap") EXCEPT !.routeless = {"u2"},
     !.faults = [requests |-> 1, reads |-> 1, crashes |-> 1, moves |-> 3]]

\* A user who can never be read, whom the shuffle moves around in the one batch.
ShuffleSetting ==
  [Plain("curve") EXCEPT !.batchSize = 3, !.borrowers = {"u1", "u2", "u3"}, !.unreadable = {"u1"}]

\* Odos runs throw: after its trials the Curve bot has its turn.
ComboSetting ==
  [Plain("combo") EXCEPT !.routeless = {"u2"}, !.down = {"odos"},
     !.faults = [requests |-> 2, reads |-> 0, crashes |-> 1, moves |-> 2]]

\* Failing requests give either bot its turn, so that both memories write the file.
BothSetting ==
  [Plain("combo") EXCEPT !.routeless = {"u2"},
     !.faults = [requests |-> 4, reads |-> 0, crashes |-> 1, moves |-> 2]]

\* The swaps of the Odos bot fail.
NoFallbackSetting == [Plain("combo") EXCEPT !.down = {"odosApi"}]

\* A user who can never be read shares the one batch of the UniswapV3 bot.
RejectedSetting == [Plain("uniswap") EXCEPT !.unreadable = {"u2"}]

AllSettings ==
  {OdosSetting, TearingSetting, UniswapSetting, ShuffleSetting, ComboSetting, BothSetting,
   NoFallbackSetting, RejectedSetting}

OnlyBoth == {BothSetting}
OnlyNoFallback == {NoFallbackSetting}
=============================================================================
