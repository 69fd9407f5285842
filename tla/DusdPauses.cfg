\* Pauses, caps, fees and fee receivers of the issuer and the redeemer; no AMO.
SPECIFICATION Spec
CONSTANTS
  usdc = usdc
  frax = frax
  dusd = dusd
  receipt = receipt
  user = user
  amo = amo
  vault = vault
  vault2 = vault2
  Collaterals = {usdc}
  Dusd = dusd
  DebtToken = receipt
  Accounts = {user, amo}
  Vaults = {vault}
  Issuer = issuer
  Redeemer = redeemer
  Manager = manager
  Unit <- EvenUnit
  BaseUnit = 2
  MayBeAllowlisted = {}
  InitialAllowlist = {vault, manager}
  InitialBalance <- SmallBalance
  Amounts = {1, 2}
  PriceChoices <- SteadyPrices
  InitialPrice <- EvenPrice
  InitialSupported <- OnlyUsdc
  Listable = {}
  Strategists = {}
  InitialVault = vault
  SlippageBounds = {0, 1}
  PauseChoices = {TRUE, FALSE}
  CapChoices = {0, 1}
  MaxDusdSupply = 3
  OneHundredPercentBps = 4
  MaxFeeBps = 2
  InitialFeeBps = 2
  InitialFeeReceiver = amo
  FeeChoices = {0, 2, 3}
  FeeReceivers = {user, amo}
  RedemptionManagers = {user}
  PegScale = 4
  InitialPegDeviation = 1
  InitialWallets = {}
  AmoWallets = {}
  ToleranceChoices = {}
  PegChoices = {}
  MaxAmoDusd = 3
  MaxDebt = 6
PROPERTIES PausesHold RedemptionPaysFairly
CHECK_DEADLOCK FALSE
