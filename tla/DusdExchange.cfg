\* An exchange takes in a collateral its vault does not support.
SPECIFICATION Spec
CONSTANTS
  usdc = usdc
  frax = frax
  dusd = dusd
  receipt = receipt
  user = user
  amo = amo
  vault = vault
  vault2 = vault2
  Collaterals = {usdc, frax}
  Dusd = dusd
  DebtToken = receipt
  Accounts = {user, amo}
  Vaults = {vault}
  Issuer = issuer
  Redeemer = redeemer
  Manager = manager
  Unit <- MCUnit
  BaseUnit = 2
  MayBeAllowlisted = {}
  InitialAllowlist = {vault, manager}
  InitialBalance <- MCBalance
  Amounts = {1, 2}
  PriceChoices <- SteadyPrices
  InitialPrice <- MCPrice
  InitialSupported <- FraxSupported
  Listable = {}
  Strategists = {amo}
  InitialVault = vault
  SlippageBounds = {0, 100}
  PauseChoices = {}
  CapChoices = {}
  MaxDusdSupply = 3
  OneHundredPercentBps = 4
  MaxFeeBps = 2
  InitialFeeBps = 2
  InitialFeeReceiver = amo
  FeeChoices = {}
  FeeReceivers = {}
  RedemptionManagers = {amo}
  PegScale = 4
  InitialPegDeviation = 1
  InitialWallets = {amo}
  AmoWallets = {amo}
  ToleranceChoices = {}
  PegChoices = {}
  MaxAmoDusd = 3
  MaxDebt = 6
PROPERTY TakesInOnlySupported
CHECK_DEADLOCK FALSE
