\* All operations on one vault, at moving prices, with the debt token listed and delisted.
SPECIFICATION Spec
CONSTANTS
  usdc = usdc
  frax = frax
  dusd = dusd
  receipt = receipt
  user = user
  amo = amo
  vault = vault
  vault2 = vault2
  Collaterals = {usdc, frax}
  Dusd = dusd
  DebtToken = receipt
  Accounts = {user, amo}
  Vaults = {vault}
  Issuer = issuer
  Redeemer = redeemer
  Manager = manager
  Unit <- MCUnit
  BaseUnit = 2
  MayBeAllowlisted = {}
  InitialAllowlist = {vault, manager}
  InitialBalance <- MCBalance
  Amounts = {1, 2}
  PriceChoices <- MovingPrices
  InitialPrice <- MCPrice
  InitialSupported <- AllSupported
  Listable = {receipt}
  Strategists = {amo}
  InitialVault = vault
  SlippageBounds = {0, 100}
  PauseChoices = {}
  CapChoices = {}
  MaxDusdSupply = 3
  OneHundredPercentBps = 4
  MaxFeeBps = 2
  InitialFeeBps = 2
  InitialFeeReceiver = amo
  FeeChoices = {}
  FeeReceivers = {}
  RedemptionManagers = {amo}
  PegScale = 4
  InitialPegDeviation = 1
  InitialWallets = {amo}
  AmoWallets = {amo}
  ToleranceChoices = {0}
  PegChoices = {}
  MaxAmoDusd = 3
  MaxDebt = 6
INVARIANTS TypeOK Conservation
PROPERTIES BackingPreserved MintOnlyUnderCover CoinSpec
CHECK_DEADLOCK FALSE
