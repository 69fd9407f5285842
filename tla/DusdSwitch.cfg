\* Two vaults: contracts switched from one to the other, listings and allowlist changing,
\* while dUSD and the debt token leave their pegs and the guard is changed.
SPECIFICATION Spec
CONSTANTS
  usdc = usdc
  frax = frax
  dusd = dusd
  receipt = receipt
  user = user
  amo = amo
  vault = vault
  vault2 = vault2
  Collaterals = {usdc}
  Dusd = dusd
  DebtToken = receipt
  Accounts = {user, amo}
  Vaults = {vault, vault2}
  Issuer = issuer
  Redeemer = redeemer
  Manager = manager
  Unit <- EvenUnit
  BaseUnit = 2
  MayBeAllowlisted = {vault2, manager}
  InitialAllowlist = {vault, manager}
  InitialBalance <- SmallBalance
  Amounts = {1}
  PriceChoices <- PegPrices
  InitialPrice <- EvenPrice
  InitialSupported <- AllSupported
  Listable = {receipt}
  Strategists = {amo}
  InitialVault = vault
  SlippageBounds = {0, 100}
  PauseChoices = {}
  CapChoices = {}
  MaxDusdSupply = 2
  OneHundredPercentBps = 4
  MaxFeeBps = 2
  InitialFeeBps = 2
  InitialFeeReceiver = amo
  FeeChoices = {}
  FeeReceivers = {}
  RedemptionManagers = {amo}
  PegScale = 4
  InitialPegDeviation = 1
  InitialWallets = {amo}
  AmoWallets = {amo}
  ToleranceChoices = {}
  PegChoices = {0, 1}
  MaxAmoDusd = 2
  MaxDebt = 2
INVARIANTS AtRest
PROPERTIES RetiredVaultKeepsWorth DebtFrozenOffPeg AmoTouchesOnlyWallets
CHECK_DEADLOCK FALSE
