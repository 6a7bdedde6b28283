SPECIFICATION LiveSpec
CONSTANTS
  wBTC = wBTC
  TBILL = TBILL
  CoinGecko = CoinGecko
  Binance = Binance
  ManualNAV = ManualNAV
  Assets <- MCAssets
  Sources <- MCSources
  Covers <- MCCovers
  Polled <- MCPolled
  NavPrices <- MCNavPrices
  Prices = {20, 22, 24}
  BootstrapPrice = 7
  Threshold = 10
  MinSources = 1
  RecoveryWindow = 2
  MaxSourceAge = 2
INVARIANTS TypeOK PublishedIsValid PoolsFollowOracle
PROPERTIES NoJumpReachesPools AutoRecovers
