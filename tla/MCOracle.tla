------------------------------ MODULE MCOracle ------------------------------
(* Values for the constants of Oracle: a market asset with two sources, as wBTC
   has CoinGecko and Binance, and one that only has a manual price from the
   start on, as T-BILL-2026.  The runs check liveness, so they take no symmetry. *)
EXTENDS Oracle, TLC

CONSTANTS wBTC, TBILL, CoinGecko, Binance, ManualNAV

MCAssets == {wBTC, TBILL}
MCSources == {CoinGecko, Binance, ManualNAV}
MCCovers == {<<CoinGecko, wBTC>>, <<Binance, wBTC>>, <<ManualNAV, TBILL>>}
MCPolled == {CoinGecko}
MCNavPrices == <<ManualNAV, TBILL>> :> 20
=============================================================================
