---------------------------- MODULE MCBootloader ----------------------------
(* Files for model checking the bootloader.                                *)
EXTENDS Bootloader

CONSTANTS v1, v2, torn, tnd, big, blink, rbl, alien, raw

Row(fmt, tgt, n, snd, vec) ==
  [format |-> fmt, target |-> tgt, size |-> n, sound |-> snd, vector |-> vec]

Catalogue(f) ==
  CASE f = v1    -> Row("fota", "P2001_DRV", 2, TRUE, TRUE)
    [] f = v2    -> Row("fota", "P2001_DRV", 2, TRUE, TRUE)
    [] f = torn  -> Row("fota", "P2001_DRV", 1, FALSE, TRUE)
    [] f = blink -> Row("fota", "P2001_DRV", 1, TRUE, FALSE)
    [] f = tnd   -> Row("fota", "TND", 1, TRUE, TRUE)
    [] f = alien -> Row("fota", "other", 1, TRUE, TRUE)
    [] f = rbl   -> Row("rbl", "other", 1, TRUE, TRUE)
    [] f = raw   -> Row("raw", "other", 1, TRUE, TRUE)
    [] f = big   -> Row("fota", "P2001_DRV", Blocks + 1, TRUE, TRUE)

MCFormat == [f \in Files |-> Catalogue(f).format]
MCTarget == [f \in Files |-> Catalogue(f).target]
MCSize   == [f \in Files |-> Catalogue(f).size]
MCSound  == [f \in Files |-> Catalogue(f).sound]
MCVector == [f \in Files |-> Catalogue(f).vector]
=============================================================================
