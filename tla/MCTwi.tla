-------------------------------- MODULE MCTwi --------------------------------
(* Twi on a buffer of two bytes: calls of 0 to 3 bytes, of 2 byte values.  *)
EXTENDS Twi

MCByte == {0, 1}
==============================================================================
