--------------------------------- MODULE Bcd ---------------------------------
(***************************************************************************)
(* The two-digit binary coded decimals of hardware/rtc.c.  All arithmetic  *)
(* is on uint8_t: what is stored or passed on is taken modulo 256.         *)
(***************************************************************************)
EXTENDS Integers

uint8_t(n) == n % 256

dec2bcd(val) == uint8_t((val \div 10) * 16 + (val % 10))

bcd2dec(val) == uint8_t((val \div 16) * 10 + (val % 16))

(* Masking with 0x7f, 0x3f and 0x1f. *)
And7f(val) == val % 128
And3f(val) == val % 64
And1f(val) == val % 32

(* What the chip takes a byte for: its nibbles are the digits. *)
IsBcd(byte, n) == byte \div 16 = n \div 10 /\ byte % 16 = n % 10
==============================================================================
