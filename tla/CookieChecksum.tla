--------------------------- MODULE CookieChecksum ----------------------------
(***************************************************************************)
(* crc_checksum of CookieJar.cpp, with which the payload is checked.       *)
(***************************************************************************)
EXTENDS Integers, SequencesExt, Bitwise

(* crc_tbl, indexed from 0.                                                *)
crc_tbl == [i \in 0..15 |->
    <<     0,  4225,  8450, 12675, 16900, 21125, 25350, 29575,
       33800, 38025, 42250, 46475, 50700, 54925, 59150, 63375>>[i + 1]]

nibble(r, c) == ((r \div 16) % 4096) ^^ crc_tbl[(r ^^ c) % 16]

(* Both halves of every byte; then ~crc & 0xffff.                          *)
crc_checksum(text) ==
    LET crc == FoldLeft(LAMBDA r, c : nibble(nibble(r, c), c \div 16), 65535, text)
    IN  (-crc - 1) % 65536
=============================================================================
