---------------------------- MODULE MCFlashErase ----------------------------
(* A chip of 200 KB.  Areas of up to 200 KB start at every offset in the    *)
(* first 64 KB block and end at every offset in the third; some reach       *)
(* beyond the chip.                                                         *)
EXTENDS FlashErase

\* Chips of flash_chip_cfg.c that erase by 32 KB if they do so by 64 KB, and
\* by 4 KB.  (One that erases by 4 KB only is covered by the proof.)
MCChips == {{K4, K32}, {K4, K32, K64}}

\* MX25L1636E and MX25L1633E; M25P64.
MCOtherChips == {{K4, K64}, {K64}}
=============================================================================
