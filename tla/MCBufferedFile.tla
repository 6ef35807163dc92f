---------------------------- MODULE MCBufferedFile ----------------------------
(* Pages of two bytes: a write within a page, one that spans two pages and
   one that is written past the buffer; lines that end at the end of a page
   and within one. *)
EXTENDS BufferedFile

CONSTANTS nul, lf, cr

Texts == {<<lf>>, <<cr>>, <<lf, nul>>, <<nul, lf, lf>>}
=============================================================================
