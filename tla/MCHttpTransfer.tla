--------------------------- MODULE MCHttpTransfer ---------------------------
(***************************************************************************)
(* A small instance of HttpTransfer for TLC: sizes of three bits.          *)
(***************************************************************************)
EXTENDS HttpTransfer

CONSTANTS cacheControl, etag
=============================================================================
