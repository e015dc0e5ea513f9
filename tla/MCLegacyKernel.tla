--------------------------- MODULE MCLegacyKernel ---------------------------
(***************************************************************************)
(* LegacyKernel for TLC.  Three patch messages reach a start followed by a *)
(* stop or a second start and a query; two frontend messages reach an     *)
(* execute before and a message after kernel_free.                        *)
(***************************************************************************)
EXTENDS LegacyKernel

=============================================================================
