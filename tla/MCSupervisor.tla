---------------------------- MODULE MCSupervisor ----------------------------
(***************************************************************************)
(* Small instances of static delivery with a managed Envoy for TLC.        *)
(***************************************************************************)
EXTENDS StaticDelivery
=============================================================================
