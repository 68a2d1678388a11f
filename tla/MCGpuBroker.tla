----------------------------- MODULE MCGpuBroker -----------------------------
(* Three workers that alternate between two sheets, and a device that has   *)
(* room for two of their bitmaps.                                           *)
EXTENDS GpuBroker

=============================================================================
