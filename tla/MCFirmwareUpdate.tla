-------------------------- MODULE MCFirmwareUpdate --------------------------
(***************************************************************************)
(* FirmwareUpdate with the version from the factory and one whose system   *)
(* does not come up and whose boot.vfat does not get to the boot script.   *)
(***************************************************************************)
EXTENDS FirmwareUpdate

CONSTANTS v1, bad

\* Full bundles of both, and the root file system alone of the bad one.
BothAndRootfs ==
  {[version |-> v1, full |-> TRUE],
   [version |-> bad, full |-> TRUE], [version |-> bad, full |-> FALSE]}
=============================================================================
