-------------------------- MODULE MCCommandDispatch --------------------------
(***************************************************************************)
(* A small instance of the command dispatch: one command of each shape the *)
(* table _COMMANDS has - a toggle that latches before it sends, one that   *)
(* latches after, a single-QTRM command and the bare-frame command.        *)
(***************************************************************************)
EXTENDS CommandDispatch

MCKinds       == {"qcc_status", "link_test", "individual_link_test", "chip_id_read"}
MCAutoKinds   == {"qcc_status", "link_test"}
MCEarlyKinds  == {"qcc_status"}
MCTargetKinds == {"individual_link_test"}
MCBareKinds   == {"chip_id_read"}
=============================================================================
