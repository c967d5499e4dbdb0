----------------------------- MODULE MCRdcuWire -----------------------------
(***************************************************************************)
(* RdcuWire for TLC.                                                       *)
(***************************************************************************)
EXTENDS RdcuWire

(* The router has header deletion, a clock divisor and a bit no function   *)
(* touches left over: what it has to change is there to be changed.        *)
MCNoise == {{0, 10} \cup 24 .. 31}

MCPatterns == {0 .. 31, {i \in 0 .. 31 : i % 3 = 0}}

(* All registers.  The setter of the reset keyword and the getters of the  *)
(* error counters, the scrubbing information and the link's state do not   *)
(* do what is documented: wire_documented is about them.                   *)
MCRegisters == DOMAIN ReadCmd \cup DOMAIN WriteCmd
MCUntouched == {"rdcu_board_reset_keyword"}
MCUnread    == {"spw_lnk_credit_errs", "spw_lnk_escape_errs",
                "spw_lnk_parity_errs", "spw_lnk_disconnect_errs",
                "edac_scrub_info", "spw_lnk_run_state"}

(* The characters rdcu_sync_adc_values knows, and another id.              *)
MCAdcIds == {0} \cup 49 .. 52
=============================================================================
