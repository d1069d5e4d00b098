------------------------------- MODULE MCUsb -------------------------------
(***************************************************************************)
(* Two URBs compete for one request id; one port.  With one id a request   *)
(* has to wait in the queue, which 64 ids would need 65 URBs for.          *)
(***************************************************************************)
EXTENDS Usb

OneId == {1}
=============================================================================
