---------------------------- MODULE MCCloseTrigger ----------------------------
(* Two or three outside signals, as listenBrowser adds to a listener and to a *)
(* browser connection, on either kind of object.                              *)
EXTENDS CloseTrigger
=============================================================================
