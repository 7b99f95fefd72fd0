----------------------------- MODULE MCLifecycle -----------------------------
(* Two API callers and two starts, of a client and of a proxy: two concurrent *)
(* events, a Restart that overlaps a Stop, a Start or a Destroy, and a second *)
(* generation.                                                                *)
EXTENDS Lifecycle
=============================================================================
