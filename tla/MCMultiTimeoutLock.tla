------------------------- MODULE MCMultiTimeoutLock -------------------------
(* Three goroutines on two ids: a holder, a waiter and a newcomer can meet   *)
(* on one id while the other id comes and goes.  A goroutine keeps one       *)
(* mutex alive at a time, so three mutex objects always leave a free one     *)
(* for the goroutine that needs one.                                         *)
EXTENDS MultiTimeoutLock
=============================================================================
