------------------------------- MODULE MCLed -------------------------------
(* A queue of two, far smaller than the ten of LED_EVT_QUEUE_MAX: the alerts  *)
(* of a low battery must not even fill that.  The period is the code's.       *)
EXTENDS Led
=============================================================================
