-------------------------------- MODULE Option --------------------------------
(* What an Option of the web client's signals and fields is without a value. *)
CONSTANT none
=============================================================================
