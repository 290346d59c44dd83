---------------------------- MODULE MCExceptionCore ----------------------------
(* One core taking exceptions, model-checked. *)
EXTENDS ExceptionCore
=============================================================================
