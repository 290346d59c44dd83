----------------------------- MODULE MCIrqDelivery -----------------------------
(* Interrupt delivery, model-checked. *)
EXTENDS IrqDelivery

OneRoute == {{c} : c \in Cores}
=============================================================================
