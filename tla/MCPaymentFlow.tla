---------------------------- MODULE MCPaymentFlow ----------------------------
(* PaymentFlow with the transfers of MCPayments.                            *)
EXTENDS PaymentFlow, MCPayments

CONSTANT r3
==============================================================================
