------------------------- MODULE MCInvoicePayments --------------------------
(* InvoicePayments on small sets; the bounds are in the configurations.    *)
EXTENDS InvoicePayments

CONSTANTS a1, a2, m1, m2, v1, v2

=============================================================================
