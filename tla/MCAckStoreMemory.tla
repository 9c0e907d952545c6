-------------------------- MODULE MCAckStoreMemory --------------------------
(* The memory backend on two names, of which one is acknowledged in delivery *)
(* order.                                                                    *)
EXTENDS AckStoreMemory
=============================================================================
