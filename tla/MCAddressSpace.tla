--------------------------- MODULE MCAddressSpace ---------------------------
(* Two threads that fault in the same huge page, for AddressSpace. *)
EXTENDS AddressSpace

CONSTANTS t1, t2

MCSetups == {[threads |-> {t1, t2}, accesses |-> (1 .. 2) \X BOOLEAN, last |-> 2,
              perms |-> {{"read", "write"}}, small |-> BOOLEAN, pop |-> {FALSE},
              tlb |-> FALSE]}
=============================================================================
