------------------------------ MODULE MCPaging ------------------------------
(* Paging for TLC: kmap in the proportions of the code, from KERNBASE in    *)
(* the middle of the address space to DEVSPACE at its end.                 *)
EXTENDS Paging

MCkmap == <<[virt |-> 16, size |-> 2], [virt |-> 18, size |-> 4],
            [virt |-> 22, size |-> 4], [virt |-> 28, size |-> 4]>>
=============================================================================
