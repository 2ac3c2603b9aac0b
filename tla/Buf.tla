-------------------------------- MODULE Buf --------------------------------
(***************************************************************************)
(* Reference-counted buffers: lib/ngtcp2_buf.c and lib/ngtcp2_buf_alloc.c. *)
(*                                                                         *)
(* A buffer descriptor points into memory that an owner holds; the owner   *)
(* counts the descriptors.  An owner is a number, NoOwner is a null owner. *)
(* `ref' maps every owner to its count, zero for memory that is free, and  *)
(* `fault' records a use of a count that is zero: the assertion of         *)
(* default_owner_release, or a read or a retain of freed memory.           *)
(*                                                                         *)
(* The operators take any state record that has the fields ref and fault,  *)
(* so that the modules of the two directions can thread their own state    *)
(* through them.                                                           *)
(***************************************************************************)
EXTENDS Integers, FiniteSets

CONSTANT NumOwners   \* how many buffers the allocator has room for

ASSUME NumOwnersAssumption == NumOwners \in Nat \ {0}

Owners == 1 .. NumOwners
NoOwner == 0

NothingAllocated == [o \in Owners |-> 0]

\* Memory the allocator can hand out; freed memory is reused at once.
FreeOwners(s) == {o \in Owners : s.ref[o] = 0}

CanAlloc(s) == FreeOwners(s) # {}

\* ngtcp2_buf_alloc with default_alloc: the owner that is handed out ...
NewOwner(s) == CHOOSE o \in FreeOwners(s) : \A p \in FreeOwners(s) : o <= p

\* ... starts with one reference.
Alloc(s) == [s EXCEPT !.ref[NewOwner(s)] = 1]

\* ngtcp2_buf_retain_owner
Retain(s, o) ==
    IF o = NoOwner THEN s
    ELSE [s EXCEPT !.ref[o] = @ + 1, !.fault = @ \/ s.ref[o] = 0]

\* ngtcp2_buf_release_owner, ngtcp2_buf_alloc_release: a descriptor without
\* an owner releases nothing.
Release(s, o) ==
    IF o = NoOwner THEN s
    ELSE IF s.ref[o] = 0 THEN [s EXCEPT !.fault = TRUE]
    ELSE [s EXCEPT !.ref[o] = @ - 1]

\* Reading through a descriptor: a packet is encrypted from it, a callback
\* is given it.
Touch(s, o) ==
    IF o = NoOwner THEN s ELSE [s EXCEPT !.fault = @ \/ s.ref[o] = 0]
=============================================================================
