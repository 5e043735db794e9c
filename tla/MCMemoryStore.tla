--------------------------- MODULE MCMemoryStore ---------------------------
(* A working copy that gains a caller and loses its manifest, or loses its *)
(* source file.                                                            *)
EXTENDS MemoryStore

MCCheckouts == { [src |-> "f",       manifest |-> "present"],
                 [src |-> "f and g", manifest |-> "absent"],
                 [src |-> "absent",  manifest |-> "present"] }
=============================================================================
