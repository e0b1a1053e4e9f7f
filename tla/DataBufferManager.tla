------------------------- MODULE DataBufferManager --------------------------
(***************************************************************************)
(* The table of large results of one process                               *)
(* (src/ipc/DataBufferManager.cpp): what each critical section of its      *)
(* mutex_ does to the table and what it answers.  A table maps the ids it  *)
(* lists to entries.                                                       *)
(***************************************************************************)
EXTENDS Integers

CONSTANTS
  SizeModulus   (* 2^64: the values of size_t                                 *)

ASSUME SizeAssumption == SizeModulus \in Nat \ {0}

Types == {"float32", "float64", "unknown"}

(* data_type_size; the other types have the sizes of these two, or one byte. *)
data_type_size(d) ==
  IF d = "float32" THEN 4 ELSE IF d = "float64" THEN 8 ELSE 0

(* byte_size, a product of two size_t.                                       *)
byte_size(d, n) == (n * data_type_size(d)) % SizeModulus

(* The milliseconds of the system clock and next_buffer_id_.                 *)
generate_buffer_id(ms, n) == <<ms, n>>

Entry(d, n) == [element_count |-> n, data_type |-> d,
                byte_size |-> byte_size(d, n), ref_count |-> 1]

With(T, id, e) == [i \in DOMAIN T \cup {id} |-> IF i = id THEN e ELSE T[i]]
Without(T, id) == [i \in DOMAIN T \ {id} |-> T[i]]

(* try_emplace: an entry that is there stays.                                *)
insert(T, id, d, n) == IF id \in DOMAIN T THEN T ELSE With(T, id, Entry(d, n))

get_buffer(T, id) ==
  IF id \in DOMAIN T THEN [T EXCEPT ![id].ref_count = @ + 1] ELSE T

(* Fault: the entry goes with the first release.                             *)
release_buffer_erases(T, id) == Without(T, id)

release_buffer(T, id) ==
  IF id \in DOMAIN T /\ T[id].ref_count > 1
  THEN [T EXCEPT ![id].ref_count = @ - 1]
  ELSE Without(T, id)

clear_all(T) == <<>>

list_buffers(T) == DOMAIN T

(* What DataBuffer::export_to_csv reads of the block of an entry.            *)
export_to_csv(e) == e.element_count * data_type_size(e.data_type)
=============================================================================
