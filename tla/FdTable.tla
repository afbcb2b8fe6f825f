------------------------------ MODULE FdTable ------------------------------
(***************************************************************************)
(* The table that gives a process's or a connection's open files small      *)
(* numbers: libglusterfs/src/fd.c.  A table is a record                     *)
(*                                                                         *)
(*   max   number of entries (max_fds)                                      *)
(*   ent   the entries, 0 .. max-1: the file kept there or NoFile, and      *)
(*         next_free: Allocated, End or the number of the next free entry   *)
(*   first first_free                                                      *)
(*                                                                         *)
(* Unit is the number of entries in a kilobyte (64 in the code).            *)
(***************************************************************************)
EXTENDS Integers

CONSTANTS NoFile, Unit

Allocated == -2
End == -1

FreeEntry(next) == [fd |-> NoFile, next |-> next]

\* The smallest power of two above nr (the code's loop stops at result > nr).
gf_roundup_power_of_two(nr) ==
    CHOOSE p \in {2 ^ k : k \in 0 .. nr + 1} :
        p > nr /\ \A k \in 0 .. nr + 1 : 2 ^ k > nr => p <= 2 ^ k

\* Entry i of a fresh chain that runs up to entry max-1.
gf_fd_chain_fd_entries(i, max) == FreeEntry(IF i = max - 1 THEN End ELSE i + 1)

gf_fd_fdtable_expand(t, nr) ==
    LET max == gf_roundup_power_of_two((nr \div Unit) + 1) * Unit
    IN  [max |-> max,
         ent |-> [i \in 0 .. max - 1 |->
                     IF i < t.max THEN t.ent[i] ELSE gf_fd_chain_fd_entries(i, max)],
         first |-> t.max]

gf_fd_fdtable_alloc ==
    gf_fd_fdtable_expand([max |-> 0, ent |-> <<>>, first |-> End], 0)

\* Every entry is handed to the caller and a fresh chain takes their place;
\* first_free keeps its value.
gf_fd_fdtable_get_all_fds(t) ==
    [fds |-> {t.ent[i].fd : i \in 0 .. t.max - 1} \ {NoFile},
     left |-> [t EXCEPT !.ent = [i \in 0 .. t.max - 1 |-> gf_fd_chain_fd_entries(i, t.max)]]]

TakeFirst(t, f) ==
    [no |-> t.first,
     left |-> [t EXCEPT !.first = t.ent[t.first].next,
                        !.ent[t.first] = [fd |-> f, next |-> Allocated]]]

gf_fd_unused_get(t, f) ==
    IF t.first # End THEN TakeFirst(t, f)
    ELSE TakeFirst(gf_fd_fdtable_expand(t, t.max + 1), f)

gf_fd_fdptr_get(t, no) == IF no < t.max THEN t.ent[no].fd ELSE NoFile

gf_fd_put(t, no) ==
    IF no >= t.max \/ t.ent[no].next # Allocated THEN [fd |-> NoFile, left |-> t]
    ELSE [fd |-> t.ent[no].fd,
          left |-> [t EXCEPT !.first = no, !.ent[no] = FreeEntry(t.first)]]

FilesOf(t) == {t.ent[i].fd : i \in 0 .. t.max - 1} \ {NoFile}
\* The entries a walk along next_free from first reaches.
FreeChain(t) ==
    LET step(S) == S \cup {t.ent[i].next : i \in {j \in S : t.ent[j].next \in Nat}}
        walk[n \in 0 .. t.max] ==
            IF n = 0 THEN IF t.first = End THEN {} ELSE {t.first}
            ELSE step(walk[n - 1])
    IN  walk[t.max]

(***************************************************************************)
(* The table is sound: no file has two numbers, no number on the free chain *)
(* is in use (gf_fd_unused_get hands it out without looking), and an entry  *)
(* in use holds a file.                                                     *)
(***************************************************************************)
Sound(t) ==
    /\ \A i, j \in 0 .. t.max - 1 :
           t.ent[i].fd = t.ent[j].fd /\ t.ent[i].fd # NoFile => i = j
    /\ \A i \in FreeChain(t) : t.ent[i].next # Allocated
    /\ \A i \in 0 .. t.max - 1 : t.ent[i].next = Allocated <=> t.ent[i].fd # NoFile
=============================================================================
