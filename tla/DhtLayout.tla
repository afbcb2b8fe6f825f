------------------------------ MODULE DhtLayout ------------------------------
(***************************************************************************)
(* The layout of a distributed directory (cluster/dht, dht-layout.c and    *)
(* the arithmetic of dht-selfheal.c).                                      *)
(*                                                                         *)
(* A layout is a list with one entry per subvolume: the interval           *)
(* start..stop of the hash ring the subvolume is to hold, and err, what is *)
(* known of the directory there: 0 it has its interval on disk, -1 it      *)
(* exists and has none, otherwise the errno of the call that failed.  A    *)
(* name belongs to the first entry whose interval holds its hash.  The     *)
(* ring is 0..RingMax (0xffffffff in the code) and the intervals are       *)
(* unsigned 32 bit numbers, so that arithmetic on them is modulo           *)
(* RingMax + 1; an entry without an interval has start = stop = 0.         *)
(***************************************************************************)
EXTENDS Integers, Sequences, FiniteSets, SequencesExt

CONSTANTS RingMax,      \* the largest hash value: 2^32 - 1 in the code
          StartAt       \* hash of the directory's path: where a layout starts

ENOENT == 2
EEXIST == 17
ENOSPC == 28
ENOTEMPTY == 39
ENOTCONN == 107
ESTALE == 116

\* No trusted.glusterfs.dht on the directory.
NoRange == <<>>

Wrap(n) == n % (RingMax + 1)

Ring == 0 .. RingMax

-----------------------------------------------------------------------------
\* The reply of subvol goes into the next free entry: an error as it is, a
\* directory without the attribute as -1, one with it as its interval.
dht_layout_merge(list, subvol, op_errno, range) ==
    Append(list,
           IF op_errno = 0 /\ range # NoRange
             THEN [sub |-> subvol, err |-> 0, start |-> range[1], stop |-> range[2]]
             ELSE [sub |-> subvol, err |-> IF op_errno # 0 THEN op_errno ELSE -1,
                   start |-> 0, stop |-> 0])

\* What is written on the subvolume for the entry.
dht_disk_layout_extract(entry) == <<entry.start, entry.stop>>

dht_layout_entry_cmp(a, b) ==
    IF a.err # 0 \/ b.err # 0 THEN a.err - b.err ELSE a.start - b.start

dht_layout_sort(list) ==
    SortSeq(list, LAMBDA a, b : dht_layout_entry_cmp(a, b) < 0)

dht_layout_sort_volname(list) ==
    SortSeq(list, LAMBDA a, b : a.sub < b.sub)

\* The subvolume a hash belongs to, 0 if there is none: the first entry whose
\* interval holds it, whatever its err.
dht_layout_search(list, hash) ==
    LET i == SelectInSeq(list, LAMBDA e : e.start <= hash /\ hash <= e.stop)
    IN  IF i = 0 THEN 0 ELSE list[i].sub

-----------------------------------------------------------------------------
\* One entry of the sorted list, after prev, the end of the interval before.
Anomaly(a, e) ==
    IF e.err # 0
      THEN CASE e.err \in {-1, ENOENT}       -> [a EXCEPT !.missing = @ + 1]
             [] e.err \in {ENOTCONN, ENOSPC} -> [a EXCEPT !.down = @ + 1]
             [] OTHER                        -> [a EXCEPT !.misc = @ + 1]
      ELSE [a EXCEPT !.virgin = FALSE,
                     !.holes = IF Wrap(a.prev + 1) < e.start THEN @ + 1 ELSE @,
                     !.overlaps = IF Wrap(a.prev + 1) > e.start THEN @ + 1 ELSE @,
                     !.prev = e.stop]

\* Holes and overlaps of the sorted list, and the entries that are not 0.
dht_layout_anomalies(list) ==
    LET last == Wrap(list[1].start - 1)
        all  == FoldLeft(Anomaly,
                         [prev |-> last, virgin |-> TRUE, holes |-> 0, overlaps |-> 0,
                          missing |-> 0, down |-> 0, misc |-> 0], list)
    IN  IF all.prev # last \/ all.virgin
          THEN [all EXCEPT !.holes = @ + 1] ELSE all

\* The sorted list is not fit for use as it is.
dht_layout_normalize(list) ==
    LET found == dht_layout_anomalies(list)
    IN  \/ found.holes > 0 \/ found.overlaps > 0
        \/ \E i \in DOMAIN list : list[i].err = ENOENT

\* The directory on subvol does not have the interval the layout has for it.
dht_layout_dir_mismatch(list, subvol, range) ==
    LET i == SelectInSeq(list, LAMBDA e : e.sub = subvol)
    IN  \/ i = 0
        \/ range = NoRange /\ list[i].err = 0
        \/ /\ range # NoRange
           /\ dht_disk_layout_extract(list[i]) # range

-----------------------------------------------------------------------------
\* The entries a new layout is spread over: the directories that are there,
\* the full ones only if all of them are full.
Usable(list) ==
    LET there == {i \in DOMAIN list : list[i].err \in {-1, 0}}
    IN  IF there # {} THEN there ELSE {i \in DOMAIN list : list[i].err = ENOSPC}

\* Position of entry i counted from the entry the layout starts with.
dht_selfheal_layout_alloc_start(list, i) ==
    (i - 1 - (StartAt % Len(list))) % Len(list)

\* A bug this could have: the last interval ends where its chunk ends.
new_directory_short(list) ==
    LET use   == Usable(list)
        chunk == RingMax \div Cardinality(use)
        rank(i) == Cardinality({j \in use : dht_selfheal_layout_alloc_start(list, j)
                                          < dht_selfheal_layout_alloc_start(list, i)})
    IN  [i \in DOMAIN list |->
          IF i \notin use THEN list[i]
          ELSE [list[i] EXCEPT !.err = -1, !.start = rank(i) * chunk,
                               !.stop = rank(i) * chunk + chunk - 1]]

\* Equal chunks of the ring to the usable entries in their order from the
\* starting one; the last also gets what the division leaves.
dht_selfheal_layout_new_directory(list) ==
    LET use   == Usable(list)
        chunk == RingMax \div Cardinality(use)
        rank(i) == Cardinality({j \in use : dht_selfheal_layout_alloc_start(list, j)
                                          < dht_selfheal_layout_alloc_start(list, i)})
    IN  [i \in DOMAIN list |->
          IF i \notin use THEN list[i]
          ELSE [list[i] EXCEPT
                  !.err = -1,
                  !.start = rank(i) * chunk,
                  !.stop = IF rank(i) + 1 = Cardinality(use) THEN RingMax
                           ELSE rank(i) * chunk + chunk - 1]]

\* Any anomaly gives the whole directory a new layout.
dht_selfheal_dir_getafix(list, found) ==
    IF found.holes > 0 \/ found.missing > 0 \/ found.overlaps > 0
      THEN dht_selfheal_layout_new_directory(list) ELSE list
=============================================================================
