----------------------------- MODULE MCAfrHeal ------------------------------
(* AFR beyond the write transaction: self-heal of files and of             *)
(* directories, the fops on entries, metadata, locks and data that is      *)
(* read, and the write transaction on three children. A behaviour is one   *)
(* of an instance, chosen in Init.                                         *)
EXTENDS Integers, Sequences, FiniteSets, TLC

CONSTANTS FopTable, h1, h2, f1, f2, d1, NoFd, NoXattr

AFT == INSTANCE AfrFopTable
AllAfrFops == AFT!fops

AllHistories == {"stale", "missing", "lnk", "fools", "split", "loose"}
NoSize == [c \in 0 .. 2 |-> 0]
Listing(a, b) == [a |-> a, b |-> b]
TwoListings == {<<Listing("reg", "l1"), Listing("none", "l2")>>,
                <<Listing("none", "dir"), Listing("reg", "none")>>}

\* Frames are alike.
Alike == Permutations({f1, f2})

VARIABLE part \* which of the instances below this behaviour is of

-----------------------------------------------------------------------------
\* self-heal of a file: with a fault; two clients; three children; with a write
VARIABLES copy, heal_up, heal, split, heal_latest, owning, heal_made, misowned,
          unlisted, mixed, heal_spoilt, heal_nheals, nwrites, heal_nfaults
healVars == <<copy, heal_up, heal, split, heal_latest, owning, heal_made, misowned,
              unlisted, mixed, heal_spoilt, heal_nheals, nwrites, heal_nfaults>>
healOff == copy = 0 /\ heal_up = 0 /\ heal = 0 /\ split = 0 /\ heal_latest = 0
           /\ owning = 0 /\ heal_made = 0 /\ misowned = 0 /\ unlisted = 0
           /\ mixed = 0 /\ heal_spoilt = 0 /\ heal_nheals = 0 /\ nwrites = 0
           /\ heal_nfaults = 0
HEAL == INSTANCE AfrHeal WITH NoXattr <- -1, FavoriteChild <- -1, Algo <- "",
    LockServers <- 1, CallerUid <- 1, Healer <- {h1}, ChildCount <- 2, Window <- 2,
    Latests <- {<<1, 2>>}, Stales <- {<<7, 8, 9>>, <<>>}, Histories <- AllHistories,
    MaxHeals <- 2, MaxWrites <- 0, MaxHealFaults <- 1, up <- heal_up,
    latest <- heal_latest, made <- heal_made, spoilt <- heal_spoilt,
    nheals <- heal_nheals, nfaults <- heal_nfaults
HEAL2 == INSTANCE AfrHeal WITH NoXattr <- -1, FavoriteChild <- -1, Algo <- "",
    LockServers <- 1, CallerUid <- 1, Healer <- {h1, h2}, ChildCount <- 2,
    Window <- 1, Latests <- {<<1, 2>>}, Stales <- {<<7>>}, Histories <- {"stale"},
    MaxHeals <- 2, MaxWrites <- 0, MaxHealFaults <- 0, up <- heal_up,
    latest <- heal_latest, made <- heal_made, spoilt <- heal_spoilt,
    nheals <- heal_nheals, nfaults <- heal_nfaults
HEAL3 == INSTANCE AfrHeal WITH NoXattr <- -1, FavoriteChild <- -1, Algo <- "",
    LockServers <- 1, CallerUid <- 1, Healer <- {h1}, ChildCount <- 3, Window <- 1,
    Latests <- {<<1, 2>>, <<1>>}, Stales <- {<<7>>, <<7, 8>>},
    Histories <- AllHistories, MaxHeals <- 1, MaxWrites <- 0, MaxHealFaults <- 0,
    up <- heal_up, latest <- heal_latest, made <- heal_made, spoilt <- heal_spoilt,
    nheals <- heal_nheals, nfaults <- heal_nfaults
HEALW == INSTANCE AfrHeal WITH NoXattr <- -1, FavoriteChild <- -1, Algo <- "",
    LockServers <- 1, CallerUid <- 1, Healer <- {h1}, ChildCount <- 2, Window <- 2,
    Latests <- {<<1, 2>>}, Stales <- {<<7, 8, 9>>, <<>>}, Histories <- AllHistories,
    MaxHeals <- 2, MaxWrites <- 1, MaxHealFaults <- 0, up <- heal_up,
    latest <- heal_latest, made <- heal_made, spoilt <- heal_spoilt,
    nheals <- heal_nheals, nfaults <- heal_nfaults

-----------------------------------------------------------------------------
\* self-heal of a directory: with a fault; two clients; three children
VARIABLES dir, entry_up, sh, seen, opened, entry_latest, entry_made, orphan, merged,
          entry_spoilt, entry_nheals, nops, entry_nfaults
entryVars == <<dir, entry_up, sh, seen, opened, entry_latest, entry_made, orphan,
               merged, entry_spoilt, entry_nheals, nops, entry_nfaults>>
entryOff == dir = 0 /\ entry_up = 0 /\ sh = 0 /\ seen = 0 /\ opened = 0
            /\ entry_latest = 0 /\ entry_made = 0 /\ orphan = 0 /\ merged = 0
            /\ entry_spoilt = 0 /\ entry_nheals = 0 /\ nops = 0
            /\ entry_nfaults = 0
ENTRY == INSTANCE AfrHealEntry WITH NoXattr <- -1, EName <- {"a", "b"},
    Listings <- TwoListings, Client <- {h1}, ChildCount <- 2, DirSize <- NoSize,
    EHistories <- {"stale", "split", "fools", "loose"}, MaxEHeals <- 1, MaxEOps <- 1,
    MaxEFaults <- 1, up <- entry_up, latest <- entry_latest, made <- entry_made,
    spoilt <- entry_spoilt, nheals <- entry_nheals, nfaults <- entry_nfaults
ENTRY2 == INSTANCE AfrHealEntry WITH NoXattr <- -1, EName <- {"a", "b"},
    Listings <- TwoListings, Client <- {h1, h2}, ChildCount <- 2, DirSize <- NoSize,
    EHistories <- {"stale"}, MaxEHeals <- 2, MaxEOps <- 1, MaxEFaults <- 0,
    up <- entry_up, latest <- entry_latest, made <- entry_made,
    spoilt <- entry_spoilt, nheals <- entry_nheals, nfaults <- entry_nfaults
ENTRY3 == INSTANCE AfrHealEntry WITH NoXattr <- -1, EName <- {"a", "b"},
    Listings <- TwoListings, Client <- {h1}, ChildCount <- 3, DirSize <- NoSize,
    EHistories <- {"stale", "split"}, MaxEHeals <- 1, MaxEOps <- 0, MaxEFaults <- 0,
    up <- entry_up, latest <- entry_latest, made <- entry_made,
    spoilt <- entry_spoilt, nheals <- entry_nheals, nfaults <- entry_nfaults

-----------------------------------------------------------------------------
\* fops: each with a fault; two entry operations, and two creates with a fault; two setattr with their changelog and a fault; two lock calls
VARIABLES ents, meta, log, granted, plk, conn, fops_child_up, read_child, rr,
          fops_local, dropped, fops_spoilt, nfops, fops_nfaults
fopsVars == <<ents, meta, log, granted, plk, conn, fops_child_up, read_child, rr,
              fops_local, dropped, fops_spoilt, nfops, fops_nfaults>>
fopsOff == ents = 0 /\ meta = 0 /\ log = 0 /\ granted = 0 /\ plk = 0
           /\ conn = 0 /\ fops_child_up = 0 /\ read_child = 0 /\ rr = 0
           /\ fops_local = 0 /\ dropped = 0 /\ fops_spoilt = 0 /\ nfops = 0
           /\ fops_nfaults = 0
FOPS2 == INSTANCE AfrFops WITH ChildCount <- 2, EntryLocks <- 2,
    AfrFrame <- {f1, f2}, EntryName <- 1 .. 2, DirOf <- <<1, 2>>, MetaLog <- FALSE,
    MetaLocks <- 0, AfrFop <- {"create", "rename"}, Listings <- {<<1, 0>>},
    MaxFops <- 2, MaxAfrFaults <- 0, child_up <- fops_child_up, local <- fops_local,
    spoilt <- fops_spoilt, nfaults <- fops_nfaults
FOPSF == INSTANCE AfrFops WITH ChildCount <- 2, EntryLocks <- 2,
    AfrFrame <- {f1, f2}, EntryName <- {1}, DirOf <- <<1>>, MetaLog <- FALSE,
    MetaLocks <- 0, AfrFop <- {"create"}, Listings <- {<<0>>}, MaxFops <- 2,
    MaxAfrFaults <- 1, child_up <- fops_child_up, local <- fops_local,
    spoilt <- fops_spoilt, nfaults <- fops_nfaults
FOPS == INSTANCE AfrFops WITH ChildCount <- 2, EntryLocks <- 1, AfrFrame <- {f1},
    EntryName <- 1 .. 3, DirOf <- <<1, 1, 2>>, MetaLog <- FALSE, MetaLocks <- 0,
    AfrFop <- DOMAIN FopTable, Listings <- {<<1, 0, 100>>, <<101, 2, 0>>},
    MaxFops <- 1, MaxAfrFaults <- 1, child_up <- fops_child_up, local <- fops_local,
    spoilt <- fops_spoilt, nfaults <- fops_nfaults
META == INSTANCE AfrFops WITH ChildCount <- 2, EntryLocks <- 1, AfrFrame <- {f1, f2},
    EntryName <- 1 .. 2, DirOf <- <<1, 2>>, MetaLog <- TRUE, MetaLocks <- 1,
    AfrFop <- {"setattr"}, Listings <- {<<1, 0>>}, MaxFops <- 2, MaxAfrFaults <- 1,
    child_up <- fops_child_up, local <- fops_local, spoilt <- fops_spoilt,
    nfaults <- fops_nfaults
LK == INSTANCE AfrFops WITH ChildCount <- 2, EntryLocks <- 1, AfrFrame <- {f1, f2},
    EntryName <- 1 .. 2, DirOf <- <<1, 2>>, MetaLog <- FALSE, MetaLocks <- 0,
    AfrFop <- {"lk"}, Listings <- {<<1, 0>>}, MaxFops <- 2, MaxAfrFaults <- 1,
    child_up <- fops_child_up, local <- fops_local, spoilt <- fops_spoilt,
    nfaults <- fops_nfaults

-----------------------------------------------------------------------------
\* the write transaction: three children, two of which may go down; a child without locks; one without extended attributes
VARIABLES connected, reopening, txn_child_up, up_count, down_count, data, changelog,
          lock, fd_ctx, txn_local, ops, faulty, valid, txn_spoilt, running
txnVars == <<connected, reopening, txn_child_up, up_count, down_count, data,
             changelog, lock, fd_ctx, txn_local, ops, faulty, valid, txn_spoilt,
             running>>
txnOff == connected = 0 /\ reopening = 0 /\ txn_child_up = 0 /\ up_count = 0
          /\ down_count = 0 /\ data = 0 /\ changelog = 0 /\ lock = 0
          /\ fd_ctx = 0 /\ txn_local = 0 /\ ops = 0 /\ faulty = 0 /\ valid = 0
          /\ txn_spoilt = 0 /\ running = 0
TXN == INSTANCE AfrTransaction WITH FavoriteChild <- -1, ChildCount <- 3, Fd <- {d1},
    Frame <- {f1}, BlockCount <- 2, LockServerCount <- 2, Op <- {"WRITE"},
    NoLocks <- {}, NoXattrop <- {}, FailAt <- {}, MayCrash <- FALSE, MaxOps <- 2,
    MaxDown <- 2, MaxUp <- 1, UpWhileOpen <- FALSE, MaxFaulty <- 1,
    child_up <- txn_child_up, local <- txn_local, spoilt <- txn_spoilt
TXNL == INSTANCE AfrTransaction WITH FavoriteChild <- -1, ChildCount <- 2,
    Fd <- {d1}, Frame <- {f1}, BlockCount <- 1, LockServerCount <- 1,
    Op <- {"WRITE", "TRUNCATE"}, NoLocks <- {0}, NoXattrop <- {}, FailAt <- {"fop"},
    MayCrash <- TRUE, MaxOps <- 2, MaxDown <- 2, MaxUp <- 1, UpWhileOpen <- FALSE,
    MaxFaulty <- 2, child_up <- txn_child_up, local <- txn_local, spoilt <- txn_spoilt
TXNX == INSTANCE AfrTransaction WITH FavoriteChild <- -1, ChildCount <- 3,
    Fd <- {d1}, Frame <- {f1}, BlockCount <- 1, LockServerCount <- 1,
    Op <- {"WRITE", "FTRUNCATE", "TRUNCATE"}, NoLocks <- {}, NoXattrop <- {1},
    FailAt <- {}, MayCrash <- TRUE, MaxOps <- 2, MaxDown <- 1, MaxUp <- 1,
    UpWhileOpen <- FALSE, MaxFaulty <- 1, child_up <- txn_child_up,
    local <- txn_local, spoilt <- txn_spoilt

-----------------------------------------------------------------------------
sumVars == <<part, healVars, entryVars, fopsVars, txnVars>>

Init ==
  \/ /\ entryOff /\ fopsOff /\ txnOff
     /\ \/ part = "heal" /\ HEAL!Init
        \/ part = "heal2" /\ HEAL2!Init
        \/ part = "heal3" /\ HEAL3!Init
        \/ part = "healw" /\ HEALW!Init
  \/ /\ healOff /\ fopsOff /\ txnOff
     /\ \/ part = "entry" /\ ENTRY!Init
        \/ part = "entry2" /\ ENTRY2!Init
        \/ part = "entry3" /\ ENTRY3!Init
  \/ /\ healOff /\ entryOff /\ txnOff
     /\ \/ part = "fops2" /\ FOPS2!Init
        \/ part = "fopsf" /\ FOPSF!Init
        \/ part = "fops" /\ FOPS!Init
        \/ part = "meta" /\ META!Init
        \/ part = "lk" /\ LK!Init
  \/ /\ healOff /\ entryOff /\ fopsOff
     /\ \/ part = "txn" /\ TXN!Init
        \/ part = "txnl" /\ TXNL!Init
        \/ part = "txnx" /\ TXNX!Init

Next ==
  \/ /\ UNCHANGED <<part, entryVars, fopsVars, txnVars>>
     /\ \/ part = "heal" /\ HEAL!Next
        \/ part = "heal2" /\ HEAL2!Next
        \/ part = "heal3" /\ HEAL3!Next
        \/ part = "healw" /\ HEALW!Next
  \/ /\ UNCHANGED <<part, healVars, fopsVars, txnVars>>
     /\ \/ part = "entry" /\ ENTRY!Next
        \/ part = "entry2" /\ ENTRY2!Next
        \/ part = "entry3" /\ ENTRY3!Next
  \/ /\ UNCHANGED <<part, healVars, entryVars, txnVars>>
     /\ \/ part = "fops2" /\ FOPS2!Next
        \/ part = "fopsf" /\ FOPSF!Next
        \/ part = "fops" /\ FOPS!Next
        \/ part = "meta" /\ META!Next
        \/ part = "lk" /\ LK!Next
  \/ /\ UNCHANGED <<part, healVars, entryVars, fopsVars>>
     /\ \/ part = "txn" /\ TXN!Next
        \/ part = "txnl" /\ TXNL!Next
        \/ part = "txnx" /\ TXNX!Next

Spec == Init /\ [][Next]_sumVars

-----------------------------------------------------------------------------
\* afr-self-heal-*.c: the copies nobody accuses have the last acknowledged
\* contents or entries, and there is one; no block is copied over a copy that
\* knows of a write its source has missed; a heal that went through leaves the
\* children equal; and what a child has just been given is accused until it is
\* filled.
HealKeepsLatest ==
  /\ part = "heal" => HEAL!TrustedIsLatest /\ HEAL!TrustedIsOwned /\ HEAL!NoSplitBrainLoss
                      /\ HEAL!HealHeals
  /\ part = "heal2" => HEAL2!TrustedIsLatest /\ HEAL2!TrustedIsOwned
                       /\ HEAL2!NoSplitBrainLoss /\ HEAL2!HealHeals
  /\ part = "heal3" => HEAL3!TrustedIsLatest /\ HEAL3!TrustedIsOwned
                       /\ HEAL3!NoSplitBrainLoss /\ HEAL3!HealHeals
  /\ part = "healw" => HEALW!TrustedIsLatest /\ HEALW!TrustedIsOwned
                       /\ HEALW!NoSplitBrainLoss /\ HEALW!HealHeals
  /\ part = "entry" => ENTRY!TrustedListsLatest /\ ENTRY!NewCopyAccused
                       /\ ENTRY!EntryHealHeals
  /\ part = "entry2" => ENTRY2!TrustedListsLatest /\ ENTRY2!NewCopyAccused
                        /\ ENTRY2!EntryHealHeals
  /\ part = "entry3" => ENTRY3!TrustedListsLatest /\ ENTRY3!NewCopyAccused
                        /\ ENTRY3!EntryHealHeals

\* afr-dir-write.c, afr-inode-write.c, afr-inode-read.c, afr.c: copies that
\* differ are accused whatever fails on the way; a call is answered once, with
\* success if some child carried it out; a read is refused only after every child
\* was asked; a lock is held on all the children that stayed up, or on none;
\* after the last close of a file a stale copy is accused and one that never
\* failed is not.
FopsAccounted ==
  /\ part = "fops" => FOPS!DivergenceRecorded /\ FOPS!AnsweredTruly /\ FOPS!ReadFailsOver
                      /\ FOPS!LkAllOrNothing
  /\ part = "fops2" => FOPS2!DivergenceRecorded /\ FOPS2!AnsweredTruly /\ FOPS2!ReadFailsOver
                       /\ FOPS2!LkAllOrNothing
  /\ part = "fopsf" => FOPSF!DivergenceRecorded /\ FOPSF!AnsweredTruly /\ FOPSF!ReadFailsOver
                       /\ FOPSF!LkAllOrNothing
  /\ part = "meta" => META!DivergenceRecorded /\ META!AnsweredTruly /\ META!ReadFailsOver
                      /\ META!LkAllOrNothing
  /\ part = "lk" => LK!DivergenceRecorded /\ LK!AnsweredTruly /\ LK!ReadFailsOver
                    /\ LK!LkAllOrNothing
  /\ part = "txn" => TXN!CopiesAccounted /\ TXN!NoFalseAccusation
  /\ part = "txnl" => TXNL!CopiesAccounted /\ TXNL!NoFalseAccusation
  /\ part = "txnx" => TXNX!CopiesAccounted /\ TXNX!NoFalseAccusation

\* afr-self-heal-*.c, afr-transaction.c: a lookup or an opendir that heals is
\* answered once, and whoever is over holds no lock and no descriptor; the
\* callers never all wait for one another.
EveryoneReleased ==
  /\ part = "heal" => HEAL!AnsweredOnce /\ HEAL!NoLockLeft
  /\ part = "heal2" => HEAL2!AnsweredOnce /\ HEAL2!NoLockLeft
  /\ part = "heal3" => HEAL3!AnsweredOnce /\ HEAL3!NoLockLeft
  /\ part = "healw" => HEALW!AnsweredOnce /\ HEALW!NoLockLeft
  /\ part = "entry" => ENTRY!AnsweredOnce /\ ENTRY!NoEntryLockLeft
  /\ part = "entry2" => ENTRY2!AnsweredOnce /\ ENTRY2!NoEntryLockLeft
  /\ part = "entry3" => ENTRY3!AnsweredOnce /\ ENTRY3!NoEntryLockLeft
  /\ part = "fops" => FOPS!NeverStuck /\ FOPS!NoLockLeft
  /\ part = "fops2" => FOPS2!NeverStuck /\ FOPS2!NoLockLeft
  /\ part = "fopsf" => FOPSF!NeverStuck /\ FOPSF!NoLockLeft
  /\ part = "meta" => META!NeverStuck /\ META!NoLockLeft
  /\ part = "lk" => LK!NeverStuck /\ LK!NoLockLeft

\* afr-self-heal-entry.c: a heal moves an entry away only while its source has no
\* such entry.
RemovesOnlyDead ==
  [][ /\ part = "entry" => ENTRY!RemovesOnlyDead
      /\ part = "entry2" => ENTRY2!RemovesOnlyDead
      /\ part = "entry3" => ENTRY3!RemovesOnlyDead]_sumVars

=============================================================================
