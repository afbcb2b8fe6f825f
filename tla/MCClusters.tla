----------------------------- MODULE MCClusters -----------------------------
(* The cluster translators but for AFR, each on its own: cluster/ha,       *)
(* cluster/stripe, and DHT with its relatives nufa and switch. A           *)
(* behaviour is one of an instance, chosen in Init.                        *)
EXTENDS Integers, Sequences, FiniteSets, TLC

CONSTANTS HaKinds, StripeFops, FileFops, r1, r2, c1, c2

HF == INSTANCE HaFops
AllHaKinds == HF!fops
SF == INSTANCE StripeFops
AllStripeFops == SF!fops
DF == INSTANCE DhtFops
AllFileFops == DF!fops

Portions == {<<0, 3>>, <<2, 3>>, <<1, 4>>, <<1, 0>>}
HashedAt == <<1, 2, 0, 1>>
NameOps == {"lookup", "create", "mknod", "symlink", "unlink", "link", "rename", "readdirp",
            "readdir"}

VARIABLE part \* which of the instances below this behaviour is of

-----------------------------------------------------------------------------
\* cluster/ha: every fop; two calls at a time; three children
VARIABLES link, isopen, ha_heard, ino, hfd, ha_call, breaks
haVars == <<link, isopen, ha_heard, ino, hfd, ha_call, breaks>>
haOff == link = 0 /\ isopen = 0 /\ ha_heard = 0 /\ ino = 0 /\ hfd = 0
         /\ ha_call = 0 /\ breaks = 0
HA2 == INSTANCE Ha WITH N <- 2, Pref <- -1, HaReq <- {r1, r2},
    HaFop <- {"writev", "rename"}, MaxLinkDown <- 1, heard <- ha_heard,
    call <- ha_call
HA == INSTANCE Ha WITH N <- 2, Pref <- -1, HaReq <- {r1}, HaFop <- DOMAIN HaKinds,
    MaxLinkDown <- 1, heard <- ha_heard, call <- ha_call
HA3 == INSTANCE Ha WITH N <- 3, Pref <- -1, HaReq <- {r1},
    HaFop <- {"writev", "mknod", "create"}, MaxLinkDown <- 1, heard <- ha_heard,
    call <- ha_call

-----------------------------------------------------------------------------
\* cluster/stripe: data in portions of several sizes; every fop with a child that goes away
VARIABLES piece, stripe_up, stripe_heard, told, first_child_down, nodes_down, fctx,
          stripe_call, out, stray, heal, good, nops, faults
stripeVars == <<piece, stripe_up, stripe_heard, told, first_child_down, nodes_down,
                fctx, stripe_call, out, stray, heal, good, nops, faults>>
stripeOff == piece = 0 /\ stripe_up = 0 /\ stripe_heard = 0 /\ told = 0
             /\ first_child_down = 0 /\ nodes_down = 0 /\ fctx = 0
             /\ stripe_call = 0 /\ out = 0 /\ stray = 0 /\ heal = 0 /\ good = 0
             /\ nops = 0 /\ faults = 0
STRIPE == INSTANCE Stripe WITH Children <- 2, StripeSize <- 2, Io <- Portions,
    StripeFop <- {"create", "open", "readv", "writev", "truncate"},
    MaxStripeOps <- 4, MaxStripeFaults <- 0, up <- stripe_up, heard <- stripe_heard,
    call <- stripe_call
STRIPEOPS == INSTANCE Stripe WITH Children <- 2, StripeSize <- 2, Io <- Portions,
    StripeFop <- DOMAIN StripeFops, MaxStripeOps <- 2, MaxStripeFaults <- 1,
    up <- stripe_up, heard <- stripe_heard, call <- stripe_call

-----------------------------------------------------------------------------
\* directories of cluster/dht: two clients; three subvolumes of which some are full
VARIABLES dir, dir_up, ctx, stale, dir_call, dir_ncalls, dir_nfaults, nfiles
dirVars == <<dir, dir_up, ctx, stale, dir_call, dir_ncalls, dir_nfaults, nfiles>>
dirOff == dir = 0 /\ dir_up = 0 /\ ctx = 0 /\ stale = 0 /\ dir_call = 0
          /\ dir_ncalls = 0 /\ dir_nfaults = 0 /\ nfiles = 0
DIR == INSTANCE DhtDir WITH RingMax <- 7, StartAt <- 1, Client <- {c1, c2}, N <- 2,
    HashedDir <- 2, SearchUnhashed <- FALSE, Fullness <- {{}},
    DirOp <- {"lookup", "mkdir", "rmdir"}, MaxDirCalls <- 3, MaxDirFaults <- 1,
    MaxFiles <- 0, up <- dir_up, call <- dir_call, ncalls <- dir_ncalls,
    nfaults <- dir_nfaults
DIR3 == INSTANCE DhtDir WITH RingMax <- 15, StartAt <- 1, Client <- {c1}, N <- 3,
    HashedDir <- 2, SearchUnhashed <- TRUE, Fullness <- {{}, {3}, {1, 2, 3}},
    DirOp <- {"lookup", "mkdir", "rmdir"}, MaxDirCalls <- 3, MaxDirFaults <- 1,
    MaxFiles <- 1, up <- dir_up, call <- dir_call, ncalls <- dir_ncalls,
    nfaults <- dir_nfaults

-----------------------------------------------------------------------------
\* files of cluster/dht: two clients; every call with a fault; nufa; switch; without a search of the unhashed
VARIABLES ent, cache, file_call, reap, linked, ids, doomed, spoilt, file_ncalls,
          file_nfaults
fileVars == <<ent, cache, file_call, reap, linked, ids, doomed, spoilt, file_ncalls,
              file_nfaults>>
fileOff == ent = 0 /\ cache = 0 /\ file_call = 0 /\ reap = 0 /\ linked = 0
           /\ ids = 0 /\ doomed = 0 /\ spoilt = 0 /\ file_ncalls = 0
           /\ file_nfaults = 0
FILE2 == INSTANCE DhtFile WITH Hashed <- HashedAt, Local <- 1, Unhashed <- TRUE,
    Mount <- {c1, c2}, Subs <- 2, FName <- {1, 2}, SubDirs <- {}, Scheme <- "dht",
    FileOp <- {"lookup", "create", "unlink", "rename"}, Page <- 1, MaxFileCalls <- 4,
    MaxFileFaults <- 0, call <- file_call, ncalls <- file_ncalls,
    nfaults <- file_nfaults
FILE == INSTANCE DhtFile WITH Hashed <- HashedAt, Local <- 1, Unhashed <- TRUE,
    Mount <- {c1}, Subs <- 3, FName <- 1 .. 4, SubDirs <- {4}, Scheme <- "dht",
    FileOp <- NameOps \cup DOMAIN FileFops, Page <- 2, MaxFileCalls <- 3,
    MaxFileFaults <- 1, call <- file_call, ncalls <- file_ncalls,
    nfaults <- file_nfaults
NUFA == INSTANCE DhtFile WITH Hashed <- HashedAt, Local <- 1, Unhashed <- TRUE,
    Mount <- {c1}, Subs <- 2, FName <- 1 .. 3, SubDirs <- {3}, Scheme <- "nufa",
    FileOp <- {"lookup", "create", "unlink", "rename", "mknod"}, Page <- 1,
    MaxFileCalls <- 4, MaxFileFaults <- 1, call <- file_call, ncalls <- file_ncalls,
    nfaults <- file_nfaults
SWITCH == INSTANCE DhtFile WITH Hashed <- HashedAt, Local <- 1, Unhashed <- TRUE,
    Mount <- {c1}, Subs <- 2, FName <- 1 .. 3, SubDirs <- {3}, Scheme <- "switch",
    FileOp <- {"lookup", "create", "unlink", "rename", "mknod"}, Page <- 1,
    MaxFileCalls <- 4, MaxFileFaults <- 1, call <- file_call, ncalls <- file_ncalls,
    nfaults <- file_nfaults
NOSEARCH == INSTANCE DhtFile WITH Hashed <- HashedAt, Local <- 1, Unhashed <- FALSE,
    Mount <- {c1}, Subs <- 2, FName <- 1 .. 2, SubDirs <- {}, Scheme <- "dht",
    FileOp <- {"lookup", "create", "unlink", "rename"}, Page <- 1, MaxFileCalls <- 4,
    MaxFileFaults <- 1, call <- file_call, ncalls <- file_ncalls,
    nfaults <- file_nfaults

-----------------------------------------------------------------------------
sumVars == <<part, haVars, stripeVars, dirVars, fileVars>>

Init ==
  \/ /\ stripeOff /\ dirOff /\ fileOff
     /\ \/ part = "ha2" /\ HA2!Init
        \/ part = "ha" /\ HA!Init
        \/ part = "ha3" /\ HA3!Init
  \/ /\ haOff /\ dirOff /\ fileOff
     /\ \/ part = "stripe" /\ STRIPE!Init
        \/ part = "stripeops" /\ STRIPEOPS!Init
  \/ /\ haOff /\ stripeOff /\ fileOff
     /\ \/ part = "dir" /\ DIR!Init
        \/ part = "dir3" /\ DIR3!Init
  \/ /\ haOff /\ stripeOff /\ dirOff
     /\ \/ part = "file2" /\ FILE2!Init
        \/ part = "file" /\ FILE!Init
        \/ part = "nufa" /\ NUFA!Init
        \/ part = "switch" /\ SWITCH!Init
        \/ part = "nosearch" /\ NOSEARCH!Init

Next ==
  \/ /\ UNCHANGED <<part, stripeVars, dirVars, fileVars>>
     /\ \/ part = "ha2" /\ HA2!Next
        \/ part = "ha" /\ HA!Next
        \/ part = "ha3" /\ HA3!Next
  \/ /\ UNCHANGED <<part, haVars, dirVars, fileVars>>
     /\ \/ part = "stripe" /\ STRIPE!Next
        \/ part = "stripeops" /\ STRIPEOPS!Next
  \/ /\ UNCHANGED <<part, haVars, stripeVars, fileVars>>
     /\ \/ part = "dir" /\ DIR!Next
        \/ part = "dir3" /\ DIR3!Next
  \/ /\ UNCHANGED <<part, haVars, stripeVars, dirVars>>
     /\ \/ part = "file2" /\ FILE2!Next
        \/ part = "file" /\ FILE!Next
        \/ part = "nufa" /\ NUFA!Next
        \/ part = "switch" /\ SWITCH!Next
        \/ part = "nosearch" /\ NOSEARCH!Next

Fairness ==
  /\ WF_haVars(part = "ha" /\ HA!HaAnswer)
  /\ WF_stripeVars(part = "stripeops" /\ STRIPEOPS!StripeAnswer)

Spec == Init /\ [][Next]_sumVars /\ Fairness

-----------------------------------------------------------------------------
\* A frame is unwound when nothing it wound is still out. ha.c: the fail-over
\* asks every child once before it gives up, and a call on an open file is
\* executed at most once. stripe.c: an acknowledged file is whole and addressed
\* by the index of its pieces, what was written in any portions reads back in any
\* other, and a child without connection is reported.
FanOutSound ==
  /\ part = "ha" => HA!UnwoundLast /\ HA!EachChildOnce /\ HA!ExecutedOnce
                    /\ HA!AllTriedBeforeGivingUp
  /\ part = "ha2" => HA2!UnwoundLast /\ HA2!EachChildOnce /\ HA2!ExecutedOnce
                     /\ HA2!AllTriedBeforeGivingUp
  /\ part = "ha3" => HA3!UnwoundLast /\ HA3!EachChildOnce /\ HA3!ExecutedOnce
                     /\ HA3!AllTriedBeforeGivingUp
  /\ part = "stripe" => STRIPE!UnwoundLast /\ STRIPE!CreatedIsWhole /\ STRIPE!OpenByIndex
                        /\ STRIPE!ReadsBack /\ STRIPE!DeadChildReported
  /\ part = "stripeops" => STRIPEOPS!UnwoundLast /\ STRIPEOPS!CreatedIsWhole
                           /\ STRIPEOPS!OpenByIndex /\ STRIPEOPS!ReadsBack
                           /\ STRIPEOPS!DeadChildReported

\* dht-selfheal.c, dht-common.c: a lookup or mkdir that was alone gives every
\* hash to one subvolume, a revalidation that found no fault has the layout of
\* the copies, a rmdir removes the directory everywhere or puts back what it
\* removed, and a call that was not answered has a request on its way.
LayoutsPartition ==
  /\ part = "dir" => DIR!LookupLeavesPartition /\ DIR!RevalidateDetects
                     /\ DIR!RmdirAllOrNothing /\ DIR!NeverForgotten
  /\ part = "dir3" => DIR3!LookupLeavesPartition /\ DIR3!RevalidateDetects
                      /\ DIR3!RmdirAllOrNothing /\ DIR3!NeverForgotten

\* dht, nufa and switch: a file nobody asked to remove is on some subvolume
\* whatever broke in the middle of a call; a lookup that was alone finds it, a
\* call that succeeded has done what it says, a listing has every name once, and
\* a fop goes to the file of its inode and never to a link file.
FilesKept ==
  /\ part = "file" => FILE!DataKept /\ FILE!LookupFinds /\ FILE!CallsTakeEffect
                      /\ FILE!ListedOnce /\ FILE!FopOnItsFile /\ FILE!NeverForgotten
  /\ part = "file2" => FILE2!DataKept /\ FILE2!LookupFinds /\ FILE2!CallsTakeEffect
                       /\ FILE2!ListedOnce /\ FILE2!FopOnItsFile /\ FILE2!NeverForgotten
  /\ part = "nufa" => NUFA!DataKept /\ NUFA!LookupFinds /\ NUFA!CallsTakeEffect
                      /\ NUFA!ListedOnce /\ NUFA!FopOnItsFile /\ NUFA!NeverForgotten
  /\ part = "switch" => SWITCH!DataKept /\ SWITCH!LookupFinds /\ SWITCH!CallsTakeEffect
                        /\ SWITCH!ListedOnce /\ SWITCH!FopOnItsFile
                        /\ SWITCH!NeverForgotten
  /\ part = "nosearch" => NOSEARCH!DataKept /\ NOSEARCH!LookupFinds
                          /\ NOSEARCH!CallsTakeEffect /\ NOSEARCH!ListedOnce
                          /\ NOSEARCH!FopOnItsFile /\ NOSEARCH!NeverForgotten

\* ha.c: every call that was wound is answered, unless the process is gone.
\* stripe.c: every call is answered, but for a mknod whose attributes were
\* refused.
FanOutAnswered ==
  /\ (part = "ha" /\ HA!Asked(r1)) ~> (part = "ha" /\ HA!Answered(r1))
  /\ (part = "stripeops" /\ stripe_call.st = "run")
       ~> (part = "stripeops" /\ stripe_call.st \in {"done", "forgotten"})

=============================================================================
