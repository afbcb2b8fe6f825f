----------------------------- MODULE MCFeatures -----------------------------
(* Parts of the brick and of the client that deal with names, locks and    *)
(* caches, each on its own: server resolution with the inode table,        *)
(* racing operations in storage/posix, fcntl locks in features/locks,      *)
(* performance/stat-prefetch and performance/quick-read. A behaviour is    *)
(* one of an instance, chosen in Init.                                     *)
EXTENDS Integers, Sequences, FiniteSets, TLC

CONSTANTS SpFops, q1, q2, f1, f2, p1, p2

SPF == INSTANCE SpFops
AllSpFops == SPF!fops

\* Requests are alike, and so are processes.
Alike == Permutations({q1, q2}) \cup Permutations({p1, p2})

VARIABLE part \* which of the instances below this behaviour is of

-----------------------------------------------------------------------------
\* protocol/server: resolution of a path, and the inode table; two names, and one name with more requests
VARIABLES resolve_disk, made, table, rq, asked
resolveVars == <<resolve_disk, made, table, rq, asked>>
resolveOff == resolve_disk = 0 /\ made = 0 /\ table = 0 /\ rq = 0 /\ asked = 0
RES == INSTANCE ServerResolve WITH Name <- {"a", "b"}, Ino <- {1}, Made0 <- <<0, 1>>,
    Disk0 <- [d |-> 1, a |-> 2, b |-> 0], Slot <- {q1, q2}, MaxAsked <- 3,
    disk <- resolve_disk
RES1 == INSTANCE ServerResolve WITH Name <- {"a"}, Ino <- {1}, Made0 <- <<0, 1>>,
    Disk0 <- [d |-> 1, a |-> 2], Slot <- {q1, q2}, MaxAsked <- 4, disk <- resolve_disk

-----------------------------------------------------------------------------
\* storage/posix: two operations at a time
VARIABLES entry, file, desc, fd, posix_op, gen_seq, janitor, nr_files, used, added,
          posix_spoilt
posixVars == <<entry, file, desc, fd, posix_op, gen_seq, janitor, nr_files, used,
               added, posix_spoilt>>
posixOff == entry = 0 /\ file = 0 /\ desc = 0 /\ fd = 0 /\ posix_op = 0
            /\ gen_seq = 0 /\ janitor = 0 /\ nr_files = 0 /\ used = 0
            /\ added = 0 /\ posix_spoilt = 0
PSX == INSTANCE Posix WITH PosixName <- {"a"}, Landfill <- {}, PosixReq <- {q1, q2},
    Fd <- {f1, f2}, Descs <- 2, MaxFiles <- 2, MaxFaults <- 0, MaxOps <- 3,
    MaxBoots <- 2, Width <- 1, GenPerBoot <- 8,
    PosixFop <- {"create", "xattrop", "readv"}, op <- posix_op, spoilt <- posix_spoilt

-----------------------------------------------------------------------------
\* features/locks: two owners and three bytes; three owners that want the same byte
VARIABLES ext_list, refkeeper, fcntl_call, open, flushed, dead, cut, held, tangled,
          nlk
fcntlVars == <<ext_list, refkeeper, fcntl_call, open, flushed, dead, cut, held,
               tangled, nlk>>
fcntlOff == ext_list = 0 /\ refkeeper = 0 /\ fcntl_call = 0 /\ open = 0
            /\ flushed = 0 /\ dead = 0 /\ cut = 0 /\ held = 0 /\ tangled = 0
            /\ nlk = 0
LK == INSTANCE PosixLocks WITH Calls <- 2, LkFd <- {1, 2}, LkOwner <- {1, 2},
    OwnerOf <- <<1, 2>>, ClientOf <- <<1, 2>>, Mortal <- {2}, LastByte <- 2,
    LkCmd <- {"GETLK", "SETLK", "SETLKW"}, LkType <- {"R", "W", "U"}, MaxLk <- 2,
    call <- fcntl_call
LK3 == INSTANCE PosixLocks WITH Calls <- 3, LkFd <- {1, 2, 3}, LkOwner <- {1, 2, 3},
    OwnerOf <- <<1, 2, 3>>, ClientOf <- <<1, 2, 2>>, Mortal <- {}, LastByte <- 0,
    LkCmd <- {"SETLKW"}, LkType <- {"W", "U"}, MaxLk <- 4, call <- fcntl_call

-----------------------------------------------------------------------------
\* performance/stat-prefetch: two processes; every fop; changes by another client; renames of names known from the cache
VARIABLES sp_disk, ver, sp_clock, known, ictx, heard, dfd, cache, ffd, sp_op,
          resuming, sp_mine, sp_spoilt, sp_ncalls, nfails, sp_nremote
spVars == <<sp_disk, ver, sp_clock, known, ictx, heard, dfd, cache, ffd, sp_op,
            resuming, sp_mine, sp_spoilt, sp_ncalls, nfails, sp_nremote>>
spOff == sp_disk = 0 /\ ver = 0 /\ sp_clock = 0 /\ known = 0 /\ ictx = 0
         /\ heard = 0 /\ dfd = 0 /\ cache = 0 /\ ffd = 0 /\ sp_op = 0
         /\ resuming = 0 /\ sp_mine = 0 /\ sp_spoilt = 0 /\ sp_ncalls = 0
         /\ nfails = 0 /\ sp_nremote = 0
SP == INSTANCE StatPrefetch WITH Proc <- {p1, p2}, SpName <- 1 .. 2, SpDirs <- {},
    SpLinks <- {}, SpFop <- {"opendir", "readdir", "lookup", "setattr", "rename"},
    Page <- 2, MaxSpCalls <- 5, MaxSpFails <- 0, MaxRemote <- 0, Reader <- {},
    disk <- sp_disk, clock <- sp_clock, op <- sp_op, mine <- sp_mine,
    spoilt <- sp_spoilt, ncalls <- sp_ncalls, nremote <- sp_nremote
SPOPS == INSTANCE StatPrefetch WITH Proc <- {p1}, SpName <- 1 .. 3, SpDirs <- {3},
    SpLinks <- {2},
    SpFop <- {"lookup", "lookup_xattr", "readdir", "pass"} \cup DOMAIN SpFops,
    Page <- 2, MaxSpCalls <- 4, MaxSpFails <- 1, MaxRemote <- 0, Reader <- {},
    disk <- sp_disk, clock <- sp_clock, op <- sp_op, mine <- sp_mine,
    spoilt <- sp_spoilt, ncalls <- sp_ncalls, nremote <- sp_nremote
SPSHARED == INSTANCE StatPrefetch WITH Proc <- {p1, p2}, SpName <- 1 .. 1,
    SpDirs <- {}, SpLinks <- {},
    SpFop <- {"opendir", "readdir", "lookup", "setattr", "stat"}, Page <- 2,
    MaxSpCalls <- 5, MaxSpFails <- 1, MaxRemote <- 1, Reader <- {}, disk <- sp_disk,
    clock <- sp_clock, op <- sp_op, mine <- sp_mine, spoilt <- sp_spoilt,
    ncalls <- sp_ncalls, nremote <- sp_nremote
SPRENAME == INSTANCE StatPrefetch WITH Proc <- {p1, p2}, SpName <- 1 .. 2,
    SpDirs <- {}, SpLinks <- {}, SpFop <- {"lookup", "setattr", "rename"}, Page <- 2,
    MaxSpCalls <- 3, MaxSpFails <- 0, MaxRemote <- 0, Reader <- {p1, p2},
    disk <- sp_disk, clock <- sp_clock, op <- sp_op, mine <- sp_mine,
    spoilt <- sp_spoilt, ncalls <- sp_ncalls, nremote <- sp_nremote

-----------------------------------------------------------------------------
\* performance/quick-read: two calls at a time; writes; another client and time
VARIABLES qr_disk, qfile, fdctx, fdst, below, qr_call, moved, qr_clock, qr_mine,
          overlap, refused, gone, qr_ncalls, nfaults, qr_nremote
qrVars == <<qr_disk, qfile, fdctx, fdst, below, qr_call, moved, qr_clock, qr_mine,
            overlap, refused, gone, qr_ncalls, nfaults, qr_nremote>>
qrOff == qr_disk = 0 /\ qfile = 0 /\ fdctx = 0 /\ fdst = 0 /\ below = 0
         /\ qr_call = 0 /\ moved = 0 /\ qr_clock = 0 /\ qr_mine = 0
         /\ overlap = 0 /\ refused = 0 /\ gone = 0 /\ qr_ncalls = 0
         /\ nfaults = 0 /\ qr_nremote = 0
QR == INSTANCE QuickRead WITH QCall <- {q1, q2}, QFd <- {f1},
    QrOp <- {"lookup", "open", "create", "readv", "fstat", "flush"},
    QFlags <- {"RDWR", "WRONLY", "DIRECTORY"}, Reads <- {<<1, 3>>}, QSizes <- {3},
    PageSize <- 2, MaxFileSize <- 4, CacheTimeout <- 1, MaxQCalls <- 5,
    MaxQFaults <- 1, MaxQRemote <- 0, MaxQClock <- 1, disk <- qr_disk,
    call <- qr_call, clock <- qr_clock, mine <- qr_mine, ncalls <- qr_ncalls,
    nremote <- qr_nremote
QRW == INSTANCE QuickRead WITH QCall <- {q1, q2}, QFd <- {f1},
    QrOp <- {"lookup", "open", "readv", "writev", "ftruncate", "truncate"},
    QFlags <- {"RDWR", "TRUNC"}, Reads <- {<<1, 3>>, <<4, 1>>}, QSizes <- {3, 5},
    PageSize <- 2, MaxFileSize <- 4, CacheTimeout <- 1, MaxQCalls <- 4,
    MaxQFaults <- 0, MaxQRemote <- 0, MaxQClock <- 0, disk <- qr_disk,
    call <- qr_call, clock <- qr_clock, mine <- qr_mine, ncalls <- qr_ncalls,
    nremote <- qr_nremote
QRT == INSTANCE QuickRead WITH QCall <- {q1}, QFd <- {f1},
    QrOp <- {"lookup", "open", "readv", "fstat"}, QFlags <- {"RDWR"},
    Reads <- {<<1, 3>>, <<4, 1>>}, QSizes <- {3, 5}, PageSize <- 2, MaxFileSize <- 4,
    CacheTimeout <- 1, MaxQCalls <- 4, MaxQFaults <- 0, MaxQRemote <- 1,
    MaxQClock <- 2, disk <- qr_disk, call <- qr_call, clock <- qr_clock,
    mine <- qr_mine, ncalls <- qr_ncalls, nremote <- qr_nremote

-----------------------------------------------------------------------------
sumVars == <<part, resolveVars, posixVars, fcntlVars, spVars, qrVars>>

Init ==
  \/ /\ posixOff /\ fcntlOff /\ spOff /\ qrOff
     /\ \/ part = "resolve" /\ RES!Init
        \/ part = "resolve1" /\ RES1!Init
  \/ /\ resolveOff /\ fcntlOff /\ spOff /\ qrOff
     /\ part = "posix" /\ PSX!Init
  \/ /\ resolveOff /\ posixOff /\ spOff /\ qrOff
     /\ \/ part = "fcntl" /\ LK!Init
        \/ part = "fcntl3" /\ LK3!Init
  \/ /\ resolveOff /\ posixOff /\ fcntlOff /\ qrOff
     /\ \/ part = "sp" /\ SP!Init
        \/ part = "spops" /\ SPOPS!Init
        \/ part = "spshared" /\ SPSHARED!Init
        \/ part = "sprename" /\ SPRENAME!Init
  \/ /\ resolveOff /\ posixOff /\ fcntlOff /\ spOff
     /\ \/ part = "qr" /\ QR!Init
        \/ part = "qrw" /\ QRW!Init
        \/ part = "qrt" /\ QRT!Init

Next ==
  \/ /\ UNCHANGED <<part, posixVars, fcntlVars, spVars, qrVars>>
     /\ \/ part = "resolve" /\ RES!Next
        \/ part = "resolve1" /\ RES1!Next
  \/ /\ UNCHANGED <<part, resolveVars, fcntlVars, spVars, qrVars>>
     /\ part = "posix" /\ PSX!Next
  \/ /\ UNCHANGED <<part, resolveVars, posixVars, spVars, qrVars>>
     /\ \/ part = "fcntl" /\ LK!Next
        \/ part = "fcntl3" /\ LK3!Next
  \/ /\ UNCHANGED <<part, resolveVars, posixVars, fcntlVars, qrVars>>
     /\ \/ part = "sp" /\ SP!Next
        \/ part = "spops" /\ SPOPS!Next
        \/ part = "spshared" /\ SPSHARED!Next
        \/ part = "sprename" /\ SPRENAME!Next
  \/ /\ UNCHANGED <<part, resolveVars, posixVars, fcntlVars, spVars>>
     /\ \/ part = "qr" /\ QR!Next
        \/ part = "qrw" /\ QRW!Next
        \/ part = "qrt" /\ QRT!Next

Spec == Init /\ [][Next]_sumVars

-----------------------------------------------------------------------------
\* server-resolve.c, inode.c: a request that ran alone is refused with ENOENT
\* only if the volume does not have what it names, unless an answer that was
\* applied late has put another file with its number in the table, and the
\* entries of the table and the requests name inodes that are in the table.
NamesResolved ==
  /\ part = "resolve" => RES!NoFalseEnoent /\ RES!EntriesKnown
  /\ part = "resolve1" => RES1!NoFalseEnoent /\ RES1!EntriesKnown

\* posix.c: the increments of concurrent xattrop calls all arrive, and the bytes
\* of a read or a write are those at the offset asked for.
RacesHarmless ==
  /\ part = "posix" => PSX!CountersAddUp /\ PSX!AtTheOffset

\* features/locks: owners exclude each other on every byte, the list says of
\* every byte what its owner was told, a call without an answer has a blocked
\* lock which overlaps a held one, and a descriptor that is released has left
\* none.
RangesHeld ==
  /\ part = "fcntl" => LK!LocksExclude /\ LK!GrantedIsHeld /\ LK!WaitsInTheList
                       /\ LK!NoLostWakeup /\ LK!ReleasedHoldsNothing
  /\ part = "fcntl3" => LK3!LocksExclude /\ LK3!GrantedIsHeld /\ LK3!WaitsInTheList
                        /\ LK3!NoLostWakeup /\ LK3!ReleasedHoldsNothing

\* stat-prefetch.c: a lookup never shows a process attributes older than its own
\* last change; the translators below see an inode first in a lookup or in the
\* call that makes it; a call that waits in an inode context waits for a lookup
\* whose callback will resume it, once. quick-read.c: a read from the cache shows
\* the acknowledged writes and contents the volume had when they were last
\* confirmed, in full; a fop reaches the volume only through a descriptor that is
\* open there, and waits only for an open that is under way.
CacheHonest ==
  /\ part = "sp" => SP!OwnChangesSeen /\ SP!LookedUpFirst /\ SP!WaitsForLookup
                    /\ SP!AnsweredOnce
  /\ part = "spops" => SPOPS!OwnChangesSeen /\ SPOPS!LookedUpFirst /\ SPOPS!WaitsForLookup
                       /\ SPOPS!AnsweredOnce
  /\ part = "spshared" => SPSHARED!OwnChangesSeen /\ SPSHARED!LookedUpFirst
                          /\ SPSHARED!WaitsForLookup /\ SPSHARED!AnsweredOnce
  /\ part = "sprename" => SPRENAME!OwnChangesSeen /\ SPRENAME!LookedUpFirst
                          /\ SPRENAME!WaitsForLookup /\ SPRENAME!AnsweredOnce
  /\ part = "qr" => QR!WaitsForOpen /\ QR!OpenedFirst /\ QR!OwnWritesSeen
                    /\ QR!ConfirmedContents /\ QR!ReadExact
  /\ part = "qrw" => QRW!WaitsForOpen /\ QRW!OpenedFirst /\ QRW!OwnWritesSeen
                     /\ QRW!ConfirmedContents /\ QRW!ReadExact
  /\ part = "qrt" => QRT!WaitsForOpen /\ QRT!OpenedFirst /\ QRT!OwnWritesSeen
                     /\ QRT!ConfirmedContents /\ QRT!ReadExact

=============================================================================
