------------------------------ MODULE SimDisk ------------------------------
(***************************************************************************)
(* The disk of a simulated node (src/sim/disk.rs) under the fs functions   *)
(* of its program (files.rs) and the files SQLite opens on it (vfs.rs).    *)
(* A file is an inode with its bytes, the bytes that would survive the     *)
(* power going out, and the writes between the two.  The namespace is two  *)
(* maps, the current and the durable one.  A crash leaves what is durable, *)
(* and with torn writes any part of the rest; a kill loses nothing.        *)
(*                                                                         *)
(* Bytes come in sectors: writes begin at one, as SQLite's pages do, and   *)
(* a torn write is cut between two.  A call that fails changes nothing and *)
(* is no step.                                                             *)
(***************************************************************************)
EXTENDS Integers, Sequences, SequencesExt, FiniteSetsExt, Functions

CONSTANTS
  Paths,                 \* sequences of names, with those above each; <<>> is the root
  DirPaths, FilePaths,   \* those the programs make directories, and files
  Sectors,               \* what a sector is written with
  Handles,               \* SQLite's open files
  FullAt,                \* full_at, in sectors
  Torn,                  \* torn_writes
  MaxInodes,             \* bound: files ever made
  MaxPending,            \* bound: writes not yet synced
  MaxSteps,              \* bound: calls that change the disk
  MaxStops               \* bound: crashes and kills

ASSUME PathsAssumption ==
  /\ Paths \subseteq Seq(STRING)
  /\ \A p \in Paths : p = <<>> \/ Front(p) \in Paths
  /\ <<>> \in Paths /\ <<>> \notin FilePaths
  /\ DirPaths \subseteq Paths /\ FilePaths \subseteq Paths
ASSUME BoundsAssumption ==
  /\ {FullAt, MaxInodes, MaxPending, MaxSteps, MaxStops} \subseteq Nat
  /\ Sectors \subseteq Nat \ {0} /\ Torn \in BOOLEAN

Inodes == 1..MaxInodes
None == 0
Dir == -1
Entries == {None, Dir} \cup Inodes

VARIABLES
  inode,                 \* the live inodes: data, durable and pending
  next,                  \* next_ino
  names, durable,        \* the two namespaces
  boot,
  handle,                \* Handle: ino, path, boot, dirsync; ino 0 when closed
  steps,                 \* bound: calls so far
  promised               \* history: what a true sync said is durable, by path

diskVars == <<inode, next, names, durable>>
simDiskVars == <<diskVars, boot, handle, steps, promised>>

Closed == [ino |-> 0, path |-> <<>>, boot |-> 0, dirsync |-> FALSE]

DiskInit ==
  /\ inode = <<>> /\ next = 1
  /\ names = [p \in Paths |-> IF p = <<>> THEN Dir ELSE None]
  /\ durable = names
  /\ boot = 0 /\ steps = 0
  /\ handle = [h \in Handles |-> Closed]
  /\ promised = <<>>

-----------------------------------------------------------------------------
(* Paths *)

Parent(p) == IF p = <<>> THEN p ELSE Front(p)
Under(d, p) == IsStrictPrefix(d, p)
ChildOf(d, p) == Under(d, p) /\ Parent(p) = d
IsFile(p) == names[p] \in Inodes
IsDir(p) == names[p] = Dir
Exists(p) == names[p] # None

-----------------------------------------------------------------------------
(* Inodes: a change applies to the bytes and waits for a sync *)

Write(at, bytes) == [is |-> "write", at |-> at, bytes |-> bytes]
Truncate(len) == [is |-> "truncate", at |-> len, bytes |-> <<>>]

At(data, i) == IF i <= Len(data) THEN data[i] ELSE 0

Apply(data, op) ==
  IF op.is = "truncate" THEN [i \in 1..op.at |-> At(data, i)]
  ELSE LET end == op.at + Len(op.bytes)
           len == IF Len(data) < end THEN end ELSE Len(data)
       IN [i \in 1..len |-> IF i > op.at /\ i <= end THEN op.bytes[i - op.at] ELSE At(data, i)]

(* A bug: the file's length is not waited with. *)
ChangeWrites(file, op) ==
  [file EXCEPT !.data = Apply(@, op),
               !.pending = IF op.is = "write" THEN Append(@, op) ELSE @]

Change(file, op) == [file EXCEPT !.data = Apply(@, op), !.pending = Append(@, op)]
Put(i, file, files) == [j \in {i} \cup DOMAIN files |-> IF j = i THEN file ELSE files[j]]
NewFile == [data |-> <<>>, durable |-> <<>>, pending |-> <<>>]

(* bound: of the writes that wait. *)
Fits(file) == Len(file.pending) <= MaxPending

Used == MapThenSumSet(LAMBDA i : Len(inode[i].data), DOMAIN inode)
RoomFor(grow) == grow <= 0 \/ Used + grow <= FullAt

(* A bug: what only the durable namespace reaches is forgotten. *)
ForgetUnnamed(files, ns, ds) == Restrict(files, DOMAIN files \cap Range(ns))

ForgetUnreachable(files, ns, ds) ==
  Restrict(files, DOMAIN files \cap (Range(ns) \cup Range(ds)))

-----------------------------------------------------------------------------
(* What a sync promises, and what ends the promise: the program makes,     *)
(* removes, moves or replaces what it names.                               *)

Kept(bytes) == [is |-> "kept", bytes |-> bytes]
Gone == [is |-> "gone", bytes |-> <<>>]

Without(ps) == Restrict(promised, DOMAIN promised \ ps)
Made(ps) == Without({p \in ps : ~Exists(p)})
OnOrUnder(p) == {q \in Paths : q = p \/ Under(p, q)}

(* A sync of inode i: its bytes, under the path given and those promised. *)
PromiseFile(i, p) ==
  LET its == {q \in DOMAIN promised \cup {p} : names[q] = i}
  IN [q \in its \cup DOMAIN promised |-> IF q \in its THEN Kept(inode[i].data) ELSE promised[q]]

(* A sync of a directory: the files in it, with what was durable of them,  *)
(* and that what is not in it is not.                                      *)
PromiseDir(ns, files, d, before) ==
  LET its == {q \in Paths : ChildOf(d, q) /\ ns[q] # Dir}
  IN [q \in its \cup DOMAIN before |->
        IF q \notin its THEN before[q]
        ELSE IF ns[q] = None THEN Gone ELSE Kept(files[ns[q]].durable)]

Step == steps < MaxSteps /\ steps' = steps + 1

-----------------------------------------------------------------------------
(* The fs functions: files.rs change, and what each calls *)

WriteTo(p, bytes, append) ==
  LET i == IF IsFile(p) THEN names[p] ELSE next
      file == IF IsFile(p) THEN inode[i] ELSE NewFile
      old == Len(file.data)
      new == IF append THEN Change(file, Write(old, bytes))
                       ELSE Change(Change(file, Truncate(0)), Write(0, bytes))
  IN
  /\ p \in FilePaths /\ ~IsDir(p) /\ (Exists(p) \/ IsDir(Parent(p)))
  /\ RoomFor(IF append THEN Len(bytes) ELSE Len(bytes) - old)
  /\ i \in Inodes /\ Fits(new)
  /\ Step
  /\ inode' = Put(i, new, inode)
  /\ next' = IF IsFile(p) THEN next ELSE next + 1
  /\ names' = [names EXCEPT ![p] = i]
  /\ promised' = Made({p})
  /\ UNCHANGED <<durable, boot, handle>>

WriteFile(p, v, append) == WriteTo(p, <<v>>, append)
CopyFile(p, q) == IsFile(p) /\ WriteTo(q, inode[names[p]].data, FALSE)

MkDirAll(p) ==
  LET above == {q \in Paths : q = p \/ Under(q, p)} IN
  /\ p \in DirPaths /\ ~Exists(p)
  /\ \A q \in above : ~IsFile(q)
  /\ Step
  /\ names' = [q \in Paths |-> IF q \in above THEN Dir ELSE names[q]]
  /\ promised' = Made(above)
  /\ UNCHANGED <<inode, next, durable, boot, handle>>

Removed(ps) ==
  /\ names' = [q \in Paths |-> IF q \in ps THEN None ELSE names[q]]
  /\ inode' = ForgetUnreachable(inode, names', durable)
  /\ promised' = Without(ps)
  /\ UNCHANGED <<next, durable, boot, handle>>

Unlink(p) == IsFile(p) /\ Step /\ Removed({p})

(* rmdir, of an empty one, is a case of it. *)
RmDirAll(p) == IsDir(p) /\ p # <<>> /\ Step /\ Removed(OnOrUnder(p))

(* What is at p and under it moves to q. *)
Rename(p, q) ==
  LET moved == {r \in OnOrUnder(p) : Exists(r)}
      New(r) == q \o SubSeq(r, Len(p) + 1, Len(r))
      arrives == {New(r) : r \in moved}
  IN
  /\ Exists(p) /\ p # q /\ IsDir(Parent(q))
  /\ IsFile(p) => ~IsDir(q) /\ q \in FilePaths
  /\ IsDir(p) => q \in DirPaths /\ ~IsFile(q) /\ ~Under(p, q)
                 /\ ~\E r \in Paths : Under(q, r) /\ Exists(r)
  /\ arrives \subseteq Paths
  /\ Step
  /\ names' = [r \in Paths |-> IF r \in arrives THEN names[CHOOSE old \in moved : New(old) = r]
                               ELSE IF r \in OnOrUnder(p) THEN None ELSE names[r]]
  /\ inode' = ForgetUnreachable(inode, names', durable)
  /\ promised' = Without(OnOrUnder(p) \cup arrives)
  /\ UNCHANGED <<next, durable, boot, handle>>

-----------------------------------------------------------------------------
(* sync_ino, sync_dir, sync *)

SyncedFile(file) ==
  [file EXCEPT !.durable = FoldLeft(Apply, @, file.pending), !.pending = <<>>]

(* A bug: the directories above are left to a sync of their own. *)
PersistName(ns, ds, p) == [q \in Paths |-> IF q = p /\ ns[p] # None THEN ns[p] ELSE ds[q]]

PersistEntry(ns, ds, p) ==
  [q \in Paths |-> IF q = p /\ ns[p] # None THEN ns[p]
                   ELSE IF q = <<>> \/ Under(q, p) THEN Dir ELSE ds[q]]

SyncedDir(ns, ds, d) ==
  LET gone == {p \in Paths : ChildOf(d, p) /\ ds[p] # None /\ ns[p] = None}
      here == [q \in Paths |-> IF \E p \in gone : q \in OnOrUnder(p) THEN None
                               ELSE IF ChildOf(d, q) /\ ns[q] # None THEN ns[q] ELSE ds[q]]
  IN IF ns[d] = Dir THEN PersistEntry(ns, here, d) ELSE here

FilesSynced(i) == IF i \in DOMAIN inode THEN [inode EXCEPT ![i] = SyncedFile(@)] ELSE inode
NamesSynced(i, p) == IF names[p] = i THEN PersistEntry(names, durable, p) ELSE durable
PromiseSynced(i, p) == IF i \in DOMAIN inode THEN PromiseFile(i, p) ELSE promised

SyncIno(i, p) ==
  /\ inode' = FilesSynced(i) /\ durable' = NamesSynced(i, p)
  /\ promised' = PromiseSynced(i, p)

(* What ns names in d is durable from here on. *)
SyncDir(ns, files, ds, said, d) ==
  /\ durable' = SyncedDir(ns, ds, d)
  /\ inode' = ForgetUnreachable(files, ns, durable')
  /\ promised' = PromiseDir(ns, files, d, said)

(* A sync that lies says yes and makes nothing durable: no step. *)
Sync(p) ==
  /\ Exists(p) /\ Step
  /\ IF IsFile(p) THEN SyncIno(names[p], p) ELSE SyncDir(names, inode, durable, promised, p)
  /\ UNCHANGED <<next, names, boot, handle>>

-----------------------------------------------------------------------------
(* The files SQLite opens: x_open, x_write, x_truncate, x_sync, x_delete *)

LiveHandle(h) == handle[h].ino # 0 /\ handle[h].boot = boot

(* A journal it makes has its directory synced with it. *)
XOpen(h, p, dirsync) ==
  LET i == IF IsFile(p) THEN names[p] ELSE next IN
  /\ ~LiveHandle(h) /\ p \in FilePaths /\ ~IsDir(p)
  /\ Exists(p) \/ (IsDir(Parent(p)) /\ next \in Inodes)
  /\ Step
  /\ handle' = [handle EXCEPT ![h] = [ino |-> i, path |-> p, boot |-> boot, dirsync |-> dirsync]]
  /\ inode' = IF IsFile(p) THEN inode ELSE Put(i, NewFile, inode)
  /\ next' = IF IsFile(p) THEN next ELSE next + 1
  /\ names' = [names EXCEPT ![p] = i]
  /\ promised' = Made({p})
  /\ UNCHANGED <<durable, boot>>

XChange(h, op, grow) ==
  LET i == handle[h].ino IN
  /\ LiveHandle(h) /\ i \in DOMAIN inode
  /\ RoomFor(grow) /\ Fits(Change(inode[i], op))
  /\ Step
  /\ inode' = [inode EXCEPT ![i] = Change(@, op)]
  /\ UNCHANGED <<next, names, durable, boot, handle, promised>>

LenOf(h) == IF handle[h].ino \in DOMAIN inode THEN Len(inode[handle[h].ino].data) ELSE 0

XWrite(h, at, bytes) == XChange(h, Write(at, bytes), at + Len(bytes) - LenOf(h))
XTruncate(h, len) == XChange(h, Truncate(len), len - LenOf(h))

(* The file, and its directory when it is a new journal: each may lie. *)
XSync(h, file, dir) ==
  LET i == handle[h].ino  p == handle[h].path  too == dir /\ handle[h].dirsync IN
  /\ LiveHandle(h) /\ Step
  /\ handle' = [handle EXCEPT ![h].dirsync = FALSE]
  /\ CASE file /\ too -> SyncDir(names, FilesSynced(i), NamesSynced(i, p), PromiseSynced(i, p), Parent(p))
       [] file /\ ~too -> SyncIno(i, p)
       [] ~file /\ too -> SyncDir(names, inode, durable, promised, Parent(p))
       [] ~file /\ ~too -> UNCHANGED <<inode, durable, promised>>
  /\ UNCHANGED <<next, names, boot>>

(* Removed, and its directory synced at once, unless that lies. *)
XDelete(p) ==
  /\ IsFile(p) /\ Step
  /\ names' = [names EXCEPT ![p] = None]
  /\ SyncDir(names', inode, durable, Without({p}), Parent(p))
  /\ UNCHANGED <<next, boot, handle>>

-----------------------------------------------------------------------------
(* crash and kill *)

(* What a write that was waiting leaves: its first k sectors.  A length is *)
(* set or it is not.                                                       *)
Landed(data, op, k) ==
  IF k = 0 THEN data
  ELSE IF op.is = "truncate" THEN Apply(data, op)
  ELSE Apply(data, [op EXCEPT !.bytes = SubSeq(@, 1, IF k < Len(@) THEN k ELSE Len(@))])

Widths(file) == 0..Max({1} \cup {Len(file.pending[k].bytes) : k \in DOMAIN file.pending})

(* What may be left of a file; the writes land in the order they were made. *)
Outcomes(file) ==
  IF ~Torn THEN {file.durable}
  ELSE {FoldLeftDomain(LAMBDA data, k : Landed(data, file.pending[k], cut[k]),
                       file.durable, file.pending)
        : cut \in [DOMAIN file.pending -> Widths(file)]}

DiskStop == boot < MaxStops /\ boot' = boot + 1

Crash ==
  LET settled == {p \in DOMAIN promised :
                    promised[p] # Gone => inode[durable[p]].pending = <<>>} IN
  /\ DiskStop
  /\ \E left \in [DOMAIN inode -> UNION {Outcomes(inode[i]) : i \in DOMAIN inode}] :
       /\ \A i \in DOMAIN inode : left[i] \in Outcomes(inode[i])
       /\ inode' = ForgetUnreachable(
            [i \in DOMAIN inode |-> [data |-> left[i], durable |-> left[i], pending |-> <<>>]],
            durable, durable)
  /\ names' = durable
  /\ promised' = IF Torn THEN Restrict(promised, settled) ELSE promised
  /\ UNCHANGED <<next, durable, handle, steps>>

Kill == DiskStop /\ UNCHANGED <<diskVars, handle, steps, promised>>

-----------------------------------------------------------------------------
DiskNext ==
  \/ Crash \/ Kill
  \/ \E p \in Paths :
       \/ Sync(p) \/ MkDirAll(p) \/ Unlink(p) \/ RmDirAll(p) \/ XDelete(p)
       \/ \E q \in Paths : Rename(p, q) \/ CopyFile(p, q)
       \/ \E v \in Sectors, append \in BOOLEAN : WriteFile(p, v, append)
  \/ \E h \in Handles :
       \/ \E p \in Paths, dirsync \in BOOLEAN : XOpen(h, p, dirsync)
       \/ \E v \in Sectors : XWrite(h, 0, <<v, v>>) \/ XWrite(h, 1, <<v>>)
       \/ XTruncate(h, 0) \/ XTruncate(h, 1)
       \/ \E file, dir \in BOOLEAN : XSync(h, file, dir)

DiskSpec == DiskInit /\ [][DiskNext]_simDiskVars

-----------------------------------------------------------------------------
Contents == Seq(Sectors \cup {0})
Ops == [is : {"write", "truncate"}, at : Nat, bytes : Contents]

DiskTypeOK ==
  /\ DOMAIN inode \subseteq 1..(next - 1)
  /\ \A i \in DOMAIN inode :
       inode[i] \in [data : Contents, durable : Contents, pending : Seq(Ops)]
  /\ next \in 1..(MaxInodes + 1)
  /\ names \in [Paths -> Entries] /\ durable \in [Paths -> Entries]
  /\ names[<<>>] = Dir /\ durable[<<>>] = Dir
  /\ handle \in [Handles -> [ino : 0..(next - 1), path : Paths, boot : 0..boot, dirsync : BOOLEAN]]
  /\ boot \in 0..MaxStops /\ steps \in 0..MaxSteps
  /\ DOMAIN promised \subseteq Paths

(* Every file either namespace names has an inode: read, modified and a    *)
(* crash index it without a look (disk.rs, read), so one forgotten too     *)
(* early, by a removal, a rename or a directory's sync, is a panic.        *)
NamesReachInodes ==
  \A p \in Paths :
    /\ names[p] \in Inodes => names[p] \in DOMAIN inode
    /\ durable[p] \in Inodes => durable[p] \in DOMAIN inode

(* "durable + pending = data" (sync_ino's assertion): a sync replays the   *)
(* writes instead of copying the bytes, and must end with the same ones,   *)
(* whatever was cut, extended, torn or killed before.                      *)
PendingIsTheRest ==
  \A i \in DOMAIN inode : SyncedFile(inode[i]).durable = inode[i].data

(* "durable when it returns" (files.rs, sync): what a true sync of a file, *)
(* or of the directory it is in, said is durable is what a crash leaves,   *)
(* with every directory above it, until the program makes, removes, moves  *)
(* or replaces it; and what a directory's sync said is gone stays gone.  A *)
(* torn write may change the bytes of a file with writes that wait.  It    *)
(* holds as long as no name is a file's and later a directory's: see       *)
(* MCSimMixed.cfg.                                                         *)
SyncedIsKept ==
  \A p \in DOMAIN promised :
    IF promised[p] = Gone THEN durable[p] = None
    ELSE /\ durable[p] \in DOMAIN inode /\ promised[p] = Kept(inode[durable[p]].durable)
         /\ \A d \in Paths : Under(d, p) => durable[d] = Dir
=============================================================================
