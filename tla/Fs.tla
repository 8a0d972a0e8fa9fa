--------------------------------- MODULE Fs ---------------------------------
(***************************************************************************)
(* Inodes, directories and path names (xv6/fs.c) under the system calls    *)
(* that use them (xv6/sysfile.c): open with and without O_CREATE, mkdir,   *)
(* mknod, link, unlink, chdir, write and close, made by several processes. *)
(*                                                                         *)
(* What runs under one sleep lock with no other lock taken meanwhile is    *)
(* one step; a lock held while another is waited for, and the gap in       *)
(* iput() between releasesleep() and ref--, are kept.  The log is the      *)
(* AtomicDisk that module Log implements: a crash falls back to the last   *)
(* committed view of the disk.                                             *)
(*                                                                         *)
(* Abstracted: the bytes of files, the order of the entries of a directory *)
(* and the blocks holding inodes.  Size and addrs of a cached inode are    *)
(* those on the disk, since the code changes both under ip->lock; type and *)
(* nlink have their own copy.  The NINODE slots of the cache are seen      *)
(* through the inodes that are in them: what a slot without references     *)
(* holds is never read, so that it does not matter which slot it is.       *)
(***************************************************************************)
EXTENDS Integers, Sequences, FiniteSets, FiniteSetsExt

CONSTANTS
    Procs,
    NINODES,        \* sb.ninodes: inode numbers are 1 .. NINODES - 1
    NINODE,         \* slots of the inode cache
    DBlocks,        \* data blocks
    MAXFILE,        \* blocks of a file
    Names,          \* names of directory entries other than "." and ".."
    Program,        \* the file mkfs puts in the root directory
    Calls,          \* the system calls processes make, as records
    MaxCalls,       \* bound: system calls made altogether
    MayCrash        \* whether the machine may lose power

ROOTINO == 1
Inums == 1 .. NINODES - 1
Nobody == "nobody"
Null == 0
Entries == Names \cup {".", ".."}
Types == {"free", "T_DIR", "T_FILE", "T_DEV"}

ASSUME FsAssumption ==
    /\ NINODES \in Nat /\ NINODES > 2
    /\ NINODE \in Nat \ {0}
    /\ DBlocks \subseteq Nat /\ IsFiniteSet(DBlocks)
    /\ Cardinality(DBlocks) > 1
    /\ Program \in Names
    /\ MAXFILE \in Nat \ {0}
    /\ Nobody \notin Procs /\ IsFiniteSet(Procs)
    /\ Names \cap {".", ".."} = {} /\ IsFiniteSet(Names)
    /\ MaxCalls \in Nat
    /\ MayCrash \in BOOLEAN
    /\ \A c \in Calls :
        /\ c.op \in {"open", "create", "link", "unlink", "chdir", "write",
                     "close"}
        /\ c.op \notin {"write", "close"} =>
                c.path \in Seq(Entries) /\ c.abs \in BOOLEAN
        /\ c.op = "open" => c.omode \in {"O_RDONLY", "O_RDWR"}
        /\ c.op = "link" => c.new \in Seq(Entries)
        /\ c.op = "create" => c.type \in Types \ {"free"}

VARIABLES
    disk, durable,  \* what bread() returns, and what has been committed
    made,           \* system calls made so far
    active,         \* processes between begin_op() and end_op()
    ref, ic, lock,  \* the inode cache, indexed by inode number
    cwd, ofile,     \* of a process: its directory and its open file
    pc, call,       \* the system call a process is in, and where
    todo,           \* the path elements namex() has not consumed
    ip, dp,         \* the inodes the call has references to
    put, then,      \* the inodes to iput(), and what follows
    panic

log == <<disk, durable, active, made>>
icache == <<ref, ic, lock>>
files == <<cwd, ofile>>
locals == <<call, todo, ip, dp>>
vars == <<log, icache, files, pc, locals, put, then, panic>>

NoEntries == [e \in Entries |-> Null]
FreeInode == [type |-> "free", nlink |-> 0, ents |-> NoEntries, addrs |-> {}]
NoCopy == [valid |-> FALSE, type |-> "free", nlink |-> 0]
NoFile == [ip |-> Null, writable |-> FALSE]
NoCall == [op |-> "none"]
Locations == {"idle", "namei", "nameiparent", "iput", "unref", "end",
    "iunlockput_dp", "link_inc", "link_dir", "link_bad", "unlink_dp",
    "unlink_ip", "unlink_dec", "create_dp", "create_old", "create_new", "got",
    "open_ip", "chdir_ip", "chdir_set", "write_ip"}
Pointer == Inums \cup {Null}
FsImage ==
    [inode : [Inums -> [type : Types, nlink : Nat, ents : [Entries -> Pointer],
                        addrs : SUBSET DBlocks]],
     bitmap : SUBSET DBlocks]

TypeOK ==
    /\ disk \in FsImage /\ durable \in FsImage
    /\ active \subseteq Procs /\ made \in 0 .. MaxCalls
    /\ ref \in [Inums -> Nat]
    /\ ic \in [Inums -> [valid : BOOLEAN, type : Types, nlink : Nat]]
    /\ lock \in [Inums -> Procs \cup {Nobody}]
    /\ cwd \in [Procs -> Inums]
    /\ ofile \in [Procs -> [ip : Pointer, writable : BOOLEAN]]
    /\ pc \in [Procs -> Locations] /\ then \in [Procs -> Locations]
    /\ call \in [Procs -> Calls \cup {NoCall}]
    /\ todo \in [Procs -> Seq(Entries)] /\ put \in [Procs -> Seq(Inums)]
    /\ ip \in [Procs -> Pointer] /\ dp \in [Procs -> Pointer]
    /\ panic \in {"no", "assertion", "exhausted"}

\* The image mkfs writes: a root directory with nlink 1 and one program.
MkfsImage ==
    LET b == Min(DBlocks)
        c == Min(DBlocks \ {b})
        root == [NoEntries EXCEPT !["."] = ROOTINO, ![".."] = ROOTINO,
                                  ![Program] = ROOTINO + 1]
    IN [inode |-> [i \in Inums |->
            CASE i = ROOTINO -> [type |-> "T_DIR", nlink |-> 1,
                                 ents |-> root, addrs |-> {b}]
              [] i = ROOTINO + 1 -> [type |-> "T_FILE", nlink |-> 1,
                                     ents |-> NoEntries, addrs |-> {c}]
              [] OTHER -> FreeInode],
        bitmap |-> {b, c}]

\* Memory after boot: every process has the root as its directory.
BootRef == [i \in Inums |-> IF i = ROOTINO THEN Cardinality(Procs) ELSE 0]
All(v) == [p \in Procs |-> v]
Each(v) == [i \in Inums |-> v]

Init ==
    /\ disk = MkfsImage /\ durable = MkfsImage /\ active = {} /\ made = 0
    /\ ref = BootRef /\ ic = Each(NoCopy) /\ lock = Each(Nobody)
    /\ cwd = All(ROOTINO) /\ ofile = All(NoFile)
    /\ pc = All("idle") /\ call = All(NoCall) /\ todo = All(<<>>)
    /\ ip = All(Null) /\ dp = All(Null)
    /\ put = All(<<>>) /\ then = All("idle")
    /\ panic = "no"

-----------------------------------------------------------------------------
(* Helpers *)

At(p, l) == pc[p] = l /\ panic = "no"
Goto(p, l) == pc' = [pc EXCEPT ![p] = l] /\ UNCHANGED <<put, then>>

\* iput() the inodes of s in turn, then go on at l.
PutThen(p, s, l) ==
    /\ put' = [put EXCEPT ![p] = s]
    /\ then' = [then EXCEPT ![p] = l]
    /\ pc' = [pc EXCEPT ![p] = "iput"]

SetIp(p, i) == ip' = [ip EXCEPT ![p] = i]
SetDp(p, i) == dp' = [dp EXCEPT ![p] = i]
Hold(p, i) == [lock EXCEPT ![i] = p]
Release(l, i) == [l EXCEPT ![i] = Nobody]

\* The cached copy of an inode, as ilock() makes it: read from the disk if it
\* is not valid.
Copy(i) ==
    IF ic[i].valid THEN ic[i]
    ELSE [valid |-> TRUE, type |-> disk.inode[i].type,
          nlink |-> disk.inode[i].nlink]
Locked(i) == [ic EXCEPT ![i] = Copy(i)]

\* iupdate() with the copy c of inode i.
iupdate(d, i, c) ==
    [d EXCEPT !.inode[i] = [@ EXCEPT !.type = c.type, !.nlink = c.nlink]]

\* iget(): a reference to inode i; a cache entry that nobody referred to is
\* recycled with valid = 0, and panic("iget: no inodes") if there is none.
iget(i) == [ref EXCEPT ![i] = ref[i] + 1]
Recycled(c, i) == IF ref[i] = 0 THEN [c EXCEPT ![i].valid = FALSE] ELSE c
InCache == {i \in Inums : ref[i] > 0}
NoSlot(i) == i # Null /\ i \notin InCache /\ Cardinality(InCache) >= NINODE

\* ilock(i), which panics if the inode is free ("ilock: no type"), and iget(j)
\* under that lock, unless j is Null.  A panic ends the run: what else the step
\* does no longer matters.
ilock_iget(i, j) ==
    /\ lock[i] = Nobody
    /\ panic' = IF Copy(i).type = "free" THEN "assertion"
                ELSE IF NoSlot(j) THEN "exhausted" ELSE "no"
ilock(i) == ilock_iget(i, Null)

\* dirlookup() and the writei() of a directory entry.
dirlookup(i, name) == disk.inode[i].ents[name]
SetEntry(d, i, name, inum) ==
    [d EXCEPT !.inode[i] = [@ EXCEPT !.ents[name] = inum]]
isdirempty(i) == \A e \in Names : dirlookup(i, e) = Null

\* balloc() takes the first block whose bit is clear; bmap() records it.
balloc(d, i) ==
    LET b == Min(DBlocks \ d.bitmap)
        owned == d.inode[i].addrs \cup {b}
    IN [inode |-> [d.inode EXCEPT ![i] = [@ EXCEPT !.addrs = owned]],
        bitmap |-> d.bitmap \cup {b}]
NoBlocks == disk.bitmap = DBlocks

\* itrunc() gives the blocks back.
itrunc(d, i) ==
    [inode |-> [d.inode EXCEPT ![i] = [@ EXCEPT !.addrs = {}, !.ents = NoEntries]],
     bitmap |-> d.bitmap \ d.inode[i].addrs]

-----------------------------------------------------------------------------
(* begin_op(), end_op() and the crash: what AtomicDisk allows *)

begin_op(p) ==
    /\ made < MaxCalls /\ made' = made + 1
    /\ active' = active \cup {p} /\ UNCHANGED <<disk, durable>>

\* The last operation out commits what all of them have written.
end_op(p) ==
    /\ At(p, "end")
    /\ active' = active \ {p}
    /\ durable' = IF active' = {} THEN disk ELSE durable
    /\ Goto(p, "idle")
    /\ call' = [call EXCEPT ![p] = NoCall]
    /\ todo' = [todo EXCEPT ![p] = <<>>]
    /\ UNCHANGED <<disk, made, icache, files, ip, dp, panic>>

Crash ==
    /\ MayCrash
    /\ disk' = durable /\ UNCHANGED <<durable, made>> /\ active' = {}
    /\ ref' = BootRef /\ ic' = Each(NoCopy) /\ lock' = Each(Nobody)
    /\ cwd' = All(ROOTINO) /\ ofile' = All(NoFile)
    /\ pc' = All("idle") /\ call' = All(NoCall) /\ todo' = All(<<>>)
    /\ ip' = All(Null) /\ dp' = All(Null)
    /\ put' = All(<<>>) /\ then' = All("idle")
    /\ panic' = "no"

-----------------------------------------------------------------------------
(* iput() *)

\* The inode goes if it has no links and this is the last reference.
DroppedWhileReferenced(i) == ic[i].valid /\ ic[i].nlink = 0
DroppedWhileLinked(i) == ic[i].valid /\ ref[i] = 1
Dropped(i) == ic[i].valid /\ ic[i].nlink = 0 /\ ref[i] = 1

iput(p) ==
    /\ At(p, "iput")
    /\ LET i == Head(put[p])
       IN /\ lock[i] = Nobody
          /\ IF Dropped(i)
             THEN /\ disk' = iupdate(itrunc(disk, i), i, NoCopy)
                  /\ ic' = [ic EXCEPT ![i] = NoCopy]
             ELSE UNCHANGED <<disk, ic>>
    /\ pc' = [pc EXCEPT ![p] = "unref"]
    /\ UNCHANGED <<durable, active, made, ref, lock, files, locals, put, then,
                   panic>>

\* icache.lock is taken after the sleep lock has been released.
unref(p) ==
    /\ At(p, "unref")
    /\ ref' = [ref EXCEPT ![Head(put[p])] = @ - 1]
    /\ put' = [put EXCEPT ![p] = Tail(put[p])]
    /\ IF put'[p] = <<>>
       THEN /\ pc' = [pc EXCEPT ![p] = then[p]]
            /\ then' = [then EXCEPT ![p] = "idle"]
       ELSE pc' = [pc EXCEPT ![p] = "iput"] /\ UNCHANGED then
    /\ UNCHANGED <<log, ic, lock, files, locals, panic>>

-----------------------------------------------------------------------------
(* namex() *)

\* The first inode of a path: iget() of the root, or idup() of the current
\* directory.
Start(p) == IF call'[p].abs THEN ROOTINO ELSE cwd[p]
Got(p) == IF call'[p].abs THEN ROOTINO ELSE Null

\* Where a call goes on with the inode of its path, and with the parent.
AfterNamei(op) ==
    CASE op = "link" -> "link_inc"
      [] op = "open" -> "open_ip"
      [] op = "chdir" -> "chdir_ip"
AfterParent(op) ==
    CASE op = "link" -> "link_dir"
      [] op = "unlink" -> "unlink_dp"
      [] op = "create" -> "create_dp"
BadParent(op) == IF op = "link" THEN "link_bad" ELSE "end"
NextElem(p) == IF todo'[p] = <<>> THEN AfterNamei(call'[p].op) ELSE "namei"

Begin(p, c) ==
    /\ At(p, "idle")
    /\ call' = [call EXCEPT ![p] = c]
    /\ begin_op(p)
    /\ \/ /\ c.op = "close" /\ ofile[p] # NoFile
          /\ ofile' = [ofile EXCEPT ![p] = NoFile]
          /\ PutThen(p, <<ofile[p].ip>>, "end")
          /\ UNCHANGED <<icache, todo, ip, dp, panic>>
       \/ /\ c.op = "write" /\ ofile[p].writable
          /\ Goto(p, "write_ip")
          /\ UNCHANGED <<icache, ofile, todo, ip, dp, panic>>
       \/ /\ c.op \in {"unlink", "create"}
          /\ SetDp(p, Start(p)) /\ ref' = iget(Start(p))
          /\ ic' = Recycled(ic, Start(p))
          /\ todo' = [todo EXCEPT ![p] = c.path]
          /\ Goto(p, "nameiparent")
          /\ panic' = IF NoSlot(Got(p)) THEN "exhausted" ELSE "no"
          /\ UNCHANGED <<lock, ofile, ip>>
       \/ /\ c.op \in {"open", "link", "chdir"}
          /\ SetIp(p, Start(p)) /\ ref' = iget(Start(p))
          /\ ic' = Recycled(ic, Start(p))
          /\ todo' = [todo EXCEPT ![p] = c.path]
          /\ Goto(p, NextElem(p))
          /\ panic' = IF NoSlot(Got(p)) THEN "exhausted" ELSE "no"
          /\ UNCHANGED <<lock, ofile, dp>>
    /\ UNCHANGED cwd

\* A path that leads nowhere: iunlockput(ip), return 0.
NamexFailedNoPut(p, i, l) == Goto(p, l)
NamexFailed(p, i, l) == PutThen(p, <<i>>, l)

\* One element of a path: ilock(), dirlookup(), iunlockput().
namei(p) ==
    /\ At(p, "namei")
    /\ UNCHANGED <<log, lock, files, call, dp>>
    /\ LET i == ip[p]
           next == dirlookup(i, Head(todo[p]))
       IN /\ ilock_iget(i, IF Copy(i).type = "T_DIR" THEN next ELSE Null)
          /\ IF Copy(i).type # "T_DIR" \/ next = Null
             THEN /\ SetIp(p, Null) /\ NamexFailed(p, i, "end")
                  /\ ic' = Locked(i)
                  /\ UNCHANGED <<ref, todo>>
             ELSE /\ SetIp(p, next) /\ ref' = iget(next)
                  /\ ic' = Recycled(Locked(i), next)
                  /\ todo' = [todo EXCEPT ![p] = Tail(todo[p])]
                  /\ PutThen(p, <<i>>, NextElem(p))

\* With nameiparent set: stop one level early.
nameiparent(p) ==
    /\ At(p, "nameiparent") /\ todo[p] # <<>>
    /\ LET i == dp[p]
           next == dirlookup(i, Head(todo[p]))
       IN \/ /\ Copy(i).type = "T_DIR" /\ Len(todo[p]) = 1
             /\ ilock(i)
             /\ Goto(p, AfterParent(call[p].op))
             /\ ic' = Locked(i)
             /\ UNCHANGED <<dp, ref, todo>>
          \/ /\ Copy(i).type # "T_DIR" \/ (Len(todo[p]) > 1 /\ next = Null)
             /\ ilock(i)
             /\ SetDp(p, Null) /\ NamexFailed(p, i, BadParent(call[p].op))
             /\ ic' = Locked(i)
             /\ UNCHANGED <<ref, todo>>
          \/ /\ Copy(i).type = "T_DIR" /\ Len(todo[p]) > 1 /\ next # Null
             /\ ilock_iget(i, next)
             /\ SetDp(p, next) /\ ref' = iget(next)
             /\ ic' = Recycled(Locked(i), next)
             /\ todo' = [todo EXCEPT ![p] = Tail(todo[p])]
             /\ PutThen(p, <<i>>, "nameiparent")
    /\ UNCHANGED <<log, lock, files, call, ip>>

NoParent(p) ==
    /\ At(p, "nameiparent") /\ todo[p] = <<>>
    /\ SetDp(p, Null) /\ PutThen(p, <<dp[p]>>, BadParent(call[p].op))
    /\ UNCHANGED <<log, icache, files, call, todo, ip, panic>>

name(p) == Head(todo[p])

\* iunlockput(dp) after a failure under its lock.
iunlockput_dp(p) ==
    /\ At(p, "iunlockput_dp")
    /\ lock' = Release(lock, dp[p])
    /\ SetDp(p, Null) /\ PutThen(p, <<dp[p]>>, BadParent(call[p].op))
    /\ UNCHANGED <<log, ref, ic, files, call, todo, ip, panic>>

-----------------------------------------------------------------------------
(* sys_link() *)

link_inc(p) ==
    /\ At(p, "link_inc")
    /\ LET i == ip[p]
           c == [Copy(i) EXCEPT !.nlink = @ + 1]
       IN IF Copy(i).type = "T_DIR"
          THEN /\ ilock(i) /\ ic' = Locked(i)
               /\ SetIp(p, Null) /\ PutThen(p, <<i>>, "end")
               /\ UNCHANGED <<disk, ref, call, todo, dp>>
          ELSE /\ disk' = iupdate(disk, i, c)
               /\ UNCHANGED <<call, ip>>
               /\ ilock_iget(i, Got(p))
               /\ SetDp(p, Start(p)) /\ ref' = iget(Start(p))
               /\ ic' = Recycled([ic EXCEPT ![i] = c], Start(p))
               /\ todo' = [todo EXCEPT ![p] = call[p].new]
               /\ Goto(p, "nameiparent")
    /\ UNCHANGED <<durable, active, made, lock, files>>

\* dirlink(): if the name is there, it is put while dp is locked.
link_dir(p) ==
    /\ At(p, "link_dir") /\ ilock_iget(dp[p], dirlookup(dp[p], name(p)))
    /\ LET i == dp[p]
           old == dirlookup(i, name(p))
       IN IF old # Null
          THEN /\ lock' = Hold(p, i)
               /\ ref' = iget(old) /\ ic' = Recycled(Locked(i), old)
               /\ PutThen(p, <<old>>, "iunlockput_dp")
               /\ UNCHANGED <<disk, ip, dp>>
          ELSE /\ disk' = SetEntry(disk, i, name(p), ip[p])
               /\ ic' = Locked(i)
               /\ SetIp(p, Null) /\ SetDp(p, Null)
               /\ PutThen(p, <<i, ip[p]>>, "end")
               /\ UNCHANGED <<lock, ref>>
    /\ UNCHANGED <<durable, active, made, files, call, todo>>

link_bad(p) ==
    /\ At(p, "link_bad") /\ ilock(ip[p])
    /\ LET i == ip[p]
           c == [Copy(i) EXCEPT !.nlink = @ - 1]
       IN /\ ic' = [ic EXCEPT ![i] = c] /\ disk' = iupdate(disk, i, c)
          /\ PutThen(p, <<i>>, "end")
    /\ SetIp(p, Null)
    /\ UNCHANGED <<durable, active, made, ref, lock, files, call, todo, dp>>

-----------------------------------------------------------------------------
(* sys_unlink() *)

unlink_dp(p) ==
    /\ At(p, "unlink_dp")
    /\ LET i == dp[p]
           old == dirlookup(i, name(p))
       IN IF name(p) \in {".", ".."} \/ old = Null
          THEN /\ ilock(i)
               /\ SetDp(p, Null) /\ PutThen(p, <<i>>, "end")
               /\ ic' = Locked(i)
               /\ UNCHANGED <<lock, ref, ip>>
          ELSE /\ ilock_iget(i, old) /\ lock' = Hold(p, i)
               /\ SetIp(p, old) /\ ref' = iget(old)
               /\ ic' = Recycled(Locked(i), old)
               /\ Goto(p, "unlink_ip")
               /\ UNCHANGED dp
    /\ UNCHANGED <<log, files, call, todo>>

\* Holding dp.  The entry goes and dp is unlocked and put while ip stays
\* locked.
unlink_ip(p) ==
    /\ At(p, "unlink_ip") /\ lock[ip[p]] = Nobody
    /\ LET i == ip[p]
           d == dp[p]
           isdir == Copy(i).type = "T_DIR"
           cd == [ic[d] EXCEPT !.nlink = IF isdir THEN @ - 1 ELSE @]
       IN /\ panic' = IF Copy(i).type = "free" \/ Copy(i).nlink < 1
                      THEN "assertion" ELSE "no"
          /\ IF isdir /\ ~isdirempty(i)
             THEN /\ ic' = Locked(i)
                  /\ SetIp(p, Null) /\ PutThen(p, <<i>>, "iunlockput_dp")
                  /\ UNCHANGED <<disk, lock, dp>>
             ELSE /\ disk' = iupdate(SetEntry(disk, d, name(p), Null), d, cd)
                  /\ ic' = [Locked(i) EXCEPT ![d] = cd]
                  /\ lock' = Release(Hold(p, i), d)
                  /\ SetDp(p, Null) /\ PutThen(p, <<d>>, "unlink_dec")
                  /\ UNCHANGED ip
    /\ UNCHANGED <<durable, active, made, ref, files, call, todo>>

\* A directory does not count its own ".".
LinksLostWithDot(i) == IF ic[i].type = "T_DIR" THEN 2 ELSE 1
LinksLost(i) == 1
unlink_dec(p) ==
    /\ At(p, "unlink_dec")
    /\ LET i == ip[p]
           c == [ic[i] EXCEPT !.nlink = @ - LinksLost(i)]
       IN /\ ic' = [ic EXCEPT ![i] = c] /\ disk' = iupdate(disk, i, c)
          /\ lock' = Release(lock, i)
          /\ PutThen(p, <<i>>, "end")
    /\ SetIp(p, Null)
    /\ UNCHANGED <<durable, active, made, ref, files, call, todo, dp, panic>>

-----------------------------------------------------------------------------
(* create(), for open(O_CREATE), mkdir and mknod *)

FreeInums == {i \in Inums : disk.inode[i].type = "free"}

create_dp(p) ==
    /\ At(p, "create_dp")
    /\ LET i == dp[p]
           old == dirlookup(i, name(p))
           new == Min(FreeInums)
       IN \/ /\ old # Null /\ ilock_iget(i, old)
             /\ ref' = iget(old) /\ ic' = Recycled(Locked(i), old)
             /\ SetIp(p, old) /\ SetDp(p, Null)
             /\ PutThen(p, <<i>>, "create_old")
             /\ UNCHANGED <<disk, lock>>
          \/ /\ old = Null /\ FreeInums # {}                    \* ialloc()
             /\ ilock_iget(i, new)
             /\ disk' = [disk EXCEPT !.inode[new] =
                            [FreeInode EXCEPT !.type = call[p].type]]
             /\ lock' = Hold(p, i)
             /\ ref' = iget(new) /\ ic' = Recycled(Locked(i), new)
             /\ SetIp(p, new)
             /\ Goto(p, "create_new")
             /\ UNCHANGED dp
          \/ /\ old = Null /\ FreeInums = {} /\ lock[i] = Nobody
             /\ panic' = IF Copy(i).type = "free" THEN "assertion"
                         ELSE "exhausted"             \* "ialloc: no inodes"
             /\ UNCHANGED <<disk, icache, ip, dp, pc, put, then>>
    /\ UNCHANGED <<durable, active, made, files, call, todo>>

\* The name exists: good enough for open(O_CREATE) of a file.
create_old(p) ==
    /\ At(p, "create_old") /\ ilock(ip[p])
    /\ LET i == ip[p]
       IN /\ ic' = Locked(i)
          /\ IF call[p].type = "T_FILE" /\ Copy(i).type = "T_FILE"
             THEN lock' = Hold(p, i) /\ Goto(p, "got") /\ UNCHANGED ip
             ELSE /\ SetIp(p, Null) /\ PutThen(p, <<i>>, "end")
                  /\ UNCHANGED lock
    /\ UNCHANGED <<log, ref, files, call, todo, dp>>

\* Holding dp: links, "." and "..", the entry in dp; then dp is put while ip
\* stays locked.
create_new(p) ==
    /\ At(p, "create_new") /\ lock[ip[p]] = Nobody
    /\ LET i == ip[p]
           d == dp[p]
           isdir == call[p].type = "T_DIR"
           ci == [Copy(i) EXCEPT !.nlink = 1]
           cd == [ic[d] EXCEPT !.nlink = IF isdir THEN @ + 1 ELSE @]
           linked == SetEntry(iupdate(iupdate(disk, i, ci), d, cd),
                              d, name(p), i)
           dots == SetEntry(SetEntry(linked, i, ".", i), i, "..", d)
       IN IF isdir /\ NoBlocks
          THEN /\ panic' = "exhausted"              \* "balloc: out of blocks"
               /\ UNCHANGED <<disk, ic, lock, dp, pc, put, then>>
          ELSE /\ panic' = IF Copy(i).type = "free" THEN "assertion" ELSE "no"
               /\ disk' = IF isdir THEN balloc(dots, i) ELSE linked
               /\ ic' = [ic EXCEPT ![i] = ci, ![d] = cd]
               /\ lock' = Release(Hold(p, i), d)
               /\ SetDp(p, Null) /\ PutThen(p, <<d>>, "got")
    /\ UNCHANGED <<durable, active, made, ref, files, call, todo, ip>>

-----------------------------------------------------------------------------
(* sys_open(), sys_mkdir(), sys_mknod(), sys_chdir(), filewrite() *)

open_ip(p) ==
    /\ At(p, "open_ip") /\ ilock(ip[p])
    /\ LET i == ip[p]
       IN /\ ic' = Locked(i)
          /\ IF Copy(i).type = "T_DIR" /\ call[p].omode # "O_RDONLY"
             THEN /\ SetIp(p, Null) /\ PutThen(p, <<i>>, "end")
                  /\ UNCHANGED lock
             ELSE lock' = Hold(p, i) /\ Goto(p, "got") /\ UNCHANGED ip
    /\ UNCHANGED <<log, ref, files, call, todo, dp>>

\* The call has its inode, locked.  filealloc() and fdalloc() may fail; a
\* process keeps one descriptor here.
IsOpen(c) == c.op = "open" \/ (c.op = "create" /\ c.type = "T_FILE")
got(p) ==
    /\ At(p, "got")
    /\ lock' = Release(lock, ip[p])
    /\ SetIp(p, Null)
    /\ \/ PutThen(p, <<ip[p]>>, "end") /\ UNCHANGED ofile
       \/ /\ IsOpen(call[p]) /\ ofile[p] = NoFile
          /\ ofile' = [ofile EXCEPT ![p] =
                [ip |-> ip[p],
                 writable |-> call[p].op = "create"
                              \/ call[p].omode # "O_RDONLY"]]
          /\ Goto(p, "end")
    /\ UNCHANGED <<log, ref, ic, cwd, call, todo, dp, panic>>

\* The old directory is put once the new one has been unlocked.
ChdirPutLocked(p) ==
    /\ At(p, "chdir_ip") /\ ilock(ip[p])
    /\ ic' = Locked(ip[p]) /\ lock' = Hold(p, ip[p])
    /\ PutThen(p, <<cwd[p]>>, "chdir_set")
    /\ UNCHANGED <<log, ref, files, locals>>
chdir_ip(p) ==
    /\ At(p, "chdir_ip") /\ ilock(ip[p])
    /\ LET i == ip[p]
       IN /\ ic' = Locked(i)
          /\ IF Copy(i).type # "T_DIR"
             THEN SetIp(p, Null) /\ PutThen(p, <<i>>, "end")
             ELSE PutThen(p, <<cwd[p]>>, "chdir_set") /\ UNCHANGED ip
    /\ UNCHANGED <<log, ref, lock, files, call, todo, dp>>

chdir_set(p) ==
    /\ At(p, "chdir_set")
    /\ cwd' = [cwd EXCEPT ![p] = ip[p]]
    /\ SetIp(p, Null)
    /\ Goto(p, "end")
    /\ UNCHANGED <<log, icache, ofile, call, todo, dp, panic>>

\* filewrite() of one block at the end of the file; a device has no blocks.
write_ip(p) ==
    /\ At(p, "write_ip") /\ lock[ofile[p].ip] = Nobody
    /\ LET i == ofile[p].ip
           grows == /\ Copy(i).type = "T_FILE"
                    /\ Cardinality(disk.inode[i].addrs) < MAXFILE
       IN IF grows /\ NoBlocks
          THEN panic' = "exhausted" /\ UNCHANGED <<disk, ic, pc, put, then>>
          ELSE /\ panic' = IF Copy(i).type = "free" THEN "assertion" ELSE "no"
               /\ ic' = Locked(i)
               /\ disk' = IF grows THEN balloc(disk, i) ELSE disk
               /\ Goto(p, "end")
    /\ UNCHANGED <<durable, active, made, ref, lock, files, locals>>

-----------------------------------------------------------------------------
Step(p) ==
    \/ end_op(p) \/ iput(p) \/ unref(p)
    \/ namei(p) \/ nameiparent(p) \/ NoParent(p)
    \/ iunlockput_dp(p)
    \/ link_inc(p) \/ link_dir(p) \/ link_bad(p)
    \/ unlink_dp(p) \/ unlink_ip(p) \/ unlink_dec(p)
    \/ create_dp(p) \/ create_old(p) \/ create_new(p)
    \/ open_ip(p) \/ got(p) \/ chdir_ip(p) \/ chdir_set(p) \/ write_ip(p)

Next ==
    \/ \E p \in Procs : Step(p) \/ \E c \in Calls : Begin(p, c)
    \/ Crash

Spec == Init /\ [][Next]_vars

-----------------------------------------------------------------------------
(* Properties *)

\* The lock a process waits for.
Sought(p) ==
    CASE pc[p] = "iput" -> Head(put[p])
      [] pc[p] = "namei" -> ip[p]
      [] pc[p] = "nameiparent" /\ todo[p] # <<>> -> dp[p]
      [] pc[p] \in {"link_dir", "unlink_dp", "create_dp"} -> dp[p]
      [] pc[p] \in {"link_inc", "link_bad", "unlink_ip", "create_old",
                    "create_new", "open_ip", "chdir_ip"} -> ip[p]
      [] pc[p] = "write_ip" -> ofile[p].ip
      [] OTHER -> Null

\* Processes that wait for inode locks they hold among themselves.
Stuck(S) == \A p \in S : Sought(p) # Null /\ lock[Sought(p)] \in S

\* No system calls wait for each other for ever: "another concurrent
\* link/unlink/create test, to look for deadlocks" (usertests.c:855).
NoDeadlock == \A S \in (SUBSET Procs) \ {{}} : ~Stuck(S)

\* Locking an inode only after its directory has been released keeps path
\* lookup out of every deadlock (fs.c:150): in each there is a create() or an
\* unlink() that puts the directory while it holds the lock of the inode, or a
\* link() to the name "." or "..", which dirlink() looks up and puts while it
\* holds the directory.
LookupNeverStuck ==
    \A S \in (SUBSET Procs) \ {{}} : Stuck(S) =>
        \E p \in S :
            /\ pc[p] = "iput"
            /\ \/ then[p] \in {"got", "unlink_dec"}
               \/ then[p] = "iunlockput_dp" /\ name(p) \in {".", ".."}

\* ip->ref "tracks the number of in-memory pointers to the entry": open
\* files, current directories, and what the calls hold or are about to put.
\* chdir() gives the old directory up before it has overwritten the pointer.
CwdGivenUp(p) ==
    pc[p] = "chdir_set" \/ (then[p] = "chdir_set" /\ put[p] # <<>>)
Nth(s, n) == IF n <= Len(s) THEN s[n] ELSE Null
Places == {"cwd", "ofile", "ip", "dp", "put1", "put2"}
Points(p, k) ==
    CASE k = "cwd" -> IF CwdGivenUp(p) THEN Null ELSE cwd[p]
      [] k = "ofile" -> ofile[p].ip
      [] k = "ip" -> ip[p]
      [] k = "dp" -> dp[p]
      [] k = "put1" -> Nth(put[p], 1)
      [] k = "put2" -> Nth(put[p], 2)
RefCount ==
    \A i \in Inums :
        ref[i] = Cardinality({y \in Procs \X Places : Points(y[1], y[2]) = i})

\* The two assertions modelled hold: nobody locks a free inode ("ilock: no
\* type"), and unlink() never meets an entry for an inode without links
\* ("unlink: nlink < 1").  (Of calls that follow the ".." of a
\* removed directory this is not true: it does not keep its parent alive.)
NoPanic == panic # "assertion"

\* The links to an inode in an image: entries, and the ".." of directories
\* that have an entry in it.
IsDir(d, i) == i # Null /\ d.inode[i].type = "T_DIR"
Links(d, i) ==
    Cardinality({y \in Inums \X Names : d.inode[y[1]].ents[y[2]] = i})
    + Cardinality({e \in Names : IsDir(d, d.inode[i].ents[e])})
    + (IF i = ROOTINO THEN 1 ELSE 0)

\* Whenever power fails, what recovery finds is a file system: no entry names
\* a free inode or one with too small a link count, free inodes have no
\* blocks, a block has one owner and the bitmap marks exactly the owned ones.
Consistent ==
    LET used == {i \in Inums : durable.inode[i].type # "free"}
    IN /\ \A i \in Inums :
            durable.inode[i].nlink >= Links(durable, i)
            /\ (Links(durable, i) > 0 => i \in used)
            /\ (i \notin used => durable.inode[i].addrs = {})
       /\ \A i, j \in Inums : i # j =>
            durable.inode[i].addrs \cap durable.inode[j].addrs = {}
       /\ durable.bitmap = UNION {durable.inode[i].addrs : i \in Inums}
=============================================================================
