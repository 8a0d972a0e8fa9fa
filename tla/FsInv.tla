------------------------------- MODULE FsInv -------------------------------
(***************************************************************************)
(* What holds of Fs in every reachable state, in parts: where a call keeps *)
(* which inodes and locks, that every pointer names an inode in use, that  *)
(* link counts cover the entries, and that the directories form a tree.    *)
(* FsProofs shows the conjunction to be inductive.                         *)
(***************************************************************************)
EXTENDS Fs

\* Where a process is, or goes on after its iput()s.
Putting == {"iput", "unref"}
Loc(l, t) == IF l \in Putting THEN t ELSE l
L(p) == Loc(pc[p], then[p])

Ino(i) == disk.inode[i]

\* The pointers that keep an inode from being freed: all but the one whose
\* iput() has done everything except ref--.
Pt(p, k) == IF k = "put1" /\ pc[p] = "unref" THEN Null ELSE Points(p, k)
Pts(p) == {Pt(p, k) : k \in Places}

-----------------------------------------------------------------------------
(* The assumption under which a path may contain ".." *)

\* The directory a process is about to look a name up in.
Searched(p) ==
    CASE pc[p] = "namei" -> ip[p]
      [] pc[p] \in {"nameiparent", "link_dir", "create_dp"} -> dp[p]
      [] OTHER -> Null

\* The directory has a name, or is one below the root.
Attached(i) ==
    \/ Ino(i).ents[".."] = ROOTINO
    \/ \E d \in Inums, e \in Names : Ino(d).ents[e] = i

\* Nobody follows the ".." of a directory that has been removed.
ParentsKept ==
    \A p \in Procs :
        Searched(p) # Null /\ todo[p] # <<>> /\ Head(todo[p]) = ".." =>
            Attached(Searched(p))

\* So it is when no path contains "..".
Downward == Seq(Entries \ {".."})
PathsDown ==
    \A c \in Calls :
        /\ c.op \notin {"write", "close"} => c.path \in Downward
        /\ c.op = "link" => c.new \in Downward
TodoDown == \A p \in Procs : todo[p] \in Downward

-----------------------------------------------------------------------------
(* The inode cache and its locks *)

\* A valid copy is that of the disk.
Cached ==
    \A i \in Inums : ic[i].valid =>
        /\ Ino(i).type # "free"
        /\ ic[i].type = Ino(i).type /\ ic[i].nlink = Ino(i).nlink

\* The locks a process keeps from one step to the next.
HoldsDp == {"unlink_ip", "create_new", "iunlockput_dp"}
HoldsIp == {"unlink_dec", "got"}
Holds(p, i) ==
    (L(p) \in HoldsDp /\ dp[p] = i) \/ (L(p) \in HoldsIp /\ ip[p] = i)

Locks ==
    /\ lock \in [Inums -> Procs \cup {Nobody}]
    /\ \A i \in Inums, p \in Procs : lock[i] = p <=> Holds(p, i)
    /\ \A i \in Inums : lock[i] # Nobody => ic[i].valid

-----------------------------------------------------------------------------
(* What a call knows of its inodes *)

\* Every pointer names an inode in use.
LiveP(p) == \A i \in Pts(p) : i # Null => Ino(i).type # "free"

\* The inode that ialloc() has just written is still empty and nobody else's.
NewP(p) ==
    L(p) = "create_new" =>
        /\ Ino(ip[p]).type = call[p].type
        /\ Ino(ip[p]).nlink = 0 /\ Ino(ip[p]).ents = NoEntries
        /\ ip[p] # dp[p] /\ \A q \in Procs \ {p} : ip[p] \notin Pts(q)

\* dp is a directory once nameiparent() has returned it.
InDir == {"link_dir", "unlink_dp", "unlink_ip", "create_dp", "create_new"}
DirP(p) == L(p) \in InDir => Ino(dp[p]).type = "T_DIR"

\* Between link_inc and link_dir or link_bad, link() owes its inode an entry,
\* and the inode is no directory; so does unlink() until unlink_dec.
Linking(p) ==
    /\ L(p) \in {"nameiparent", "iunlockput_dp", "link_dir", "link_bad"}
    /\ call[p].op = "link"
Owes(p, i) == ip[p] = i /\ (Linking(p) \/ L(p) = "unlink_dec")
FileP(p) == Linking(p) => Ino(ip[p]).type # "T_DIR"

\* What was read under a lock that is still held is still so.
EntryP(p) ==
    /\ L(p) = "unlink_ip" =>
        name(p) \in Names /\ Ino(dp[p]).ents[name(p)] = ip[p]
    /\ L(p) = "create_new" => name(p) \in Names
    /\ L(p) = "iunlockput_dp" /\ pc[p] \in Putting =>
        todo[p] # <<>> /\ put[p] = <<Ino(dp[p]).ents[name(p)]>>

CallsSound ==
    \A p \in Procs : LiveP(p) /\ NewP(p) /\ DirP(p) /\ FileP(p) /\ EntryP(p)

-----------------------------------------------------------------------------
(* Images *)

\* The names of an inode, and the names in it that are directories.
NamesOf(d, i) == {y \in Inums \X Names : d.inode[y[1]].ents[y[2]] = i}
Subdirs(d, i) == {e \in Names : IsDir(d, d.inode[i].ents[e])}

\* Link counts cover the links, and what calls in progress owe.
Owers(i) == {p \in Procs : Owes(p, i)}
Covered(d, i, n) ==
    d.inode[i].nlink >= Cardinality(NamesOf(d, i)) + Cardinality(Subdirs(d, i))
                        + (IF i = ROOTINO THEN 1 ELSE 0) + n
Counts == \A i \in Inums : Covered(disk, i, Cardinality(Owers(i)))

\* Free inodes are empty; only directories have entries; a directory has "."
\* and "..", unless it is being made.
FreeEmpty(d) ==
    \A i \in Inums : d.inode[i].type = "free" => d.inode[i] = FreeInode
DirsOnly(d) ==
    \A i \in Inums : d.inode[i].type # "T_DIR" => d.inode[i].ents = NoEntries
Dotted(d, New) ==
    \A i \in Inums \ New : d.inode[i].type = "T_DIR" =>
        d.inode[i].ents["."] = i /\ d.inode[i].ents[".."] # Null

\* ".." of a directory that has a name is where it has the name.
DotDot(d) ==
    \A i, j \in Inums, e \in Names :
        d.inode[i].ents[e] = j /\ d.inode[j].type = "T_DIR" =>
            d.inode[j].ents[".."] = i

\* No directory is below itself: in every set of inodes there is one with no
\* entry for another of them.
NoCycle(d) ==
    \A C \in SUBSET Inums : C # {} =>
        \E c \in C : \A e \in Names : d.inode[c].ents[e] \notin C

\* Blocks have one owner, and the bitmap marks those.
Owned(d) ==
    /\ \A i, j \in Inums : i # j => d.inode[i].addrs \cap d.inode[j].addrs = {}
    /\ d.bitmap = UNION {d.inode[i].addrs : i \in Inums}

Tree(d, New) ==
    /\ FreeEmpty(d) /\ DirsOnly(d) /\ Dotted(d, New) /\ DotDot(d) /\ NoCycle(d)
    /\ Owned(d) /\ d.inode[ROOTINO].type = "T_DIR"

\* The inodes being made.
Making == {i \in Inums : \E p \in Procs : L(p) = "create_new" /\ ip[p] = i}

OnDisk == Tree(disk, Making) /\ Counts
Durable == Tree(durable, {}) /\ \A i \in Inums : Covered(durable, i, 0)

-----------------------------------------------------------------------------
\* The other variables.
Control ==
    /\ active \subseteq Procs /\ made \in 0 .. MaxCalls
    /\ \A p \in Procs : p \in active <=> L(p) # "idle"
    /\ panic \in {"no", "exhausted"}

\* Copies that are no longer valid are link counts still; and nobody goes on
\* after an iput() at the step that looks at a name it has found or made.
Copies == \A i \in Inums : ic[i].nlink \in Nat
Thens == \A p \in Procs : then[p] \notin {"unlink_ip", "create_new"}

DiskInv == Cached /\ Locks /\ CallsSound /\ OnDisk /\ Durable /\ Control
=============================================================================
