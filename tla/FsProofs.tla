------------------------------ MODULE FsProofs ------------------------------
(***************************************************************************)
(* Proofs about Fs for every number of processes, inodes, blocks and calls *)
(* and with a crash at any moment, in this order: where a call holds which *)
(* inodes, and that ip->ref counts exactly the pointers to an inode; what  *)
(* a step that leaves the disk alone preserves of FsInv; what each write   *)
(* of the disk does to link counts, entries and blocks; boot; and the      *)
(* theorems that follow from the whole, no panic, an image that fits       *)
(* together after every crash, and no deadlock of lookups alone.           *)
(***************************************************************************)
EXTENDS FsInv, WrapLemmas, SequenceTheorems

\* What a step may leave in panic: nothing, or that something ran out; and what
\* every call of ilock() gives, with or without an iget() under the lock.
Unbroken == panic' \in {"no", "exhausted"}
Ilock(i) == lock[i] = Nobody /\ (Copy(i).type # "free" => Unbroken)
USE DEF Unbroken

\* The locations at which a call refers to ip, and to dp.  link() has ip also
\* while it looks for the directory.
HasIp == {"namei", "link_inc", "link_dir", "link_bad", "unlink_ip", "unlink_dec",
          "create_old", "create_new", "got", "open_ip", "chdir_ip", "chdir_set"}
HasDp == {"nameiparent", "iunlockput_dp", "link_dir", "unlink_dp", "unlink_ip",
          "create_dp", "create_new"}
IpAt(l, op) == l \in HasIp \/ (l \in {"nameiparent", "iunlockput_dp"} /\ op = "link")

\* The calls that come to a location.
OpAt(l, op) ==
    /\ l = "namei" => op \in {"link", "open", "chdir"}
    /\ l = "nameiparent" => op \in {"link", "unlink", "create"}
    /\ l = "iunlockput_dp" => op \in {"link", "unlink"}
    /\ l \in {"link_inc", "link_dir", "link_bad"} => op = "link"
    /\ l \in {"unlink_dp", "unlink_ip", "unlink_dec"} => op = "unlink"
    /\ l \in {"create_dp", "create_old", "create_new"} => op = "create"
    /\ l = "got" => op \in {"create", "open"}
    /\ l = "open_ip" => op = "open"
    /\ l \in {"chdir_ip", "chdir_set"} => op = "chdir"

\* The locations with an element of the path left.
Named == {"namei", "link_dir", "unlink_dp", "unlink_ip", "create_dp", "create_new"}

\* What the variables of one process have to do with each other.
Row(l, t, s, i, d, c, td, o) ==
    /\ l \in Putting <=> s # <<>>
    /\ Len(s) <= 2
    /\ l \notin Putting => t = "idle"
    /\ Loc(l, t) \notin Putting
    /\ i # Null <=> IpAt(Loc(l, t), c.op)
    /\ d # Null <=> Loc(l, t) \in HasDp
    /\ OpAt(Loc(l, t), c.op)
    /\ Loc(l, t) \notin {"idle", "end"} => c \in Calls
    /\ Loc(l, t) \in Named => td # <<>>
    /\ o.writable => o.ip # Null
    /\ Loc(l, t) = "write_ip" => o.writable

RowInv ==
    \A p \in Procs : Row(pc[p], then[p], put[p], ip[p], dp[p], call[p], todo[p],
                         ofile[p])

\* The types that matter for pointers; link counts are integers.
Image ==
    [inode : [Inums -> [type : Types, nlink : Int, ents : [Entries -> Pointer],
                        addrs : SUBSET DBlocks]],
     bitmap : SUBSET DBlocks]

Shape ==
    /\ disk \in Image /\ durable \in Image
    /\ ref \in [Inums -> Int]
    /\ ic \in [Inums -> [valid : BOOLEAN, type : Types, nlink : Int]]
    /\ cwd \in [Procs -> Inums]
    /\ ofile \in [Procs -> [ip : Pointer, writable : BOOLEAN]]
    /\ pc \in [Procs -> Locations] /\ then \in [Procs -> Locations]
    /\ call \in [Procs -> Calls \cup {NoCall}]
    /\ todo \in [Procs -> Seq(Entries)] /\ put \in [Procs -> Seq(Inums)]
    /\ ip \in [Procs -> Pointer] /\ dp \in [Procs -> Pointer]

IInv == Shape /\ RowInv /\ RefCount

-----------------------------------------------------------------------------
(* Counting pointers *)

Is(x, i) == IF x = i THEN 1 ELSE 0

\* All pointers to inodes as one function, and how many of them are i.
Spots == Procs \X Places
Table == [y \in Spots |-> Points(y[1], y[2])]
Uses(v, i) == Cardinality({y \in Spots : v[y] = i})

\* Overwriting one pointer changes the count by its old and its new value.
LEMMA UsesUpdate ==
    ASSUME NEW v \in [Spots -> Pointer], NEW w \in [Spots -> Pointer],
           NEW y \in Spots, NEW i, \A x \in Spots \ {y} : w[x] = v[x]
    PROVE  /\ Uses(v, i) \in Nat
           /\ Uses(w, i) = Uses(v, i) - Is(v[y], i) + Is(w[y], i)
<1> DEFINE R == {x \in Spots \ {y} : v[x] = i}
           S == {x \in Spots : v[x] = i}
           T == {x \in Spots : w[x] = i}
<1>1. IsFiniteSet(Spots)
  <2>1. IsFiniteSet(Places)
    <3>1. IsFiniteSet({"cwd", "ofile"}) /\ IsFiniteSet({"ip", "dp"})
          /\ IsFiniteSet({"put1", "put2"})
      <4>1. ASSUME NEW a, NEW b PROVE IsFiniteSet({a, b})
        <5>1. IsFiniteSet({a}) /\ IsFiniteSet({b}) /\ {a, b} = {a} \cup {b}
          BY FS_Singleton
        <5>2. IsFiniteSet({a} \cup {b})
          BY <5>1, FS_Union, Zenon
        <5> QED
          BY <5>1, <5>2, Zenon
      <4> QED
        BY <4>1, Zenon
    <3>2. IsFiniteSet(({"cwd", "ofile"} \cup {"ip", "dp"}) \cup {"put1", "put2"})
      BY <3>1, FS_Union
    <3>3. Places = ({"cwd", "ofile"} \cup {"ip", "dp"}) \cup {"put1", "put2"}
      BY DEF Places
    <3> QED
      BY <3>2, <3>3
  <2> QED
    BY <2>1, FsAssumption, FS_Product DEF Spots
<1>2. IsFiniteSet(R) /\ Cardinality(R) \in Nat
  <2>1. R \in SUBSET Spots
    OBVIOUS
  <2>2. IsFiniteSet(R)
    BY <1>1, <2>1, FS_Subset
  <2> QED
    BY <2>2, FS_CardinalityType
<1>3. y \notin R
  OBVIOUS
<1>4. S = IF v[y] = i THEN R \cup {y} ELSE R
  OBVIOUS
<1>5. T = IF w[y] = i THEN R \cup {y} ELSE R
  OBVIOUS
<1>6. Uses(v, i) = Cardinality(S) /\ Uses(w, i) = Cardinality(T)
  BY DEF Uses
<1>7. Cardinality(R \cup {y}) = Cardinality(R) + 1
  BY <1>2, <1>3, FS_AddElement
<1> HIDE DEF R, S, T
<1> QED
  BY <1>2, <1>4, <1>5, <1>6, <1>7 DEF Is

\* How many pointers of one process are i.
RowUses(v, p, i) ==
    Is(v[<<p, "cwd">>], i) + Is(v[<<p, "ofile">>], i) + Is(v[<<p, "ip">>], i)
    + Is(v[<<p, "dp">>], i) + Is(v[<<p, "put1">>], i) + Is(v[<<p, "put2">>], i)

\* If only the pointers of p change, the count changes by those.
LEMMA UsesRow ==
    ASSUME NEW v \in [Spots -> Pointer],
           NEW w \in [Spots -> Pointer], NEW p \in Procs, NEW i,
           \A y \in Spots : y[1] # p => w[y] = v[y]
    PROVE  /\ Uses(v, i) \in Nat /\ Uses(w, i) \in Nat
           /\ Uses(w, i) = Uses(v, i) - RowUses(v, p, i) + RowUses(w, p, i)
<1> DEFINE At1 == <<p, "cwd">>
           At2 == <<p, "ofile">>
           At3 == <<p, "ip">>
           At4 == <<p, "dp">>
           At5 == <<p, "put1">>
           At6 == <<p, "put2">>
           v1 == [v EXCEPT ![At1] = w[At1]]
           v2 == [v1 EXCEPT ![At2] = w[At2]]
           v3 == [v2 EXCEPT ![At3] = w[At3]]
           v4 == [v3 EXCEPT ![At4] = w[At4]]
           v5 == [v4 EXCEPT ![At5] = w[At5]]
           v6 == [v5 EXCEPT ![At6] = w[At6]]
<1>1. /\ At1 \in Spots /\ At2 \in Spots
      /\ At3 \in Spots /\ At4 \in Spots
      /\ At5 \in Spots /\ At6 \in Spots
  BY DEF Places, Spots
<1>2. /\ w[At1] \in Pointer /\ w[At2] \in Pointer /\ w[At3] \in Pointer
      /\ w[At4] \in Pointer /\ w[At5] \in Pointer /\ w[At6] \in Pointer
  BY <1>1
<1>3. /\ At1 # At2 /\ At1 # At3 /\ At1 # At4 /\ At1 # At5 /\ At1 # At6
      /\ At2 # At3 /\ At2 # At4 /\ At2 # At5 /\ At2 # At6
      /\ At3 # At4 /\ At3 # At5 /\ At3 # At6
      /\ At4 # At5 /\ At4 # At6 /\ At5 # At6
  OBVIOUS
<1>4. \A y \in Spots :
        y[1] = p => y \in {At1, At2, At3, At4, At5, At6}
  BY DEF Places, Spots
<1> HIDE DEF At1, At2, At3, At4, At5, At6
<1>5. w = v6
  BY <1>1, <1>3, <1>4
<1>6. v1 \in [Spots -> Pointer] /\ v2 \in [Spots -> Pointer]
      /\ v3 \in [Spots -> Pointer] /\ v4 \in [Spots -> Pointer]
      /\ v5 \in [Spots -> Pointer]
      /\ v6 \in [Spots -> Pointer]
  BY <1>1, <1>2
<1>7. v1[At2] = v[At2] /\ v2[At3] = v[At3] /\ v3[At4] = v[At4]
      /\ v4[At5] = v[At5] /\ v5[At6] = v[At6]
  BY <1>1, <1>3
<1>18. v1[At1] = w[At1] /\ v2[At2] = w[At2] /\ v3[At3] = w[At3]
      /\ v4[At4] = w[At4] /\ v5[At5] = w[At5] /\ v6[At6] = w[At6]
  BY <1>1, <1>3
<1>19. /\ \A x \in Spots \ {At1} : v1[x] = v[x]
       /\ \A x \in Spots \ {At2} : v2[x] = v1[x]
       /\ \A x \in Spots \ {At3} : v3[x] = v2[x]
       /\ \A x \in Spots \ {At4} : v4[x] = v3[x]
       /\ \A x \in Spots \ {At5} : v5[x] = v4[x]
       /\ \A x \in Spots \ {At6} : v6[x] = v5[x]
  BY <1>1
<1> HIDE DEF v1, v2, v3, v4, v5, v6
<1>8. /\ Uses(v, i) \in Nat
      /\ Uses(v1, i) = Uses(v, i) - Is(v[At1], i) + Is(v1[At1], i)
  BY <1>1, <1>6, <1>19, UsesUpdate
<1>9. Uses(v2, i) = Uses(v1, i) - Is(v1[At2], i) + Is(v2[At2], i)
  BY <1>1, <1>6, <1>19, UsesUpdate
<1>10. Uses(v3, i) = Uses(v2, i) - Is(v2[At3], i) + Is(v3[At3], i)
  BY <1>1, <1>6, <1>19, UsesUpdate
<1>11. Uses(v4, i) = Uses(v3, i) - Is(v3[At4], i) + Is(v4[At4], i)
  BY <1>1, <1>6, <1>19, UsesUpdate
<1>12. Uses(v5, i) = Uses(v4, i) - Is(v4[At5], i) + Is(v5[At5], i)
  BY <1>1, <1>6, <1>19, UsesUpdate
<1>13. Uses(v6, i) = Uses(v5, i) - Is(v5[At6], i) + Is(v6[At6], i)
  BY <1>1, <1>6, <1>19, UsesUpdate
<1>14. Uses(w, i) \in Nat
  BY <1>1, UsesUpdate
<1>15. \A x : Is(x, i) \in 0 .. 1
  BY DEF Is
<1>16. RowUses(v, p, i) = Is(v[At1], i) + Is(v[At2], i) + Is(v[At3], i)
            + Is(v[At4], i) + Is(v[At5], i) + Is(v[At6], i)
       /\ RowUses(w, p, i) = Is(w[At1], i) + Is(w[At2], i) + Is(w[At3], i)
            + Is(w[At4], i) + Is(w[At5], i) + Is(w[At6], i)
  BY DEF RowUses, At1, At2, At3, At4, At5, At6
<1>17. Uses(w, i) = Uses(v6, i)
  BY <1>5
<1> HIDE DEF Is, Uses
<1> QED
  BY <1>8, <1>9, <1>10, <1>11, <1>12, <1>13, <1>14, <1>15, <1>16, <1>17, <1>7, <1>18

\* The pointers of one process, given its variables.
GivenUp(l, t, s) == l = "chdir_set" \/ (t = "chdir_set" /\ s # <<>>)
CwdOf(l, t, s, c) == IF GivenUp(l, t, s) THEN Null ELSE c
Has(l, t, s, c, f, i, d, j) ==
    Is(CwdOf(l, t, s, c), j) + Is(f, j) + Is(i, j) + Is(d, j)
    + Is(Nth(s, 1), j) + Is(Nth(s, 2), j)

\* The first two inodes to put are pointers.
LEMMA NthType ==
    ASSUME NEW s \in Seq(Inums), NEW n \in {1, 2}
    PROVE  Nth(s, n) \in Pointer
BY DEF Nth, Pointer

\* The table of pointers has its type and the rows described by Has.
TableOK ==
    /\ Table \in [Spots -> Pointer]
    /\ \A p \in Procs : \A j :
        RowUses(Table, p, j) =
            Has(pc[p], then[p], put[p], cwd[p], ofile[p].ip, ip[p], dp[p], j)

\* Both hold of variables of the right types.
LEMMA TableIs == Shape => TableOK
<1> SUFFICES ASSUME Shape PROVE TableOK
  OBVIOUS
<1>1. ASSUME NEW p \in Procs
      PROVE  /\ Points(p, "cwd") = CwdOf(pc[p], then[p], put[p], cwd[p])
             /\ Points(p, "ofile") = ofile[p].ip
             /\ Points(p, "ip") = ip[p] /\ Points(p, "dp") = dp[p]
             /\ Points(p, "put1") = Nth(put[p], 1)
             /\ Points(p, "put2") = Nth(put[p], 2)
  BY DEF Points, CwdOf, GivenUp, CwdGivenUp
<1>2. ASSUME NEW p \in Procs, NEW k \in Places
      PROVE  Points(p, k) \in Pointer
  <2>1. put[p] \in Seq(Inums) /\ Nth(put[p], 1) \in Pointer /\ Nth(put[p], 2) \in Pointer
    BY NthType DEF Shape
  <2>2. /\ CwdOf(pc[p], then[p], put[p], cwd[p]) \in Pointer
        /\ ofile[p].ip \in Pointer /\ ip[p] \in Pointer /\ dp[p] \in Pointer
    BY DEF Shape, CwdOf, Pointer
  <2> QED
    BY <1>1, <2>1, <2>2 DEF Places
<1>3. ASSUME NEW y \in Spots PROVE Table[y] \in Pointer
  BY <1>2 DEF Table, Spots
<1>4. ASSUME NEW p \in Procs, NEW k \in Places
      PROVE  Table[<<p, k>>] = Points(p, k)
  BY DEF Table, Spots
<1>5. Table \in [Spots -> Pointer]
  BY <1>3 DEF Table
<1>6. ASSUME NEW p \in Procs, NEW j
      PROVE  RowUses(Table, p, j) =
                Has(pc[p], then[p], put[p], cwd[p], ofile[p].ip, ip[p], dp[p], j)
  <2>1. /\ Table[<<p, "cwd">>] = CwdOf(pc[p], then[p], put[p], cwd[p])
        /\ Table[<<p, "ofile">>] = ofile[p].ip
        /\ Table[<<p, "ip">>] = ip[p] /\ Table[<<p, "dp">>] = dp[p]
        /\ Table[<<p, "put1">>] = Nth(put[p], 1)
        /\ Table[<<p, "put2">>] = Nth(put[p], 2)
    BY <1>1, <1>4 DEF Places
  <2> QED
    BY <2>1 DEF RowUses, Has
<1> QED
  BY <1>5, <1>6 DEF TableOK

\* RefCount in terms of the table.
RefTable == \A i \in Inums : ref[i] = Uses(Table, i)

\* The two ways to count agree.
LEMMA RefIs == RefCount <=> RefTable
<1>1. ASSUME NEW i
      PROVE  {y \in Spots : Table[y] = i} = {y \in Spots : Points(y[1], y[2]) = i}
  BY DEF Table
<1> QED
  BY <1>1 DEF RefCount, RefTable, Uses, Spots

\* A step that changes the pointers of one process, and ref by as much.
LEMMA RefRow ==
    ASSUME Shape, Shape', RefCount, NEW p \in Procs,
           \A q \in Procs \ {p} :
              /\ pc'[q] = pc[q] /\ then'[q] = then[q] /\ put'[q] = put[q]
              /\ ip'[q] = ip[q] /\ dp'[q] = dp[q]
              /\ cwd'[q] = cwd[q] /\ ofile'[q] = ofile[q],
           \A j \in Inums :
              ref'[j] = ref[j]
                - Has(pc[p], then[p], put[p], cwd[p], ofile[p].ip, ip[p], dp[p], j)
                + Has(pc'[p], then'[p], put'[p], cwd'[p], ofile'[p].ip, ip'[p],
                      dp'[p], j)
    PROVE  RefCount'
<1> DEFINE v == Table
           w == Table'
<1>1. /\ v \in [Spots -> Pointer]
      /\ \A j : RowUses(v, p, j) =
            Has(pc[p], then[p], put[p], cwd[p], ofile[p].ip, ip[p], dp[p], j)
  BY TableIs DEF TableOK
<1>2. (Shape => TableOK)'
  BY TableIs, PTL
<1>3. /\ w \in [Spots -> Pointer]
      /\ \A j : RowUses(w, p, j) =
            Has(pc'[p], then'[p], put'[p], cwd'[p], ofile'[p].ip, ip'[p], dp'[p], j)
  BY <1>2 DEF TableOK, Spots, RowUses, Has, CwdOf, GivenUp, Nth, Is
<1>4. \A y \in Spots : y[1] # p => w[y] = v[y]
  <2> SUFFICES ASSUME NEW y \in Spots, y[1] # p
               PROVE  w[y] = v[y]
    OBVIOUS
  <2>1. PICK q \in Procs, k \in Places : y = <<q, k>>
    BY DEF Spots
  <2>2. q # p /\ y[1] = q /\ y[2] = k
    BY <2>1
  <2>3. w[y] = Points(q, k)' /\ v[y] = Points(q, k)
    BY <2>2 DEF Table
  <2>4. Points(q, k)' = Points(q, k)
    BY <2>2 DEF Points, CwdGivenUp, Nth
  <2> QED
    BY <2>3, <2>4
<1>5. \A j \in Inums : ref[j] = Uses(v, j)
  BY RefIs DEF RefTable
<1>6. (RefCount <=> RefTable)'
  BY RefIs, PTL
<1>7. RefCount' <=> \A j \in Inums : ref'[j] = Uses(w, j)
  BY <1>6 DEF RefTable, Uses, Spots, Inums
<1> HIDE DEF v, w
<1>8. ASSUME NEW j \in Inums PROVE ref'[j] = Uses(w, j)
  <2>1. Uses(w, j) = Uses(v, j) - RowUses(v, p, j) + RowUses(w, p, j)
    BY <1>1, <1>3, <1>4, UsesRow
  <2> QED
    BY <1>1, <1>3, <1>5, <2>1
<1> QED
  BY <1>7, <1>8

-----------------------------------------------------------------------------
(* Types of the operations on images and on the inode cache *)

Inode == [type : Types, nlink : Int, ents : [Entries -> Pointer],
          addrs : SUBSET DBlocks]
CacheEntry == [valid : BOOLEAN, type : Types, nlink : Int]
Cache == [Inums -> CacheEntry]

\* Inode numbers are positive, so none of them is the null pointer.
LEMMA InumFacts ==
    /\ ROOTINO \in Inums /\ Null \notin Inums /\ Inums \subseteq Nat
    /\ Null \in Pointer /\ \A i : i \in Pointer /\ i # Null => i \in Inums
    /\ \A i \in Inums : i \in Pointer /\ i # Null
BY FsAssumption DEF ROOTINO, Inums, Null, Pointer

\* A free inode that ialloc() picks is an inode.
LEMMA MinIn ==
    ASSUME NEW S \in SUBSET Nat, S # {}
    PROVE  Min(S) \in S /\ \A y \in S : Min(S) <= y
<1>1. \E x \in S : \A y \in S : x <= y
  BY LeastNatural
<1> QED
  BY <1>1 DEF Min

\* Writing one inode of an image.
LEMMA PutInode ==
    ASSUME NEW d \in Image, NEW i \in Inums, NEW n \in Inode, NEW b \in SUBSET DBlocks
    PROVE  /\ d.inode[i] \in Inode
           /\ [d EXCEPT !.inode[i] = n] \in Image
           /\ [d EXCEPT !.bitmap = b] \in Image
BY DEF Image, Inode

\* The operations on images, as the image they write.
LEMMA ImageOps ==
    ASSUME NEW d \in Image, NEW i \in Inums
    PROVE  /\ \A c \in CacheEntry : iupdate(d, i, c) \in Image
           /\ \A e \in Entries, j \in Pointer : SetEntry(d, i, e, j) \in Image
           /\ itrunc(d, i) \in Image
           /\ d.bitmap # DBlocks => balloc(d, i) \in Image
<1>1. /\ d.inode[i] \in Inode /\ d.inode \in [Inums -> Inode] /\ d.bitmap \in SUBSET DBlocks
      /\ d = [inode |-> d.inode, bitmap |-> d.bitmap]
  BY DEF Image, Inode
<1>2. ASSUME NEW n \in Inode, NEW b \in SUBSET DBlocks
      PROVE  [inode |-> [d.inode EXCEPT ![i] = n], bitmap |-> b] \in Image
  BY <1>1 DEF Image, Inode
<1>3. ASSUME NEW c \in CacheEntry PROVE iupdate(d, i, c) \in Image
  <2>1. [d.inode[i] EXCEPT !.type = c.type, !.nlink = c.nlink] \in Inode
    BY <1>1 DEF Inode, CacheEntry
  <2>2. iupdate(d, i, c) =
          [inode |-> [d.inode EXCEPT ![i] =
                [d.inode[i] EXCEPT !.type = c.type, !.nlink = c.nlink]],
           bitmap |-> d.bitmap]
    BY <1>1 DEF iupdate
  <2> QED
    BY <1>1, <1>2, <2>1, <2>2
<1>4. ASSUME NEW e \in Entries, NEW j \in Pointer PROVE SetEntry(d, i, e, j) \in Image
  <2>1. [d.inode[i] EXCEPT !.ents[e] = j] \in Inode
    BY <1>1 DEF Inode
  <2>2. SetEntry(d, i, e, j) =
          [inode |-> [d.inode EXCEPT ![i] = [d.inode[i] EXCEPT !.ents[e] = j]],
           bitmap |-> d.bitmap]
    BY <1>1 DEF SetEntry
  <2> QED
    BY <1>1, <1>2, <2>1, <2>2
<1>5. itrunc(d, i) \in Image
  <2>1. [d.inode[i] EXCEPT !.addrs = {}, !.ents = NoEntries] \in Inode
    BY <1>1 DEF Inode, NoEntries, Pointer
  <2>2. itrunc(d, i) =
          [inode |-> [d.inode EXCEPT ![i] =
                [d.inode[i] EXCEPT !.addrs = {}, !.ents = NoEntries]],
           bitmap |-> d.bitmap \ d.inode[i].addrs]
    BY <1>1 DEF itrunc
  <2> QED
    BY <1>1, <1>2, <2>1, <2>2
<1>6. ASSUME d.bitmap # DBlocks PROVE balloc(d, i) \in Image
  <2> DEFINE b == Min(DBlocks \ d.bitmap)
  <2>1. b \in DBlocks
    <3>1. DBlocks \ d.bitmap \in SUBSET Nat /\ DBlocks \ d.bitmap # {}
      BY <1>1, <1>6, FsAssumption
    <3> QED
      BY <3>1, MinIn
  <2> HIDE DEF b
  <2>2. [d.inode[i] EXCEPT !.addrs = d.inode[i].addrs \cup {b}] \in Inode
    BY <1>1, <2>1 DEF Inode
  <2>3. balloc(d, i) =
          [inode |-> [d.inode EXCEPT ![i] =
                [d.inode[i] EXCEPT !.addrs = d.inode[i].addrs \cup {b}]],
           bitmap |-> d.bitmap \cup {b}]
    BY <1>1 DEF balloc, b
  <2> QED
    BY <1>1, <1>2, <2>1, <2>2, <2>3
<1> QED
  BY <1>3, <1>4, <1>5, <1>6

\* ilock() and iget() leave a cache.
LEMMA CacheOps ==
    ASSUME Shape, NEW i \in Inums
    PROVE  /\ Copy(i) \in CacheEntry /\ ic[i] \in CacheEntry /\ NoCopy \in CacheEntry
           /\ Locked(i) \in Cache /\ ic \in Cache
           /\ \A c \in Cache, j \in Inums : Recycled(c, j) \in Cache
<1>1. ic \in Cache /\ ic[i] \in CacheEntry
  BY DEF Shape, Cache, CacheEntry
<1>2. disk.inode[i] \in Inode
  BY PutInode DEF Shape, Image, Inode
<1>3. Copy(i) \in CacheEntry
  BY <1>1, <1>2 DEF Copy, CacheEntry, Inode
<1>4. NoCopy \in CacheEntry
  BY DEF NoCopy, CacheEntry, Types
<1>5. ASSUME NEW c \in Cache, NEW j \in Inums PROVE Recycled(c, j) \in Cache
  <2>1. [c[j] EXCEPT !.valid = FALSE] \in CacheEntry
    BY DEF Cache, CacheEntry
  <2>2. [c EXCEPT ![j].valid = FALSE] = [c EXCEPT ![j] = [c[j] EXCEPT !.valid = FALSE]]
    BY DEF Cache
  <2> QED
    BY <2>1, <2>2 DEF Recycled, Cache
<1> QED
  BY <1>1, <1>3, <1>4, <1>5 DEF Locked, Cache

-----------------------------------------------------------------------------
(* Steps of one process *)

OpenFile == [ip : Pointer, writable : BOOLEAN]

\* The variables of p after a step.
Move(p, l, t, s, i, d, c, td, f, cw) ==
    /\ pc' = [pc EXCEPT ![p] = l] /\ then' = [then EXCEPT ![p] = t]
    /\ put' = [put EXCEPT ![p] = s]
    /\ ip' = [ip EXCEPT ![p] = i] /\ dp' = [dp EXCEPT ![p] = d]
    /\ call' = [call EXCEPT ![p] = c] /\ todo' = [todo EXCEPT ![p] = td]
    /\ ofile' = [ofile EXCEPT ![p] = f] /\ cwd' = [cwd EXCEPT ![p] = cw]

\* What a step does to the disk and the inode cache, as far as types go.
World ==
    disk' \in Image /\ durable' \in Image /\ ic' \in Cache /\ ref' \in [Inums -> Int]

\* Values the variables of a process can have.
Values(l, t, s, i, d, c, td, f, cw) ==
    /\ l \in Locations /\ t \in Locations /\ s \in Seq(Inums)
    /\ i \in Pointer /\ d \in Pointer /\ c \in Calls \cup {NoCall}
    /\ td \in Seq(Entries) /\ f \in OpenFile /\ cw \in Inums

\* ref changes by as much as the pointers of p do.
Counted(p, l, t, s, i, d, f, cw) ==
    \A j \in Inums :
        ref'[j] = ref[j]
            - Has(pc[p], then[p], put[p], cwd[p], ofile[p].ip, ip[p], dp[p], j)
            + Has(l, t, s, cw, f.ip, i, d, j)

\* A step of p keeps the invariant if the variables of p fit together after it
\* and ref changes by as much as the pointers of p.
LEMMA MoveStep ==
    ASSUME NEW p \in Procs, NEW l, NEW t, NEW s, NEW i, NEW d, NEW c, NEW td,
           NEW f, NEW cw, IInv, World,
           Values(l, t, s, i, d, c, td, f, cw),
           Move(p, l, t, s, i, d, c, td, f, cw),
           Row(l, t, s, i, d, c, td, f),
           Counted(p, l, t, s, i, d, f, cw)
    PROVE  IInv'
<1>1. Shape /\ RowInv /\ RefCount
  BY DEF IInv
<1>2. /\ pc' \in [Procs -> Locations] /\ then' \in [Procs -> Locations]
      /\ put' \in [Procs -> Seq(Inums)] /\ ip' \in [Procs -> Pointer]
      /\ dp' \in [Procs -> Pointer] /\ call' \in [Procs -> Calls \cup {NoCall}]
      /\ todo' \in [Procs -> Seq(Entries)] /\ ofile' \in [Procs -> OpenFile]
      /\ cwd' \in [Procs -> Inums]
  BY <1>1 DEF Shape, Move, OpenFile, Values
<1>3. Shape'
  BY <1>2 DEF Shape, World, Cache, CacheEntry, OpenFile, Image, Pointer, Inums,
              Entries, Locations, NoCall, Types
<1>4. /\ pc'[p] = l /\ then'[p] = t /\ put'[p] = s /\ ip'[p] = i /\ dp'[p] = d
      /\ call'[p] = c /\ todo'[p] = td /\ ofile'[p] = f /\ cwd'[p] = cw
  BY <1>1 DEF Shape, Move
<1>5. \A q \in Procs \ {p} :
        /\ pc'[q] = pc[q] /\ then'[q] = then[q] /\ put'[q] = put[q]
        /\ ip'[q] = ip[q] /\ dp'[q] = dp[q] /\ call'[q] = call[q]
        /\ todo'[q] = todo[q] /\ ofile'[q] = ofile[q] /\ cwd'[q] = cwd[q]
  BY <1>1 DEF Shape, Move
<1>6. RowInv'
  <2>1. ASSUME NEW q \in Procs
        PROVE  Row(pc'[q], then'[q], put'[q], ip'[q], dp'[q], call'[q], todo'[q],
                   ofile'[q])
    <3>1. CASE q = p
      BY <3>1, <1>4
    <3>2. CASE q # p
      BY <3>2, <1>1, <1>5 DEF RowInv
    <3> QED
      BY <3>1, <3>2
  <2>2. RowInv' <=> \A q \in Procs :
            Row(pc'[q], then'[q], put'[q], ip'[q], dp'[q], call'[q], todo'[q],
                ofile'[q])
    BY DEF RowInv, Row, Loc, Putting, IpAt, OpAt, HasIp, HasDp, Named, Null
  <2> QED
    BY <2>1, <2>2
<1>7. RefCount'
  <2>1. \A j \in Inums :
          ref'[j] = ref[j]
            - Has(pc[p], then[p], put[p], cwd[p], ofile[p].ip, ip[p], dp[p], j)
            + Has(pc'[p], then'[p], put'[p], cwd'[p], ofile'[p].ip, ip'[p],
                  dp'[p], j)
    BY <1>4 DEF Counted
  <2> QED
    BY <1>1, <1>3, <1>5, <2>1, RefRow
<1> QED
  BY <1>3, <1>6, <1>7 DEF IInv

\* The values that Has adds up.
LEMMA HasParts ==
    ASSUME NEW j \in Inums
    PROVE  /\ Is(Null, j) = 0 /\ \A x : Is(x, j) \in Int
           /\ Nth(<<>>, 1) = Null /\ Nth(<<>>, 2) = Null
           /\ \A x \in Inums : Nth(<<x>>, 1) = x /\ Nth(<<x>>, 2) = Null /\ <<x>> # <<>>
           /\ \A x, y \in Inums :
                Nth(<<x, y>>, 1) = x /\ Nth(<<x, y>>, 2) = y /\ <<x, y>> # <<>>
<1>1. Is(Null, j) = 0
  BY InumFacts DEF Is
<1>2. \A x : Is(x, j) \in Int
  BY DEF Is
<1>3. Nth(<<>>, 1) = Null /\ Nth(<<>>, 2) = Null
  BY DEF Nth
<1>4. \A x \in Inums : Nth(<<x>>, 1) = x /\ Nth(<<x>>, 2) = Null /\ <<x>> # <<>>
  BY DEF Nth
<1>5. \A x, y \in Inums : Nth(<<x, y>>, 1) = x /\ Nth(<<x, y>>, 2) = y /\ <<x, y>> # <<>>
  BY DEF Nth
<1> QED
  BY <1>1, <1>2, <1>3, <1>4, <1>5

\* What a process has that is not putting inodes.
LEMMA HasRun ==
    ASSUME NEW j \in Inums, NEW l, NEW c, NEW f, NEW i, NEW d, l # "chdir_set"
    PROVE  Has(l, "idle", <<>>, c, f, i, d, j)
                = Is(c, j) + Is(f, j) + Is(i, j) + Is(d, j)
<1>1. CwdOf(l, "idle", <<>>, c) = c
  BY DEF CwdOf, GivenUp
<1> QED
  BY <1>1, HasParts DEF Has

\* What it has when it is putting one inode.
LEMMA HasPut ==
    ASSUME NEW j \in Inums, NEW t, NEW c, NEW f, NEW i, NEW d, t # "chdir_set",
           NEW x \in Inums
    PROVE  Has("iput", t, <<x>>, c, f, i, d, j)
                = Is(c, j) + Is(f, j) + Is(i, j) + Is(d, j) + Is(x, j)
<1>1. CwdOf("iput", t, <<x>>, c) = c
  BY DEF CwdOf, GivenUp
<1> QED
  BY <1>1, HasParts DEF Has

\* A process that is not putting inodes.
LEMMA Here ==
    ASSUME IInv, NEW p \in Procs, pc[p] \notin Putting
    PROVE  /\ Shape /\ put[p] = <<>> /\ then[p] = "idle"
           /\ ip[p] \in Pointer /\ dp[p] \in Pointer /\ pc[p] \in Locations
           /\ call[p] \in Calls \cup {NoCall} /\ todo[p] \in Seq(Entries)
           /\ ofile[p] \in OpenFile /\ cwd[p] \in Inums
           /\ (ip[p] # Null <=> IpAt(pc[p], call[p].op))
           /\ (dp[p] # Null <=> pc[p] \in HasDp)
           /\ OpAt(pc[p], call[p].op)
           /\ (pc[p] \notin {"idle", "end"} => call[p] \in Calls)
           /\ (pc[p] \in Named => todo[p] # <<>>)
           /\ (ofile[p].writable => ofile[p].ip # Null)
           /\ (pc[p] = "write_ip" => ofile[p].writable)
<1>1. Shape /\ Row(pc[p], then[p], put[p], ip[p], dp[p], call[p], todo[p], ofile[p])
  BY DEF IInv, RowInv
<1>2. /\ ip[p] \in Pointer /\ dp[p] \in Pointer /\ pc[p] \in Locations
      /\ call[p] \in Calls \cup {NoCall} /\ todo[p] \in Seq(Entries)
      /\ ofile[p] \in OpenFile /\ cwd[p] \in Inums
  BY <1>1 DEF Shape, OpenFile
<1> QED
  BY <1>1, <1>2 DEF Row, Loc

\* A process in a call that is neither putting inodes nor between its two
\* directories.
InCall(p) == p \in Procs /\ pc[p] \notin Putting \cup {"chdir_set", "idle", "end"}

\* A call that is at l fits its locals.
Fits(p, l, i, d, td) ==
    /\ l \in Locations /\ l \notin Putting \cup {"chdir_set"}
    /\ i \in Pointer /\ d \in Pointer /\ td \in Seq(Entries)
    /\ i # Null <=> IpAt(l, call[p].op)
    /\ d # Null <=> l \in HasDp
    /\ OpAt(l, call[p].op)
    /\ l \in Named => td # <<>>
    /\ l = "write_ip" => pc[p] = "write_ip"

\* ref changes by the locals, and by one inode to put.
Balance(p, i, d, x) ==
    \A j \in Inums :
        ref'[j] = ref[j] - Is(ip[p], j) - Is(dp[p], j)
                  + Is(i, j) + Is(d, j) + Is(x, j)

\* The locals after the step; a call keeps its argument, file and directory.
NewLocals(p, i, d, td) ==
    /\ ip' = [ip EXCEPT ![p] = i] /\ dp' = [dp EXCEPT ![p] = d]
    /\ todo' = [todo EXCEPT ![p] = td] /\ UNCHANGED <<call, ofile, cwd>>

\* The step goes on to iput() one inode.
LEMMA PutStep ==
    ASSUME NEW p, NEW t, NEW x \in Inums, NEW i, NEW d, NEW td, IInv, World, InCall(p),
           PutThen(p, <<x>>, t), NewLocals(p, i, d, td), Fits(p, t, i, d, td),
           Balance(p, i, d, x)
    PROVE  IInv'
<1> USE DEF InCall, Fits, NewLocals, PutThen, Balance
<1>1. /\ Shape /\ put[p] = <<>> /\ then[p] = "idle" /\ call[p] \in Calls
      /\ ofile[p] \in OpenFile /\ cwd[p] \in Inums
      /\ (ofile[p].writable => ofile[p].ip # Null)
      /\ (pc[p] = "write_ip" => ofile[p].writable)
  BY Here
<1>2. <<x>> \in Seq(Inums) /\ <<x>> # <<>> /\ Len(<<x>>) = 1 /\ "iput" \in Locations
  BY DEF Locations
<1>3. Move(p, "iput", t, <<x>>, i, d, call[p], td, ofile[p], cwd[p])
  BY <1>1 DEF Move, Shape
<1>4. Row("iput", t, <<x>>, i, d, call[p], td, ofile[p])
  BY <1>1, <1>2 DEF Row, Loc, Putting
<1>6. pc[p] # "chdir_set" /\ t # "chdir_set"
  OBVIOUS
<1>5. ASSUME NEW j \in Inums
      PROVE  ref'[j] = ref[j]
                - Has(pc[p], then[p], put[p], cwd[p], ofile[p].ip, ip[p], dp[p], j)
                + Has("iput", t, <<x>>, cwd[p], ofile[p].ip, i, d, j)
  <2>1. Has(pc[p], then[p], put[p], cwd[p], ofile[p].ip, ip[p], dp[p], j)
          = Is(cwd[p], j) + Is(ofile[p].ip, j) + Is(ip[p], j) + Is(dp[p], j)
    BY <1>1, <1>6, HasRun
  <2>2. Has("iput", t, <<x>>, cwd[p], ofile[p].ip, i, d, j)
          = Is(cwd[p], j) + Is(ofile[p].ip, j) + Is(i, j) + Is(d, j) + Is(x, j)
    BY <1>6, HasPut
  <2>3. ref[j] \in Int /\ (\A y : Is(y, j) \in Int) /\ Is(Null, j) = 0
    BY <1>1, HasParts DEF Shape
  <2>4. ref'[j] = ref[j] - Is(ip[p], j) - Is(dp[p], j)
                  + Is(i, j) + Is(d, j) + Is(x, j)
    OBVIOUS
  <2> HIDE DEF InCall, Fits, NewLocals, PutThen, Balance
  <2> QED
    BY <2>1, <2>2, <2>3, <2>4
<1>7. Values("iput", t, <<x>>, i, d, call[p], td, ofile[p], cwd[p])
  BY <1>1, <1>2 DEF Values
<1>8. Counted(p, "iput", t, <<x>>, i, d, ofile[p], cwd[p])
  BY <1>5 DEF Counted
<1> QED
  BY <1>3, <1>4, <1>7, <1>8, MoveStep, Zenon

\* The step goes on without putting anything.
LEMMA GoStep ==
    ASSUME NEW p, NEW l, NEW i, NEW d, NEW td, IInv, World, InCall(p),
           Goto(p, l), NewLocals(p, i, d, td), Fits(p, l, i, d, td),
           Balance(p, i, d, Null)
    PROVE  IInv'
<1> USE DEF InCall, Fits, NewLocals, Goto, Balance
<1>1. /\ Shape /\ put[p] = <<>> /\ then[p] = "idle" /\ call[p] \in Calls
      /\ ofile[p] \in OpenFile /\ cwd[p] \in Inums
      /\ (ofile[p].writable => ofile[p].ip # Null)
      /\ (pc[p] = "write_ip" => ofile[p].writable)
  BY Here
<1>2. <<>> \in Seq(Inums) /\ Len(<<>>) = 0 /\ "idle" \in Locations
  BY DEF Locations
<1>3. Move(p, l, "idle", <<>>, i, d, call[p], td, ofile[p], cwd[p])
  BY <1>1 DEF Move, Shape
<1>4. Row(l, "idle", <<>>, i, d, call[p], td, ofile[p])
  BY <1>1, <1>2 DEF Row, Loc, Putting
<1>6. pc[p] # "chdir_set" /\ l # "chdir_set"
  OBVIOUS
<1>5. ASSUME NEW j \in Inums
      PROVE  ref'[j] = ref[j]
                - Has(pc[p], then[p], put[p], cwd[p], ofile[p].ip, ip[p], dp[p], j)
                + Has(l, "idle", <<>>, cwd[p], ofile[p].ip, i, d, j)
  <2>1. Has(pc[p], then[p], put[p], cwd[p], ofile[p].ip, ip[p], dp[p], j)
          = Is(cwd[p], j) + Is(ofile[p].ip, j) + Is(ip[p], j) + Is(dp[p], j)
    BY <1>1, <1>6, HasRun
  <2>2. Has(l, "idle", <<>>, cwd[p], ofile[p].ip, i, d, j)
          = Is(cwd[p], j) + Is(ofile[p].ip, j) + Is(i, j) + Is(d, j)
    BY <1>6, HasRun
  <2>3. ref[j] \in Int /\ (\A y : Is(y, j) \in Int) /\ Is(Null, j) = 0
    BY <1>1, HasParts DEF Shape
  <2> QED
    BY <2>1, <2>2, <2>3
<1>7. Values(l, "idle", <<>>, i, d, call[p], td, ofile[p], cwd[p])
  BY <1>1, <1>2 DEF Values
<1>8. Counted(p, l, "idle", <<>>, i, d, ofile[p], cwd[p])
  BY <1>5 DEF Counted
<1> QED
  BY <1>3, <1>4, <1>7, <1>8, MoveStep, Zenon

\* A step that leaves ref alone moves at most one local to what is put.
LEMMA BalanceKeep ==
    ASSUME Shape, NEW p \in Procs, NEW i, NEW d, NEW x, ref' = ref,
           \/ i = Null /\ d = dp[p] /\ x = ip[p]
           \/ i = ip[p] /\ d = Null /\ x = dp[p]
           \/ i = ip[p] /\ d = dp[p] /\ x = Null
    PROVE  Balance(p, i, d, x)
<1> SUFFICES ASSUME NEW j \in Inums
             PROVE  ref'[j] = ref[j] - Is(ip[p], j) - Is(dp[p], j)
                              + Is(i, j) + Is(d, j) + Is(x, j)
  BY DEF Balance
<1>1. Is(Null, j) = 0 /\ (\A y : Is(y, j) \in Int) /\ ref[j] \in Int
  BY HasParts DEF Shape
<1> QED
  BY <1>1

\* A step that gets n keeps it in one local, or puts it.
LEMMA BalanceGet ==
    ASSUME Shape, NEW p \in Procs, NEW n \in Inums, NEW i, NEW d, NEW x, ref' = iget(n),
           \/ i = n /\ d = dp[p] /\ x = ip[p]
           \/ i = ip[p] /\ d = n /\ x = dp[p]
           \/ i = ip[p] /\ d = dp[p] /\ x = n
           \/ i = n /\ d = ip[p] /\ x = dp[p]
    PROVE  /\ Balance(p, i, d, x)
           /\ ref' \in [Inums -> Int]
<1>1. ref \in [Inums -> Int]
  BY DEF Shape
<1>2. ASSUME NEW j \in Inums
      PROVE  ref'[j] = ref[j] - Is(ip[p], j) - Is(dp[p], j)
                              + Is(i, j) + Is(d, j) + Is(x, j)
  <2>1. (\A y : Is(y, j) \in Int) /\ ref[j] \in Int
    BY HasParts DEF Shape
  <2>2. ref'[j] = ref[j] + Is(n, j)
    BY <1>1 DEF iget, Is
  <2> QED
    BY <2>1, <2>2
<1>3. ref' \in [Inums -> Int]
  BY <1>1 DEF iget
<1> QED
  BY <1>2, <1>3 DEF Balance

\* Where the path of a call ends.
LEMMA AfterPath ==
    ASSUME NEW op
    PROVE  /\ op \in {"link", "open", "chdir"} =>
                /\ AfterNamei(op) \in {"link_inc", "open_ip", "chdir_ip"}
                /\ OpAt(AfterNamei(op), op)
           /\ op \in {"link", "unlink", "create"} =>
                /\ AfterParent(op) \in {"link_dir", "unlink_dp", "create_dp"}
                /\ OpAt(AfterParent(op), op)
                /\ op = "link" <=> AfterParent(op) = "link_dir"
           /\ BadParent(op) \in {"link_bad", "end"} /\ OpAt(BadParent(op), op)
           /\ op = "link" <=> BadParent(op) = "link_bad"
<1>1. op \in {"link", "open", "chdir"} =>
                /\ AfterNamei(op) \in {"link_inc", "open_ip", "chdir_ip"}
                /\ OpAt(AfterNamei(op), op)
  BY DEF AfterNamei, OpAt
<1>2. op \in {"link", "unlink", "create"} =>
                /\ AfterParent(op) \in {"link_dir", "unlink_dp", "create_dp"}
                /\ OpAt(AfterParent(op), op)
                /\ op = "link" <=> AfterParent(op) = "link_dir"
  BY DEF AfterParent, OpAt
<1>3. BadParent(op) \in {"link_bad", "end"} /\ OpAt(BadParent(op), op)
      /\ (op = "link" <=> BadParent(op) = "link_bad")
  BY DEF BadParent, OpAt
<1> QED
  BY <1>1, <1>2, <1>3

\* A directory entry is a pointer.
LEMMA LookupType ==
    ASSUME Shape, NEW i \in Inums, NEW e \in Entries
    PROVE  dirlookup(i, e) \in Pointer
BY DEF Shape, Image, dirlookup

\* The next element of a path, and what is left of it.
LEMMA PathType ==
    ASSUME NEW s \in Seq(Entries), s # <<>>
    PROVE  Head(s) \in Entries /\ Tail(s) \in Seq(Entries)
OBVIOUS

\* namei() of one element.
LEMMA NameiStep ==
    ASSUME IInv, NEW p \in Procs, namei(p)
    PROVE  IInv'
<1> DEFINE i == ip[p]
           next == dirlookup(i, Head(todo[p]))
<1>1. InCall(p) /\ pc[p] = "namei"
  BY DEF namei, At, InCall, Putting
<1>2. /\ Shape /\ ip[p] \in Inums /\ dp[p] = Null /\ todo[p] \in Seq(Entries)
      /\ todo[p] # <<>> /\ call[p].op \in {"link", "open", "chdir"}
  BY <1>1, Here, InumFacts DEF Putting, IpAt, HasIp, HasDp, OpAt, Named
<1>3. next \in Pointer /\ Tail(todo[p]) \in Seq(Entries) /\ Head(todo[p]) \in Entries
  BY <1>2, PathType, LookupType
<1>4. UNCHANGED <<disk, durable, call, dp, ofile, cwd>>
  BY DEF namei, log, files
<1>5. CASE Copy(i).type # "T_DIR" \/ next = Null
  <2>1. SetIp(p, Null) /\ PutThen(p, <<i>>, "end") /\ ic' = Locked(i)
        /\ UNCHANGED <<ref, todo>>
    BY <1>5 DEF namei, NamexFailed
  <2>2. World
    BY <1>2, <1>4, <2>1, CacheOps DEF World, Shape
  <2>3. NewLocals(p, Null, dp[p], todo[p])
    BY <1>2, <1>4, <2>1 DEF NewLocals, SetIp, Shape
  <2>4. Fits(p, "end", Null, dp[p], todo[p])
    BY <1>1, <1>2, InumFacts DEF Fits, Putting, IpAt, HasIp, HasDp, OpAt, Named, Locations
  <2>5. Balance(p, Null, dp[p], i)
    BY <1>2, <2>1, BalanceKeep
  <2> QED
    BY <1>1, <1>2, <2>1, <2>2, <2>3, <2>4, <2>5, PutStep, Zenon
<1>6. CASE ~(Copy(i).type # "T_DIR" \/ next = Null)
  <2>1. SetIp(p, next) /\ ref' = iget(next) /\ ic' = Recycled(Locked(i), next)
        /\ todo' = [todo EXCEPT ![p] = Tail(todo[p])]
        /\ PutThen(p, <<i>>, NextElem(p))
    BY <1>6 DEF namei
  <2>2. next \in Inums
    BY <1>3, <1>6, InumFacts
  <2>3. Balance(p, next, dp[p], i) /\ ref' \in [Inums -> Int]
    BY <1>2, <2>1, <2>2, BalanceGet
  <2>4. World
    BY <1>2, <1>4, <2>1, <2>2, <2>3, CacheOps DEF World, Shape
  <2>5. NewLocals(p, next, dp[p], Tail(todo[p]))
    BY <1>2, <1>4, <2>1 DEF NewLocals, SetIp, Shape
  <2>6. NextElem(p) = IF Tail(todo[p]) = <<>> THEN AfterNamei(call[p].op) ELSE "namei"
    BY <1>2, <1>4, <2>1 DEF NextElem, Shape
  <2>7. Fits(p, NextElem(p), next, dp[p], Tail(todo[p]))
    BY <1>1, <1>2, <1>3, <2>2, <2>6, InumFacts, AfterPath
       DEF Fits, Putting, IpAt, HasIp, HasDp, OpAt, Named, Locations
  <2> QED
    BY <1>1, <1>2, <2>1, <2>3, <2>4, <2>5, <2>7, PutStep, Zenon
<1> QED
  BY <1>5, <1>6

\* What a call at nameiparent has.
LEMMA AtParent ==
    ASSUME IInv, NEW p \in Procs, pc[p] \in {"nameiparent", "iunlockput_dp"}
    PROVE  /\ InCall(p) /\ Shape
           /\ dp[p] \in Inums /\ dp[p] \in Pointer /\ ip[p] \in Pointer
           /\ todo[p] \in Seq(Entries) /\ call[p].op \in {"link", "unlink", "create"}
           /\ ip[p] # Null <=> call[p].op = "link"
<1>1. InCall(p)
  BY DEF InCall, Putting
<1> QED
  BY <1>1, Here, InumFacts DEF Putting, IpAt, HasIp, HasDp, OpAt

\* A call gives up its directory, and goes on as after a bad parent.
LEMMA GiveUpParent ==
    ASSUME IInv, NEW p \in Procs, pc[p] \in {"nameiparent", "iunlockput_dp"}, World,
           SetDp(p, Null), PutThen(p, <<dp[p]>>, BadParent(call[p].op)),
           UNCHANGED <<ref, call, ofile, cwd, ip, todo>>
    PROVE  IInv'
<1>1. /\ InCall(p) /\ Shape
      /\ dp[p] \in Inums /\ dp[p] \in Pointer /\ ip[p] \in Pointer
      /\ todo[p] \in Seq(Entries)
      /\ ip[p] # Null <=> call[p].op = "link"
  BY AtParent
<1>2. NewLocals(p, ip[p], Null, todo[p])
  BY <1>1 DEF NewLocals, SetDp, Shape
<1>3. Fits(p, BadParent(call[p].op), ip[p], Null, todo[p])
  BY <1>1, InumFacts, AfterPath
     DEF Fits, Putting, IpAt, HasIp, HasDp, Named, Locations
<1>4. Balance(p, ip[p], Null, dp[p])
  BY <1>1, BalanceKeep
<1> QED
  BY <1>1, <1>2, <1>3, <1>4, PutStep, Zenon

\* A path without a last element, and a failure under the lock of dp.
LEMMA NoParentStep ==
    ASSUME IInv, NEW p \in Procs, NoParent(p) \/ iunlockput_dp(p)
    PROVE  IInv'
<1>1. /\ pc[p] \in {"nameiparent", "iunlockput_dp"}
      /\ SetDp(p, Null) /\ PutThen(p, <<dp[p]>>, BadParent(call[p].op))
      /\ UNCHANGED <<ref, call, ofile, cwd, ip, todo, disk, durable, ic>>
  BY DEF NoParent, iunlockput_dp, At, log, icache, files
<1>2. World
  BY <1>1, CacheOps DEF World, Shape, IInv, Cache, CacheEntry
<1> QED
  BY <1>1, <1>2, GiveUpParent

\* nameiparent() of one element.
LEMMA NameiparentStep ==
    ASSUME IInv, NEW p \in Procs, nameiparent(p)
    PROVE  IInv'
<1> DEFINE i == dp[p]
           next == dirlookup(i, Head(todo[p]))
<1>1. /\ pc[p] = "nameiparent" /\ todo[p] # <<>>
      /\ UNCHANGED <<disk, durable, call, ip, ofile, cwd>>
  BY DEF nameiparent, At, log, files
<1>2. /\ InCall(p) /\ Shape
      /\ dp[p] \in Inums /\ dp[p] \in Pointer /\ ip[p] \in Pointer
      /\ todo[p] \in Seq(Entries) /\ call[p].op \in {"link", "unlink", "create"}
      /\ ip[p] # Null <=> call[p].op = "link"
  BY <1>1, AtParent
<1>3. next \in Pointer /\ Tail(todo[p]) \in Seq(Entries) /\ Head(todo[p]) \in Entries
  BY <1>1, <1>2, PathType, LookupType
<1>4. CASE /\ Goto(p, AfterParent(call[p].op)) /\ ic' = Locked(i)
           /\ UNCHANGED <<dp, ref, todo>>
  <2>1. World
    BY <1>1, <1>2, <1>4, CacheOps DEF World, Shape
  <2>2. NewLocals(p, ip[p], dp[p], todo[p])
    BY <1>1, <1>2, <1>4 DEF NewLocals, Shape
  <2>3. Fits(p, AfterParent(call[p].op), ip[p], dp[p], todo[p])
    BY <1>1, <1>2, InumFacts, AfterPath
       DEF Fits, Putting, IpAt, HasIp, HasDp, Named, Locations
  <2>4. Balance(p, ip[p], dp[p], Null)
    BY <1>2, <1>4, BalanceKeep
  <2> QED
    BY <1>2, <1>4, <2>1, <2>2, <2>3, <2>4, GoStep, Zenon
<1>5. CASE /\ SetDp(p, Null) /\ PutThen(p, <<i>>, BadParent(call[p].op))
           /\ ic' = Locked(i) /\ UNCHANGED <<ref, todo>>
  <2>1. World
    BY <1>1, <1>2, <1>5, CacheOps DEF World, Shape
  <2> QED
    BY <1>1, <1>5, <2>1, GiveUpParent
<1>6. CASE /\ next # Null
           /\ SetDp(p, next) /\ ref' = iget(next) /\ ic' = Recycled(Locked(i), next)
           /\ todo' = [todo EXCEPT ![p] = Tail(todo[p])]
           /\ PutThen(p, <<i>>, "nameiparent")
  <2>1. next \in Inums
    BY <1>3, <1>6, InumFacts
  <2>2. Balance(p, ip[p], next, i) /\ ref' \in [Inums -> Int]
    BY <1>2, <1>6, <2>1, BalanceGet
  <2>3. World
    BY <1>1, <1>2, <1>6, <2>1, <2>2, CacheOps DEF World, Shape
  <2>4. NewLocals(p, ip[p], next, Tail(todo[p]))
    BY <1>1, <1>2, <1>6 DEF NewLocals, SetDp, Shape
  <2>5. Fits(p, "nameiparent", ip[p], next, Tail(todo[p]))
    BY <1>1, <1>2, <1>3, <2>1, InumFacts
       DEF Fits, Putting, IpAt, HasIp, HasDp, OpAt, Named, Locations
  <2> QED
    BY <1>2, <1>6, <2>2, <2>3, <2>4, <2>5, PutStep, Zenon
<1> QED
  BY <1>4, <1>5, <1>6 DEF nameiparent, NamexFailed

\* The inode a path starts at.
LEMMA StartType ==
    ASSUME Shape, NEW p \in Procs
    PROVE  Start(p) \in Inums
BY InumFacts DEF Start, Shape

\* A call gives up its inode and ends.
LEMMA GiveUpIp ==
    ASSUME IInv, NEW p \in Procs, InCall(p), World, ip[p] \in Inums, dp[p] = Null,
           SetIp(p, Null), PutThen(p, <<ip[p]>>, "end"),
           UNCHANGED <<ref, call, ofile, cwd, dp, todo>>
    PROVE  IInv'
<1>1. Shape /\ todo[p] \in Seq(Entries)
  BY DEF IInv, Shape
<1>2. NewLocals(p, Null, dp[p], todo[p])
  BY <1>1 DEF NewLocals, SetIp, Shape
<1>3. Fits(p, "end", Null, dp[p], todo[p])
  BY <1>1, InumFacts DEF Fits, Putting, IpAt, HasIp, HasDp, OpAt, Named, Locations
<1>4. Balance(p, Null, dp[p], ip[p])
  BY <1>1, BalanceKeep
<1> QED
  BY <1>2, <1>3, <1>4, PutStep, Zenon

\* A changed copy of an inode, written to the disk.
LEMMA UpdateType ==
    ASSUME Shape, NEW i \in Inums, NEW c \in CacheEntry
    PROVE  iupdate(disk, i, c) \in Image /\ [ic EXCEPT ![i] = c] \in Cache
BY ImageOps, CacheOps DEF Shape, Cache

\* sys_link() counts the link before it looks for the directory.
LEMMA LinkIncStep ==
    ASSUME IInv, NEW p \in Procs, link_inc(p)
    PROVE  IInv'
<1> DEFINE i == ip[p]
           c == [Copy(i) EXCEPT !.nlink = Copy(i).nlink + 1]
           s == Start(p)
<1>1. /\ pc[p] = "link_inc" /\ UNCHANGED <<durable, ofile, cwd>>
  BY DEF link_inc, At, files
<1>2. InCall(p) /\ pc[p] \notin Putting
  BY <1>1 DEF InCall, Putting
<1>3. /\ Shape /\ i \in Inums /\ i \in Pointer /\ dp[p] = Null /\ todo[p] \in Seq(Entries)
      /\ call[p].op = "link" /\ call[p] \in Calls
  BY <1>1, <1>2, Here, InumFacts DEF IpAt, HasIp, HasDp, OpAt
<1>4. CASE /\ ic' = Locked(i) /\ SetIp(p, Null) /\ PutThen(p, <<i>>, "end")
           /\ UNCHANGED <<disk, ref, call, todo, dp>>
  <2>1. World
    BY <1>1, <1>3, <1>4, CacheOps DEF World, Shape
  <2> QED
    BY <1>1, <1>2, <1>3, <1>4, <2>1, GiveUpIp
<1>5. CASE /\ disk' = iupdate(disk, i, c) /\ UNCHANGED <<call, ip>>
           /\ SetDp(p, s) /\ ref' = iget(s)
           /\ ic' = Recycled([ic EXCEPT ![i] = c], s)
           /\ todo' = [todo EXCEPT ![p] = call[p].new]
           /\ Goto(p, "nameiparent")
  <2>1. s \in Inums /\ call[p].new \in Seq(Entries)
    BY <1>3, StartType, FsAssumption
  <2>2. Balance(p, i, s, dp[p]) /\ ref' \in [Inums -> Int]
    BY <1>3, <1>5, <2>1, BalanceGet
  <2>3. World
    <3>1. c \in CacheEntry
      BY <1>3, CacheOps DEF CacheEntry
    <3> HIDE DEF c
    <3>2. iupdate(disk, i, c) \in Image /\ [ic EXCEPT ![i] = c] \in Cache
      BY <1>3, <3>1, UpdateType
    <3> QED
      BY <1>1, <1>3, <1>5, <2>1, <2>2, <3>2, CacheOps DEF World, Shape
  <2>4. NewLocals(p, i, s, call[p].new)
    BY <1>1, <1>3, <1>5 DEF NewLocals, SetDp, Shape
  <2>5. Fits(p, "nameiparent", i, s, call[p].new)
    BY <1>1, <1>3, <2>1, InumFacts
       DEF Fits, Putting, IpAt, HasIp, HasDp, OpAt, Named, Locations
  <2> HIDE DEF s, c
  <2>6. Balance(p, i, s, Null)
    BY <1>3, <2>2
  <2> QED
    BY <1>2, <1>5, <2>3, <2>4, <2>5, <2>6, GoStep, Zenon
<1> QED
  <2>1. \/ /\ ic' = Locked(i) /\ SetIp(p, Null) /\ PutThen(p, <<i>>, "end")
           /\ UNCHANGED <<disk, ref, call, todo, dp>>
        \/ /\ disk' = iupdate(disk, i, c) /\ UNCHANGED <<call, ip>>
           /\ SetDp(p, s) /\ ref' = iget(s)
           /\ ic' = Recycled([ic EXCEPT ![i] = c], s)
           /\ todo' = [todo EXCEPT ![p] = call[p].new]
           /\ Goto(p, "nameiparent")
    BY DEF link_inc
  <2> HIDE DEF i, c, s
  <2> QED
    BY <1>4, <1>5, <2>1

\* What it has when it is putting two inodes at the end of a call.
LEMMA HasPutTwo ==
    ASSUME NEW j \in Inums, NEW c, NEW f, NEW x \in Inums, NEW y \in Inums
    PROVE  Has("iput", "end", <<x, y>>, c, f, Null, Null, j)
                = Is(c, j) + Is(f, j) + Is(x, j) + Is(y, j)
<1>1. CwdOf("iput", "end", <<x, y>>, c) = c
  BY DEF CwdOf, GivenUp
<1> QED
  BY <1>1, HasParts DEF Has

\* dirlink() in sys_link(): the only place that puts two inodes.
LEMMA LinkDirStep ==
    ASSUME IInv, NEW p \in Procs, link_dir(p)
    PROVE  IInv'
<1> DEFINE i == dp[p]
           old == dirlookup(i, name(p))
<1>1. pc[p] = "link_dir" /\ UNCHANGED <<durable, ofile, cwd, call, todo>>
  BY DEF link_dir, At, files
<1>2. InCall(p) /\ pc[p] \notin Putting
  BY <1>1 DEF InCall, Putting
<1>3. /\ Shape /\ i \in Inums /\ i \in Pointer /\ ip[p] \in Inums /\ ip[p] \in Pointer
      /\ todo[p] \in Seq(Entries) /\ todo[p] # <<>> /\ call[p].op = "link"
      /\ call[p] \in Calls /\ put[p] = <<>> /\ then[p] = "idle"
      /\ ofile[p] \in OpenFile /\ cwd[p] \in Inums
      /\ (ofile[p].writable => ofile[p].ip # Null)
  BY <1>1, <1>2, Here, InumFacts DEF IpAt, HasIp, HasDp, OpAt, Named
<1>4. name(p) \in Entries /\ old \in Pointer
  BY <1>3, PathType, LookupType DEF name
<1>5. CASE /\ old # Null /\ ref' = iget(old) /\ ic' = Recycled(Locked(i), old)
           /\ PutThen(p, <<old>>, "iunlockput_dp") /\ UNCHANGED <<disk, ip, dp>>
  <2>1. old \in Inums
    BY <1>4, <1>5, InumFacts
  <2>2. Balance(p, ip[p], i, old) /\ ref' \in [Inums -> Int]
    BY <1>3, <1>5, <2>1, BalanceGet
  <2>3. World
    BY <1>1, <1>3, <1>5, <2>1, <2>2, CacheOps DEF World, Shape
  <2>4. NewLocals(p, ip[p], i, todo[p])
    BY <1>1, <1>3, <1>5 DEF NewLocals, Shape
  <2>5. Fits(p, "iunlockput_dp", ip[p], i, todo[p])
    BY <1>1, <1>3, InumFacts DEF Fits, Putting, IpAt, HasIp, HasDp, OpAt, Named, Locations
  <2> QED
    BY <1>2, <1>5, <2>1, <2>2, <2>3, <2>4, <2>5, PutStep, Zenon
<1>6. CASE /\ disk' = SetEntry(disk, i, name(p), ip[p]) /\ ic' = Locked(i)
           /\ SetIp(p, Null) /\ SetDp(p, Null)
           /\ PutThen(p, <<i, ip[p]>>, "end") /\ UNCHANGED ref
  <2>1. World
    BY <1>1, <1>3, <1>4, <1>6, CacheOps, ImageOps DEF World, Shape
  <2>2. /\ <<i, ip[p]>> \in Seq(Inums) /\ <<i, ip[p]>> # <<>>
        /\ Len(<<i, ip[p]>>) = 2
    BY <1>3
  <2>3. Move(p, "iput", "end", <<i, ip[p]>>, Null, Null, call[p], todo[p], ofile[p],
             cwd[p])
    BY <1>1, <1>3, <1>6 DEF Move, Shape, PutThen, SetIp, SetDp
  <2>4. Values("iput", "end", <<i, ip[p]>>, Null, Null, call[p], todo[p], ofile[p],
               cwd[p])
    BY <1>3, <2>2, InumFacts DEF Values, Locations
  <2>5. Row("iput", "end", <<i, ip[p]>>, Null, Null, call[p], todo[p], ofile[p])
    BY <1>3, <2>2 DEF Row, Loc, Putting, IpAt, HasIp, HasDp, OpAt, Named
  <2>6. ASSUME NEW j \in Inums
        PROVE  ref'[j] = ref[j]
                - Has(pc[p], then[p], put[p], cwd[p], ofile[p].ip, ip[p], dp[p], j)
                + Has("iput", "end", <<i, ip[p]>>, cwd[p], ofile[p].ip, Null, Null, j)
    <3>1. Has(pc[p], then[p], put[p], cwd[p], ofile[p].ip, ip[p], dp[p], j)
            = Is(cwd[p], j) + Is(ofile[p].ip, j) + Is(ip[p], j) + Is(dp[p], j)
      BY <1>1, <1>3, HasRun
    <3>2. Has("iput", "end", <<i, ip[p]>>, cwd[p], ofile[p].ip, Null, Null, j)
            = Is(cwd[p], j) + Is(ofile[p].ip, j) + Is(i, j) + Is(ip[p], j)
      BY <1>3, HasPutTwo
    <3>3. ref[j] \in Int /\ (\A y : Is(y, j) \in Int) /\ ref'[j] = ref[j]
      BY <1>3, <1>6, HasParts DEF Shape
    <3> QED
      BY <3>1, <3>2, <3>3
  <2>7. Counted(p, "iput", "end", <<i, ip[p]>>, Null, Null, ofile[p], cwd[p])
    BY <2>6 DEF Counted
  <2> QED
    BY <2>1, <2>3, <2>4, <2>5, <2>7, MoveStep, Zenon
<1> QED
  BY <1>5, <1>6 DEF link_dir

\* sys_link() takes the link back.
LEMMA LinkBadStep ==
    ASSUME IInv, NEW p \in Procs, link_bad(p)
    PROVE  IInv'
<1> DEFINE i == ip[p]
           c == [Copy(i) EXCEPT !.nlink = Copy(i).nlink - 1]
<1>1. /\ pc[p] = "link_bad" /\ UNCHANGED <<durable, ref, ofile, cwd, call, todo, dp>>
      /\ ic' = [ic EXCEPT ![i] = c] /\ disk' = iupdate(disk, i, c)
      /\ PutThen(p, <<i>>, "end") /\ SetIp(p, Null)
  BY DEF link_bad, At, files
<1>2. InCall(p) /\ pc[p] \notin Putting
  BY <1>1 DEF InCall, Putting
<1>3. Shape /\ i \in Inums /\ dp[p] = Null
  BY <1>1, <1>2, Here, InumFacts DEF IpAt, HasIp, HasDp
<1>4. c \in CacheEntry
  BY <1>3, CacheOps DEF CacheEntry
<1> HIDE DEF c
<1>5. World
  BY <1>1, <1>3, <1>4, UpdateType DEF World, Shape
<1> QED
  BY <1>1, <1>2, <1>3, <1>5, GiveUpIp

\* sys_unlink() looks the name up.
LEMMA UnlinkDpStep ==
    ASSUME IInv, NEW p \in Procs, unlink_dp(p)
    PROVE  IInv'
<1> DEFINE i == dp[p]
           old == dirlookup(i, name(p))
<1>1. pc[p] = "unlink_dp" /\ UNCHANGED <<disk, durable, ofile, cwd, call, todo>>
  BY DEF unlink_dp, At, files, log
<1>2. InCall(p) /\ pc[p] \notin Putting
  BY <1>1 DEF InCall, Putting
<1>3. /\ Shape /\ i \in Inums /\ i \in Pointer /\ ip[p] = Null
      /\ todo[p] \in Seq(Entries) /\ todo[p] # <<>> /\ call[p].op = "unlink"
  BY <1>1, <1>2, Here, InumFacts DEF IpAt, HasIp, HasDp, OpAt, Named
<1>4. name(p) \in Entries /\ old \in Pointer
  BY <1>3, PathType, LookupType DEF name
<1>5. CASE /\ SetDp(p, Null) /\ PutThen(p, <<i>>, "end") /\ ic' = Locked(i)
           /\ UNCHANGED <<ref, ip>>
  <2>1. World
    BY <1>1, <1>3, <1>5, CacheOps DEF World, Shape
  <2>2. NewLocals(p, ip[p], Null, todo[p])
    BY <1>1, <1>3, <1>5 DEF NewLocals, SetDp, Shape
  <2>3. Fits(p, "end", ip[p], Null, todo[p])
    BY <1>1, <1>3, InumFacts DEF Fits, Putting, IpAt, HasIp, HasDp, OpAt, Named, Locations
  <2>4. Balance(p, ip[p], Null, i)
    BY <1>3, <1>5, BalanceKeep
  <2> QED
    BY <1>2, <1>3, <1>5, <2>1, <2>2, <2>3, <2>4, PutStep, Zenon
<1>6. CASE /\ old # Null /\ SetIp(p, old) /\ ref' = iget(old)
           /\ ic' = Recycled(Locked(i), old) /\ Goto(p, "unlink_ip") /\ UNCHANGED dp
  <2>1. old \in Inums
    BY <1>4, <1>6, InumFacts
  <2>2. Balance(p, old, i, ip[p]) /\ ref' \in [Inums -> Int]
    BY <1>3, <1>6, <2>1, BalanceGet
  <2>3. World
    BY <1>1, <1>3, <1>6, <2>1, <2>2, CacheOps DEF World, Shape
  <2>4. NewLocals(p, old, i, todo[p])
    BY <1>1, <1>3, <1>6 DEF NewLocals, SetIp, Shape
  <2>5. Fits(p, "unlink_ip", old, i, todo[p])
    BY <1>1, <1>3, <2>1, InumFacts
       DEF Fits, Putting, IpAt, HasIp, HasDp, OpAt, Named, Locations
  <2>6. Balance(p, old, i, Null)
    BY <1>3, <2>2
  <2> QED
    BY <1>2, <1>6, <2>3, <2>4, <2>5, <2>6, GoStep, Zenon
<1> QED
  BY <1>5, <1>6 DEF unlink_dp

\* sys_unlink() removes the entry, or finds a directory that is not empty.
LEMMA UnlinkIpStep ==
    ASSUME IInv, NEW p \in Procs, unlink_ip(p)
    PROVE  IInv'
<1> DEFINE i == ip[p]
           d == dp[p]
           isdir == Copy(i).type = "T_DIR"
           cd == [ic[d] EXCEPT !.nlink = IF isdir THEN ic[d].nlink - 1 ELSE ic[d].nlink]
<1>1. pc[p] = "unlink_ip" /\ UNCHANGED <<durable, ref, ofile, cwd, call, todo>>
  BY DEF unlink_ip, At, files
<1>2. InCall(p) /\ pc[p] \notin Putting
  BY <1>1 DEF InCall, Putting
<1>3. /\ Shape /\ i \in Inums /\ i \in Pointer /\ d \in Inums /\ d \in Pointer
      /\ todo[p] \in Seq(Entries) /\ todo[p] # <<>> /\ call[p].op = "unlink"
  BY <1>1, <1>2, Here, InumFacts DEF IpAt, HasIp, HasDp, OpAt, Named
<1>4. name(p) \in Entries
  BY <1>3, PathType DEF name
<1>5. CASE /\ ic' = Locked(i) /\ SetIp(p, Null) /\ PutThen(p, <<i>>, "iunlockput_dp")
           /\ UNCHANGED <<disk, dp>>
  <2>1. World
    BY <1>1, <1>3, <1>5, CacheOps DEF World, Shape
  <2>2. NewLocals(p, Null, d, todo[p])
    BY <1>1, <1>3, <1>5 DEF NewLocals, SetIp, Shape
  <2>3. Fits(p, "iunlockput_dp", Null, d, todo[p])
    BY <1>1, <1>3, InumFacts DEF Fits, Putting, IpAt, HasIp, HasDp, OpAt, Named, Locations
  <2>4. Balance(p, Null, d, i)
    BY <1>1, <1>3, <1>5, BalanceKeep
  <2> QED
    BY <1>2, <1>3, <1>5, <2>1, <2>2, <2>3, <2>4, PutStep, Zenon
<1>6. CASE /\ disk' = iupdate(SetEntry(disk, d, name(p), Null), d, cd)
           /\ ic' = [Locked(i) EXCEPT ![d] = cd]
           /\ SetDp(p, Null) /\ PutThen(p, <<d>>, "unlink_dec") /\ UNCHANGED ip
  <2>1. ic[d] \in CacheEntry
    BY <1>3, CacheOps
  <2>2. cd \in CacheEntry
    BY <2>1 DEF CacheEntry
  <2> HIDE DEF cd
  <2>3. SetEntry(disk, d, name(p), Null) \in Image
    BY <1>3, <1>4, ImageOps, InumFacts DEF Shape
  <2>4. iupdate(SetEntry(disk, d, name(p), Null), d, cd) \in Image
    BY <1>3, <2>2, <2>3, ImageOps
  <2>5. Locked(i) \in Cache
    BY <1>3, CacheOps
  <2>6. World
    BY <1>1, <1>3, <1>6, <2>2, <2>4, <2>5 DEF World, Shape, Cache
  <2>7. NewLocals(p, i, Null, todo[p])
    BY <1>1, <1>3, <1>6 DEF NewLocals, SetDp, Shape
  <2>8. Fits(p, "unlink_dec", i, Null, todo[p])
    BY <1>1, <1>3, InumFacts DEF Fits, Putting, IpAt, HasIp, HasDp, OpAt, Named, Locations
  <2>9. Balance(p, i, Null, d)
    BY <1>1, <1>3, <1>6, BalanceKeep
  <2> QED
    BY <1>2, <1>3, <1>6, <2>6, <2>7, <2>8, <2>9, PutStep, Zenon
<1> QED
  BY <1>5, <1>6 DEF unlink_ip

\* sys_unlink() takes the link from the inode.
LEMMA UnlinkDecStep ==
    ASSUME IInv, NEW p \in Procs, unlink_dec(p)
    PROVE  IInv'
<1> DEFINE i == ip[p]
           c == [ic[i] EXCEPT !.nlink = ic[i].nlink - LinksLost(i)]
<1>1. /\ pc[p] = "unlink_dec" /\ UNCHANGED <<durable, ref, ofile, cwd, call, todo, dp>>
      /\ ic' = [ic EXCEPT ![i] = c] /\ disk' = iupdate(disk, i, c)
      /\ PutThen(p, <<i>>, "end") /\ SetIp(p, Null)
  BY DEF unlink_dec, At, files
<1>2. InCall(p) /\ pc[p] \notin Putting
  BY <1>1 DEF InCall, Putting
<1>3. Shape /\ i \in Inums /\ dp[p] = Null
  BY <1>1, <1>2, Here, InumFacts DEF IpAt, HasIp, HasDp
<1>4. c \in CacheEntry
  BY <1>3, CacheOps DEF CacheEntry, LinksLost
<1> HIDE DEF c
<1>5. World
  BY <1>1, <1>3, <1>4, UpdateType DEF World, Shape
<1> QED
  BY <1>1, <1>2, <1>3, <1>5, GiveUpIp

\* A panic changes nothing the invariant speaks of.
LEMMA StillStep ==
    ASSUME IInv, UNCHANGED <<disk, durable, ref, ic, cwd, ofile, pc, then, call, todo,
                             put, ip, dp>>
    PROVE  IInv'
<1>1. Shape'
  BY DEF IInv, Shape
<1>2. RowInv'
  BY DEF IInv, RowInv
<1>3. RefCount'
  BY DEF IInv, RefCount, Points, CwdGivenUp, Nth
<1> QED
  BY <1>1, <1>2, <1>3 DEF IInv

\* An inode as ialloc() leaves it.
LEMMA IallocType ==
    ASSUME Shape, NEW t \in Types, FreeInums # {}
    PROVE  /\ Min(FreeInums) \in Inums
           /\ [disk EXCEPT !.inode[Min(FreeInums)] = [FreeInode EXCEPT !.type = t]] \in Image
<1>1. FreeInums \in SUBSET Nat /\ FreeInums \subseteq Inums
  BY InumFacts DEF FreeInums
<1>2. Min(FreeInums) \in Inums
  BY <1>1, MinIn
<1>3. [FreeInode EXCEPT !.type = t] \in Inode
  BY InumFacts DEF FreeInode, Inode, NoEntries
<1>4. disk \in Image
  BY DEF Shape
<1> QED
  BY <1>2, <1>3, <1>4, PutInode

\* create() finds the name, or allocates an inode.
LEMMA CreateDpStep ==
    ASSUME IInv, NEW p \in Procs, create_dp(p)
    PROVE  IInv'
<1> DEFINE i == dp[p]
           old == dirlookup(i, name(p))
           new == Min(FreeInums)
<1>1. pc[p] = "create_dp" /\ UNCHANGED <<durable, ofile, cwd, call, todo>>
  BY DEF create_dp, At, files
<1>2. InCall(p) /\ pc[p] \notin Putting
  BY <1>1 DEF InCall, Putting
<1>3. /\ Shape /\ i \in Inums /\ i \in Pointer /\ ip[p] = Null /\ Null \in Pointer
      /\ todo[p] \in Seq(Entries) /\ todo[p] # <<>> /\ call[p].op = "create"
      /\ call[p] \in Calls
  BY <1>1, <1>2, Here, InumFacts DEF IpAt, HasIp, HasDp, OpAt, Named
<1>4. name(p) \in Entries /\ old \in Pointer
  BY <1>3, PathType, LookupType DEF name
<1>5. CASE /\ old # Null /\ ref' = iget(old) /\ ic' = Recycled(Locked(i), old)
           /\ SetIp(p, old) /\ SetDp(p, Null) /\ PutThen(p, <<i>>, "create_old")
           /\ UNCHANGED disk
  <2>1. old \in Inums
    BY <1>4, <1>5, InumFacts
  <2>2. Balance(p, old, ip[p], i) /\ ref' \in [Inums -> Int]
    BY <1>3, <1>5, <2>1, BalanceGet
  <2>3. World
    BY <1>1, <1>3, <1>5, <2>1, <2>2, CacheOps DEF World, Shape
  <2>4. NewLocals(p, old, ip[p], todo[p])
    BY <1>1, <1>3, <1>5 DEF NewLocals, SetIp, SetDp, Shape
  <2>5. Fits(p, "create_old", old, ip[p], todo[p])
    BY <1>1, <1>3, <2>1, InumFacts
       DEF Fits, Putting, IpAt, HasIp, HasDp, OpAt, Named, Locations
  <2> QED
    BY <1>2, <1>3, <1>5, <2>2, <2>3, <2>4, <2>5, PutStep, Zenon
<1>6. CASE /\ FreeInums # {}
           /\ disk' = [disk EXCEPT !.inode[new] = [FreeInode EXCEPT !.type = call[p].type]]
           /\ ref' = iget(new) /\ ic' = Recycled(Locked(i), new)
           /\ SetIp(p, new) /\ Goto(p, "create_new") /\ UNCHANGED dp
  <2>1. call[p].type \in Types
    BY <1>3, FsAssumption
  <2>2. /\ new \in Inums
        /\ [disk EXCEPT !.inode[new] = [FreeInode EXCEPT !.type = call[p].type]] \in Image
    BY <1>3, <1>6, <2>1, IallocType
  <2> HIDE DEF new
  <2>3. Balance(p, new, i, ip[p]) /\ ref' \in [Inums -> Int]
    BY <1>3, <1>6, <2>2, BalanceGet
  <2>4. World
    BY <1>1, <1>3, <1>6, <2>2, <2>3, CacheOps DEF World, Shape
  <2>5. NewLocals(p, new, i, todo[p])
    BY <1>1, <1>3, <1>6 DEF NewLocals, SetIp, Shape
  <2>6. Fits(p, "create_new", new, i, todo[p])
    BY <1>1, <1>3, <2>2, InumFacts
       DEF Fits, Putting, IpAt, HasIp, HasDp, OpAt, Named, Locations
  <2>7. Balance(p, new, i, Null)
    BY <1>3, <2>3
  <2> QED
    BY <1>2, <1>6, <2>4, <2>5, <2>6, <2>7, GoStep, Zenon
<1>7. CASE UNCHANGED <<disk, icache, ip, dp, pc, put, then>>
  BY <1>1, <1>7, StillStep DEF icache
<1> QED
  BY <1>5, <1>6, <1>7 DEF create_dp

\* create() of a name that exists, and open() without O_CREATE.
LEMMA OpenStep ==
    ASSUME IInv, NEW p \in Procs, create_old(p) \/ open_ip(p)
    PROVE  IInv'
<1> DEFINE i == ip[p]
<1>1. /\ pc[p] \in {"create_old", "open_ip"} /\ ic' = Locked(i)
      /\ UNCHANGED <<disk, durable, ref, ofile, cwd, call, todo, dp>>
      /\ \/ Goto(p, "got") /\ UNCHANGED ip
         \/ SetIp(p, Null) /\ PutThen(p, <<i>>, "end")
  BY DEF create_old, open_ip, At, files, log
<1>2. InCall(p) /\ pc[p] \notin Putting
  BY <1>1 DEF InCall, Putting
<1>3. /\ Shape /\ i \in Inums /\ i \in Pointer /\ dp[p] = Null /\ dp[p] \in Pointer
      /\ todo[p] \in Seq(Entries) /\ call[p].op \in {"create", "open"}
  BY <1>1, <1>2, Here, InumFacts DEF IpAt, HasIp, HasDp, OpAt
<1>4. World
  BY <1>1, <1>3, CacheOps DEF World, Shape
<1>5. CASE Goto(p, "got") /\ UNCHANGED ip
  <2>1. NewLocals(p, i, dp[p], todo[p])
    BY <1>1, <1>3, <1>5 DEF NewLocals, Shape
  <2>2. Fits(p, "got", i, dp[p], todo[p])
    BY <1>1, <1>3, InumFacts DEF Fits, Putting, IpAt, HasIp, HasDp, OpAt, Named, Locations
  <2>3. Balance(p, i, dp[p], Null)
    BY <1>1, <1>3, BalanceKeep
  <2> QED
    BY <1>2, <1>4, <1>5, <2>1, <2>2, <2>3, GoStep, Zenon
<1>6. CASE SetIp(p, Null) /\ PutThen(p, <<i>>, "end")
  BY <1>1, <1>2, <1>3, <1>4, <1>6, GiveUpIp
<1> QED
  BY <1>1, <1>5, <1>6

\* create() links the new inode.
LEMMA CreateNewStep ==
    ASSUME IInv, NEW p \in Procs, create_new(p)
    PROVE  IInv'
<1> DEFINE i == ip[p]
           d == dp[p]
           isdir == call[p].type = "T_DIR"
           ci == [Copy(i) EXCEPT !.nlink = 1]
           cd == [ic[d] EXCEPT !.nlink = IF isdir THEN ic[d].nlink + 1 ELSE ic[d].nlink]
           d1 == iupdate(disk, i, ci)
           d2 == iupdate(d1, d, cd)
           linked == SetEntry(d2, d, name(p), i)
           d3 == SetEntry(linked, i, ".", i)
           dots == SetEntry(d3, i, "..", d)
<1>1. pc[p] = "create_new" /\ UNCHANGED <<durable, ref, ofile, cwd, call, todo, ip>>
  BY DEF create_new, At, files
<1>2. InCall(p) /\ pc[p] \notin Putting
  BY <1>1 DEF InCall, Putting
<1>3. /\ Shape /\ i \in Inums /\ i \in Pointer /\ d \in Inums /\ d \in Pointer
      /\ todo[p] \in Seq(Entries) /\ todo[p] # <<>> /\ call[p].op = "create"
  BY <1>1, <1>2, Here, InumFacts DEF IpAt, HasIp, HasDp, OpAt, Named
<1>4. CASE UNCHANGED <<disk, ic, lock, dp, pc, put, then>>
  BY <1>1, <1>4, StillStep
<1>5. CASE /\ ~(isdir /\ NoBlocks)
           /\ disk' = IF isdir THEN balloc(dots, i) ELSE linked
           /\ ic' = [ic EXCEPT ![i] = ci, ![d] = cd]
           /\ SetDp(p, Null) /\ PutThen(p, <<d>>, "got")
  <2>1. Copy(i) \in CacheEntry /\ ic[d] \in CacheEntry /\ ic \in Cache
    BY <1>3, CacheOps
  <2>2. ci \in CacheEntry /\ cd \in CacheEntry
    BY <2>1 DEF CacheEntry
  <2> HIDE DEF ci, cd
  <2>3. name(p) \in Entries /\ "." \in Entries /\ ".." \in Entries
    BY <1>3, PathType DEF name, Entries
  <2>4. d1 \in Image /\ d1.bitmap = disk.bitmap
    <3>1. disk \in Image /\ disk = [inode |-> disk.inode, bitmap |-> disk.bitmap]
      BY <1>3 DEF Shape, Image
    <3>2. d1 \in Image
      BY <1>3, <2>2, <3>1, ImageOps
    <3> QED
      BY <3>1, <3>2 DEF iupdate
  <2> HIDE DEF d1
  <2>5. d2 \in Image /\ d2.bitmap = disk.bitmap
    BY <1>3, <2>2, <2>4, ImageOps DEF iupdate, Image
  <2> HIDE DEF d2
  <2>6. linked \in Image /\ linked.bitmap = disk.bitmap
    BY <1>3, <2>3, <2>5, ImageOps DEF SetEntry, Image
  <2> HIDE DEF linked
  <2>7. d3 \in Image /\ d3.bitmap = disk.bitmap
    BY <1>3, <2>3, <2>6, ImageOps DEF SetEntry, Image
  <2> HIDE DEF d3
  <2>8. dots \in Image /\ dots.bitmap = disk.bitmap
    BY <1>3, <2>3, <2>7, ImageOps DEF SetEntry, Image
  <2> HIDE DEF dots
  <2>9. isdir => balloc(dots, i) \in Image
    BY <1>3, <1>5, <2>8, ImageOps DEF NoBlocks
  <2>10. World
    BY <1>1, <1>3, <1>5, <2>1, <2>2, <2>6, <2>9 DEF World, Shape, Cache
  <2>11. NewLocals(p, i, Null, todo[p])
    BY <1>1, <1>3, <1>5 DEF NewLocals, SetDp, Shape
  <2>12. Fits(p, "got", i, Null, todo[p])
    BY <1>1, <1>3, InumFacts DEF Fits, Putting, IpAt, HasIp, HasDp, OpAt, Named, Locations
  <2>13. Balance(p, i, Null, d)
    BY <1>1, <1>3, <1>5, BalanceKeep
  <2> QED
    BY <1>2, <1>3, <1>5, <2>10, <2>11, <2>12, <2>13, PutStep, Zenon
<1> QED
  BY <1>4, <1>5 DEF create_new

\* What a process has once its old directory is given up.
LEMMA HasGivenUp ==
    ASSUME NEW j \in Inums, NEW c, NEW f, NEW i, NEW d
    PROVE  Has("chdir_set", "idle", <<>>, c, f, i, d, j)
                = Is(f, j) + Is(i, j) + Is(d, j)
<1>1. CwdOf("chdir_set", "idle", <<>>, c) = Null
  BY DEF CwdOf, GivenUp
<1> QED
  BY <1>1, HasParts DEF Has

\* What it has while it puts it.
LEMMA HasGivingUp ==
    ASSUME NEW j \in Inums, NEW c, NEW f, NEW i, NEW d, NEW x \in Inums
    PROVE  Has("iput", "chdir_set", <<x>>, c, f, i, d, j)
                = Is(f, j) + Is(i, j) + Is(d, j) + Is(x, j)
<1>1. CwdOf("iput", "chdir_set", <<x>>, c) = Null
  BY HasParts DEF CwdOf, GivenUp
<1> QED
  BY <1>1, HasParts DEF Has

\* A call that has its inode returns it as a file, or puts it.
LEMMA GotStep ==
    ASSUME IInv, NEW p \in Procs, got(p)
    PROVE  IInv'
<1> DEFINE i == ip[p]
           w == call[p].op = "create" \/ call[p].omode # "O_RDONLY"
           f == [ip |-> i, writable |-> w]
<1>1. /\ pc[p] = "got" /\ SetIp(p, Null)
      /\ UNCHANGED <<disk, durable, ref, ic, cwd, call, todo, dp>>
  BY DEF got, At, log
<1>2. InCall(p) /\ pc[p] \notin Putting
  BY <1>1 DEF InCall, Putting
<1>3. /\ Shape /\ i \in Inums /\ i # Null /\ dp[p] = Null /\ todo[p] \in Seq(Entries)
      /\ put[p] = <<>> /\ then[p] = "idle" /\ call[p] \in Calls
      /\ cwd[p] \in Inums
  BY <1>1, <1>2, Here, InumFacts DEF IpAt, HasIp, HasDp
<1>4. World
  BY <1>1, <1>3, CacheOps DEF World, Shape
<1>5. CASE PutThen(p, <<i>>, "end") /\ UNCHANGED ofile
  BY <1>1, <1>2, <1>3, <1>4, <1>5, GiveUpIp
<1>6. CASE /\ ofile[p] = NoFile /\ ofile' = [ofile EXCEPT ![p] = f] /\ Goto(p, "end")
  <2>1. w \in BOOLEAN
    OBVIOUS
  <2> HIDE DEF w
  <2>2. f \in OpenFile /\ f.ip = i
    BY <1>3, <2>1, InumFacts DEF OpenFile
  <2> HIDE DEF f
  <2>3. Move(p, "end", "idle", <<>>, Null, Null, call[p], todo[p], f, cwd[p])
    BY <1>1, <1>3, <1>6 DEF Move, Shape, Goto, SetIp
  <2>4. Values("end", "idle", <<>>, Null, Null, call[p], todo[p], f, cwd[p])
    BY <1>3, <2>2, InumFacts DEF Values, Locations
  <2>5. Row("end", "idle", <<>>, Null, Null, call[p], todo[p], f)
    BY <1>3, <2>2 DEF Row, Loc, Putting, IpAt, HasIp, HasDp, OpAt, Named
  <2>6. ASSUME NEW j \in Inums
        PROVE  ref'[j] = ref[j]
                - Has(pc[p], then[p], put[p], cwd[p], ofile[p].ip, ip[p], dp[p], j)
                + Has("end", "idle", <<>>, cwd[p], f.ip, Null, Null, j)
    <3>1. Has(pc[p], then[p], put[p], cwd[p], ofile[p].ip, ip[p], dp[p], j)
            = Is(cwd[p], j) + Is(ofile[p].ip, j) + Is(ip[p], j) + Is(dp[p], j)
      BY <1>1, <1>3, HasRun
    <3>2. Has("end", "idle", <<>>, cwd[p], f.ip, Null, Null, j)
            = Is(cwd[p], j) + Is(f.ip, j) + Is(Null, j) + Is(Null, j)
      BY HasRun
    <3>3. /\ ref[j] \in Int /\ (\A y : Is(y, j) \in Int) /\ ref'[j] = ref[j]
          /\ Is(Null, j) = 0 /\ ofile[p].ip = Null
      BY <1>1, <1>3, <1>6, HasParts DEF Shape, NoFile
    <3> QED
      BY <1>3, <2>2, <3>1, <3>2, <3>3
  <2>7. Counted(p, "end", "idle", <<>>, Null, Null, f, cwd[p])
    BY <2>6 DEF Counted
  <2> QED
    BY <1>4, <2>3, <2>4, <2>5, <2>7, MoveStep, Zenon
<1> QED
  BY <1>5, <1>6 DEF got

\* sys_chdir() puts the old directory.
LEMMA ChdirIpStep ==
    ASSUME IInv, NEW p \in Procs, chdir_ip(p)
    PROVE  IInv'
<1> DEFINE i == ip[p]
<1>1. /\ pc[p] = "chdir_ip" /\ ic' = Locked(i)
      /\ UNCHANGED <<disk, durable, ref, ofile, cwd, call, todo, dp>>
  BY DEF chdir_ip, At, log, files
<1>2. InCall(p) /\ pc[p] \notin Putting
  BY <1>1 DEF InCall, Putting
<1>3. /\ Shape /\ i \in Inums /\ i \in Pointer /\ i # Null /\ dp[p] = Null
      /\ todo[p] \in Seq(Entries) /\ put[p] = <<>> /\ then[p] = "idle"
      /\ call[p] \in Calls /\ call[p].op = "chdir" /\ cwd[p] \in Inums
      /\ ofile[p] \in OpenFile /\ (ofile[p].writable => ofile[p].ip # Null)
  BY <1>1, <1>2, Here, InumFacts DEF IpAt, HasIp, HasDp, OpAt
<1>4. World
  BY <1>1, <1>3, CacheOps DEF World, Shape
<1>5. CASE SetIp(p, Null) /\ PutThen(p, <<i>>, "end")
  BY <1>1, <1>2, <1>3, <1>4, <1>5, GiveUpIp
<1>6. CASE PutThen(p, <<cwd[p]>>, "chdir_set") /\ UNCHANGED ip
  <2>1. <<cwd[p]>> \in Seq(Inums) /\ <<cwd[p]>> # <<>> /\ Len(<<cwd[p]>>) = 1
    BY <1>3
  <2>2. Move(p, "iput", "chdir_set", <<cwd[p]>>, i, Null, call[p], todo[p], ofile[p],
             cwd[p])
    BY <1>1, <1>3, <1>6 DEF Move, Shape, PutThen
  <2>3. Values("iput", "chdir_set", <<cwd[p]>>, i, Null, call[p], todo[p], ofile[p],
               cwd[p])
    BY <1>3, <2>1, InumFacts DEF Values, Locations
  <2>4. Row("iput", "chdir_set", <<cwd[p]>>, i, Null, call[p], todo[p], ofile[p])
    BY <1>3, <2>1 DEF Row, Loc, Putting, IpAt, HasIp, HasDp, OpAt, Named
  <2>5. ASSUME NEW j \in Inums
        PROVE  ref'[j] = ref[j]
                - Has(pc[p], then[p], put[p], cwd[p], ofile[p].ip, ip[p], dp[p], j)
                + Has("iput", "chdir_set", <<cwd[p]>>, cwd[p], ofile[p].ip, i, Null, j)
    <3>1. Has(pc[p], then[p], put[p], cwd[p], ofile[p].ip, ip[p], dp[p], j)
            = Is(cwd[p], j) + Is(ofile[p].ip, j) + Is(ip[p], j) + Is(dp[p], j)
      BY <1>1, <1>3, HasRun
    <3>2. Has("iput", "chdir_set", <<cwd[p]>>, cwd[p], ofile[p].ip, i, Null, j)
            = Is(ofile[p].ip, j) + Is(i, j) + Is(Null, j) + Is(cwd[p], j)
      BY <1>3, HasGivingUp
    <3>3. /\ ref[j] \in Int /\ (\A y : Is(y, j) \in Int) /\ ref'[j] = ref[j]
      BY <1>1, <1>3, HasParts DEF Shape
    <3> QED
      BY <1>3, <3>1, <3>2, <3>3
  <2>6. Counted(p, "iput", "chdir_set", <<cwd[p]>>, i, Null, ofile[p], cwd[p])
    BY <2>5 DEF Counted
  <2> QED
    BY <1>4, <2>2, <2>3, <2>4, <2>6, MoveStep, Zenon
<1> QED
  BY <1>5, <1>6 DEF chdir_ip

\* sys_chdir() keeps its inode as the new directory.
LEMMA ChdirSetStep ==
    ASSUME IInv, NEW p \in Procs, chdir_set(p)
    PROVE  IInv'
<1> DEFINE i == ip[p]
<1>1. /\ pc[p] = "chdir_set" /\ cwd' = [cwd EXCEPT ![p] = i] /\ SetIp(p, Null)
      /\ Goto(p, "end") /\ UNCHANGED <<disk, durable, ref, ic, ofile, call, todo, dp>>
  BY DEF chdir_set, At, log, icache
<1>2. /\ Shape /\ i \in Inums /\ dp[p] = Null /\ todo[p] \in Seq(Entries)
      /\ put[p] = <<>> /\ then[p] = "idle" /\ call[p] \in Calls
      /\ ofile[p] \in OpenFile /\ (ofile[p].writable => ofile[p].ip # Null)
  BY <1>1, Here, InumFacts DEF Putting, IpAt, HasIp, HasDp
<1>3. World
  BY <1>1, <1>2, CacheOps DEF World, Shape
<1>4. Move(p, "end", "idle", <<>>, Null, Null, call[p], todo[p], ofile[p], i)
  BY <1>1, <1>2 DEF Move, Shape, Goto, SetIp
<1>5. Values("end", "idle", <<>>, Null, Null, call[p], todo[p], ofile[p], i)
  BY <1>2, InumFacts DEF Values, Locations
<1>6. Row("end", "idle", <<>>, Null, Null, call[p], todo[p], ofile[p])
  BY <1>2 DEF Row, Loc, Putting, IpAt, HasIp, HasDp, OpAt, Named
<1>7. ASSUME NEW j \in Inums
      PROVE  ref'[j] = ref[j]
                - Has(pc[p], then[p], put[p], cwd[p], ofile[p].ip, ip[p], dp[p], j)
                + Has("end", "idle", <<>>, i, ofile[p].ip, Null, Null, j)
  <2>1. Has(pc[p], then[p], put[p], cwd[p], ofile[p].ip, ip[p], dp[p], j)
          = Is(ofile[p].ip, j) + Is(ip[p], j) + Is(dp[p], j)
    BY <1>1, <1>2, HasGivenUp
  <2>2. Has("end", "idle", <<>>, i, ofile[p].ip, Null, Null, j)
          = Is(i, j) + Is(ofile[p].ip, j) + Is(Null, j) + Is(Null, j)
    BY HasRun
  <2>3. /\ ref[j] \in Int /\ (\A y : Is(y, j) \in Int) /\ ref'[j] = ref[j]
        /\ Is(Null, j) = 0
    BY <1>1, <1>2, HasParts DEF Shape
  <2> QED
    BY <1>2, <2>1, <2>2, <2>3
<1>8. Counted(p, "end", "idle", <<>>, Null, Null, ofile[p], i)
  BY <1>7 DEF Counted
<1> QED
  BY <1>3, <1>4, <1>5, <1>6, <1>8, MoveStep, Zenon

\* filewrite() of one block.
LEMMA WriteStep ==
    ASSUME IInv, NEW p \in Procs, write_ip(p)
    PROVE  IInv'
<1> DEFINE i == ofile[p].ip
           grows == /\ Copy(i).type = "T_FILE"
                    /\ Cardinality(disk.inode[i].addrs) < MAXFILE
<1>1. pc[p] = "write_ip" /\ UNCHANGED <<durable, ref, ofile, cwd, call, todo, ip, dp>>
  BY DEF write_ip, At, files, locals
<1>2. InCall(p) /\ pc[p] \notin Putting
  BY <1>1 DEF InCall, Putting
<1>3. /\ Shape /\ i \in Inums /\ ip[p] = Null /\ dp[p] = Null /\ todo[p] \in Seq(Entries)
      /\ ip[p] \in Pointer
  <2>1. /\ Shape /\ ip[p] = Null /\ dp[p] = Null /\ todo[p] \in Seq(Entries)
        /\ ofile[p] \in OpenFile /\ ofile[p].ip # Null
    BY <1>1, <1>2, Here DEF IpAt, HasIp, HasDp
  <2> QED
    BY <2>1, InumFacts DEF OpenFile
<1>4. CASE UNCHANGED <<disk, ic, pc, put, then>>
  BY <1>1, <1>4, StillStep
<1>5. CASE /\ ~(grows /\ NoBlocks) /\ ic' = Locked(i)
           /\ disk' = (IF grows THEN balloc(disk, i) ELSE disk)
           /\ Goto(p, "end")
  <2>1. disk' \in Image
    <3>1. disk \in Image
      BY <1>3 DEF Shape
    <3>2. grows => balloc(disk, i) \in Image
      BY <1>3, <1>5, <3>1, ImageOps DEF NoBlocks
    <3> HIDE DEF grows
    <3> QED
      BY <1>5, <3>1, <3>2
  <2>2. World
    BY <1>1, <1>3, <1>5, <2>1, CacheOps DEF World, Shape
  <2>3. NewLocals(p, ip[p], dp[p], todo[p])
    BY <1>1, <1>3 DEF NewLocals, Shape
  <2>4. Fits(p, "end", ip[p], dp[p], todo[p])
    BY <1>1, <1>3, InumFacts DEF Fits, Putting, IpAt, HasIp, HasDp, OpAt, Named, Locations
  <2>5. Balance(p, ip[p], dp[p], Null)
    BY <1>1, <1>3, BalanceKeep
  <2> QED
    BY <1>2, <1>5, <2>2, <2>3, <2>4, <2>5, GoStep, Zenon
<1> QED
  BY <1>4, <1>5 DEF write_ip

\* A process that is putting inodes.
LEMMA HerePutting ==
    ASSUME IInv, NEW p \in Procs, pc[p] \in Putting
    PROVE  /\ Shape /\ put[p] \in Seq(Inums) /\ put[p] # <<>> /\ Len(put[p]) <= 2
           /\ then[p] \in Locations /\ then[p] \notin Putting
           /\ Values(pc[p], then[p], put[p], ip[p], dp[p], call[p], todo[p], ofile[p],
                     cwd[p])
           /\ Row(pc[p], then[p], put[p], ip[p], dp[p], call[p], todo[p], ofile[p])
<1>1. Shape /\ Row(pc[p], then[p], put[p], ip[p], dp[p], call[p], todo[p], ofile[p])
  BY DEF IInv, RowInv
<1>2. Values(pc[p], then[p], put[p], ip[p], dp[p], call[p], todo[p], ofile[p], cwd[p])
  BY <1>1 DEF Shape, Values, OpenFile
<1> QED
  BY <1>1, <1>2 DEF Row, Loc, Values

\* iput() up to the release of the sleep lock.
LEMMA IputStep ==
    ASSUME IInv, NEW p \in Procs, iput(p)
    PROVE  IInv'
<1> DEFINE x == Head(put[p])
<1>1. /\ pc[p] = "iput" /\ pc' = [pc EXCEPT ![p] = "unref"]
      /\ UNCHANGED <<durable, ref, ofile, cwd, call, todo, ip, dp, put, then>>
      /\ \/ /\ disk' = iupdate(itrunc(disk, x), x, NoCopy)
            /\ ic' = [ic EXCEPT ![x] = NoCopy]
         \/ UNCHANGED <<disk, ic>>
  BY DEF iput, At, files, locals
<1>2. /\ Shape /\ put[p] \in Seq(Inums) /\ put[p] # <<>>
      /\ then[p] \notin Putting
      /\ Values(pc[p], then[p], put[p], ip[p], dp[p], call[p], todo[p], ofile[p], cwd[p])
      /\ Row(pc[p], then[p], put[p], ip[p], dp[p], call[p], todo[p], ofile[p])
  BY <1>1, HerePutting DEF Putting
<1>3. x \in Inums
  BY <1>2
<1>4. World
  <2>1. ic \in Cache /\ [ic EXCEPT ![x] = NoCopy] \in Cache /\ NoCopy \in CacheEntry
    BY <1>2, <1>3, CacheOps DEF Cache
  <2>2. itrunc(disk, x) \in Image /\ disk \in Image
    BY <1>2, <1>3, ImageOps DEF Shape
  <2>3. iupdate(itrunc(disk, x), x, NoCopy) \in Image
    BY <1>3, <2>1, <2>2, ImageOps
  <2> QED
    BY <1>1, <1>2, <2>1, <2>2, <2>3 DEF World, Shape
<1>5. Move(p, "unref", then[p], put[p], ip[p], dp[p], call[p], todo[p], ofile[p], cwd[p])
  BY <1>1, <1>2 DEF Move, Shape
<1>6. Values("unref", then[p], put[p], ip[p], dp[p], call[p], todo[p], ofile[p], cwd[p])
  BY <1>2 DEF Values, Locations
<1>7. Row("unref", then[p], put[p], ip[p], dp[p], call[p], todo[p], ofile[p])
  BY <1>1, <1>2 DEF Row, Loc, Putting
<1>8. ASSUME NEW j \in Inums
      PROVE  ref'[j] = ref[j]
                - Has(pc[p], then[p], put[p], cwd[p], ofile[p].ip, ip[p], dp[p], j)
                + Has("unref", then[p], put[p], cwd[p], ofile[p].ip, ip[p], dp[p], j)
  <2>1. Has(pc[p], then[p], put[p], cwd[p], ofile[p].ip, ip[p], dp[p], j)
          = Has("unref", then[p], put[p], cwd[p], ofile[p].ip, ip[p], dp[p], j)
    BY <1>1 DEF Has, CwdOf, GivenUp
  <2>2. Has("unref", then[p], put[p], cwd[p], ofile[p].ip, ip[p], dp[p], j) \in Int
    BY HasParts DEF Has
  <2>3. ref[j] \in Int /\ ref'[j] = ref[j]
    BY <1>1, <1>2 DEF Shape
  <2> QED
    BY <2>1, <2>2, <2>3
<1>9. Counted(p, "unref", then[p], put[p], ip[p], dp[p], ofile[p], cwd[p])
  BY <1>8 DEF Counted
<1> QED
  BY <1>4, <1>5, <1>6, <1>7, <1>9, MoveStep, Zenon

\* What is left to put after the first of at most two inodes.
LEMMA NthTail ==
    ASSUME NEW s \in Seq(Inums), s # <<>>, Len(s) <= 2
    PROVE  /\ Nth(s, 1) = Head(s)
           /\ Tail(s) = <<>> => Nth(s, 2) = Null
           /\ Tail(s) # <<>> => Nth(Tail(s), 1) = Nth(s, 2) /\ Nth(Tail(s), 2) = Null
<1> DEFINE r == Tail(s)
<1>1. /\ r \in Seq(Inums) /\ Len(r) = Len(s) - 1 /\ Len(s) \in Nat /\ Len(s) # 0
      /\ \A k \in 1 .. Len(r) : r[k] = s[k + 1]
  BY HeadTailProperties, EmptySeq
<1>2. Nth(s, 1) = Head(s)
  BY DEF Nth
<1> HIDE DEF r
<1>3. r = <<>> => Len(r) = 0
  OBVIOUS
<1>4. r # <<>> => Len(r) \in Nat \ {0}
  BY <1>1, EmptySeq
<1>5. ASSUME r = <<>> PROVE Nth(s, 2) = Null
  <2>1. Len(r) = 0
    BY <1>3, <1>5
  <2>2. Len(s) = 1
    BY <1>1, <2>1
  <2> QED
    BY <2>2 DEF Nth
<1>6. ASSUME r # <<>> PROVE Nth(r, 1) = Nth(s, 2) /\ Nth(r, 2) = Null
  <2>1. Len(s) = 2 /\ Len(r) = 1
    BY <1>1, <1>4, <1>6
  <2>2. r[1] = s[1 + 1] /\ 1 + 1 = 2
    BY <1>1, <2>1
  <2> QED
    BY <2>1, <2>2 DEF Nth
<1> QED
  BY <1>2, <1>5, <1>6 DEF r

\* Putting the first of the inodes changes the pointers by that one.
LEMMA HasTail ==
    ASSUME NEW s \in Seq(Inums), s # <<>>, Len(s) <= 2, NEW j \in Inums,
           NEW l, NEW t, NEW c, NEW f, NEW i, NEW d, l \in Putting
    PROVE  /\ Tail(s) # <<>> =>
                Has("iput", t, Tail(s), c, f, i, d, j)
                    = Has(l, t, s, c, f, i, d, j) - Is(Head(s), j)
           /\ Tail(s) = <<>> =>
                Has(t, "idle", <<>>, c, f, i, d, j)
                    = Has(l, t, s, c, f, i, d, j) - Is(Head(s), j)
           /\ Has(l, t, s, c, f, i, d, j) \in Int
<1>1. /\ \A y : Is(y, j) \in Int
      /\ Is(Null, j) = 0 /\ Nth(<<>>, 1) = Null /\ Nth(<<>>, 2) = Null
  BY HasParts
<1>2. l # "chdir_set"
  BY DEF Putting
<1>3. /\ Nth(s, 1) = Head(s)
      /\ Tail(s) = <<>> => Nth(s, 2) = Null
      /\ Tail(s) # <<>> => Nth(Tail(s), 1) = Nth(s, 2) /\ Nth(Tail(s), 2) = Null
  BY NthTail
<1>4. CASE Tail(s) = <<>>
  <2>1. CwdOf(t, "idle", <<>>, c) = CwdOf(l, t, s, c)
    BY <1>2 DEF CwdOf, GivenUp
  <2> QED
    BY <1>1, <1>3, <1>4, <2>1 DEF Has
<1>5. CASE Tail(s) # <<>>
  <2>1. CwdOf("iput", t, Tail(s), c) = CwdOf(l, t, s, c)
    BY <1>2, <1>5 DEF CwdOf, GivenUp
  <2> DEFINE r == Tail(s)
  <2>2. Nth(r, 1) = Nth(s, 2) /\ Nth(r, 2) = Null /\ Nth(s, 1) = Head(s)
    BY <1>3, <1>5
  <2>3. /\ Has("iput", t, r, c, f, i, d, j)
             = Is(CwdOf("iput", t, r, c), j) + Is(f, j) + Is(i, j) + Is(d, j)
               + Is(Nth(r, 1), j) + Is(Nth(r, 2), j)
        /\ Has(l, t, s, c, f, i, d, j)
             = Is(CwdOf(l, t, s, c), j) + Is(f, j) + Is(i, j) + Is(d, j)
               + Is(Nth(s, 1), j) + Is(Nth(s, 2), j)
    BY DEF Has
  <2> HIDE DEF r
  <2>4. /\ Has("iput", t, r, c, f, i, d, j)
             = Has(l, t, s, c, f, i, d, j) - Is(Head(s), j)
        /\ Has(l, t, s, c, f, i, d, j) \in Int
    BY <1>1, <2>1, <2>2, <2>3 DEF r
  <2> QED
    BY <1>5, <2>4 DEF r
<1> QED
  BY <1>4, <1>5

\* iput() takes the reference away.
LEMMA UnrefStep ==
    ASSUME IInv, NEW p \in Procs, unref(p)
    PROVE  IInv'
<1> DEFINE x == Head(put[p])
           s == Tail(put[p])
<1>1. /\ pc[p] = "unref" /\ pc[p] \in Putting
      /\ UNCHANGED <<disk, durable, ic, ofile, cwd, call, todo, ip, dp>>
      /\ ref' = [ref EXCEPT ![x] = ref[x] - 1]
      /\ put' = [put EXCEPT ![p] = s]
  BY DEF unref, At, files, locals, log, Putting
<1>2. /\ Shape /\ put[p] \in Seq(Inums) /\ put[p] # <<>> /\ Len(put[p]) <= 2
      /\ then[p] \in Locations /\ then[p] \notin Putting
      /\ Values(pc[p], then[p], put[p], ip[p], dp[p], call[p], todo[p], ofile[p], cwd[p])
      /\ Row(pc[p], then[p], put[p], ip[p], dp[p], call[p], todo[p], ofile[p])
  BY <1>1, HerePutting
<1>3. x \in Inums /\ s \in Seq(Inums) /\ Len(s) <= 1 /\ put'[p] = s
  BY <1>1, <1>2 DEF Shape
<1>4. /\ ref' \in [Inums -> Int]
      /\ \A j \in Inums : ref'[j] = ref[j] - Is(x, j) /\ ref[j] \in Int
  <2>1. ref \in [Inums -> Int]
    BY <1>2 DEF Shape
  <2> HIDE DEF x
  <2> QED
    BY <1>1, <1>3, <2>1 DEF Is
<1>5. World
  BY <1>1, <1>2, <1>3, <1>4, CacheOps DEF World, Shape
<1>6. CASE s = <<>>
  <2>1. pc' = [pc EXCEPT ![p] = then[p]] /\ then' = [then EXCEPT ![p] = "idle"]
    BY <1>3, <1>6 DEF unref
  <2>2. Move(p, then[p], "idle", <<>>, ip[p], dp[p], call[p], todo[p], ofile[p], cwd[p])
    BY <1>1, <1>2, <1>6, <2>1 DEF Move, Shape
  <2>3. Values(then[p], "idle", <<>>, ip[p], dp[p], call[p], todo[p], ofile[p], cwd[p])
    BY <1>2 DEF Values, Locations
  <2>4. Row(then[p], "idle", <<>>, ip[p], dp[p], call[p], todo[p], ofile[p])
    BY <1>1, <1>2 DEF Row, Loc
  <2>5. ASSUME NEW j \in Inums
        PROVE  ref'[j] = ref[j]
                - Has(pc[p], then[p], put[p], cwd[p], ofile[p].ip, ip[p], dp[p], j)
                + Has(then[p], "idle", <<>>, cwd[p], ofile[p].ip, ip[p], dp[p], j)
    <3>1. /\ Has(then[p], "idle", <<>>, cwd[p], ofile[p].ip, ip[p], dp[p], j)
             = Has(pc[p], then[p], put[p], cwd[p], ofile[p].ip, ip[p], dp[p], j) - Is(x, j)
          /\ Has(pc[p], then[p], put[p], cwd[p], ofile[p].ip, ip[p], dp[p], j) \in Int
      <4>1. /\ put[p] \in Seq(Inums) /\ put[p] # <<>> /\ Len(put[p]) <= 2
            /\ pc[p] \in Putting /\ Tail(put[p]) = <<>> /\ x = Head(put[p])
        BY <1>1, <1>2, <1>6
      <4> HIDE DEF x
      <4> QED
        BY <4>1, HasTail
    <3>2. Is(x, j) \in Int
      BY HasParts
    <3> QED
      BY <1>4, <3>1, <3>2
  <2>6. Counted(p, then[p], "idle", <<>>, ip[p], dp[p], ofile[p], cwd[p])
    BY <2>5 DEF Counted
  <2> QED
    BY <1>5, <2>2, <2>3, <2>4, <2>6, MoveStep, Zenon
<1>7. CASE s # <<>>
  <2>1. pc' = [pc EXCEPT ![p] = "iput"] /\ UNCHANGED then
    BY <1>3, <1>7 DEF unref
  <2>2. Move(p, "iput", then[p], s, ip[p], dp[p], call[p], todo[p], ofile[p], cwd[p])
    BY <1>1, <1>2, <2>1 DEF Move, Shape
  <2>3. Values("iput", then[p], s, ip[p], dp[p], call[p], todo[p], ofile[p], cwd[p])
    BY <1>2, <1>3 DEF Values, Locations
  <2>4. Row("iput", then[p], s, ip[p], dp[p], call[p], todo[p], ofile[p])
    BY <1>1, <1>2, <1>3, <1>7 DEF Row, Loc, Putting
  <2>5. ASSUME NEW j \in Inums
        PROVE  ref'[j] = ref[j]
                - Has(pc[p], then[p], put[p], cwd[p], ofile[p].ip, ip[p], dp[p], j)
                + Has("iput", then[p], s, cwd[p], ofile[p].ip, ip[p], dp[p], j)
    <3>1. /\ Has("iput", then[p], s, cwd[p], ofile[p].ip, ip[p], dp[p], j)
             = Has(pc[p], then[p], put[p], cwd[p], ofile[p].ip, ip[p], dp[p], j) - Is(x, j)
          /\ Has(pc[p], then[p], put[p], cwd[p], ofile[p].ip, ip[p], dp[p], j) \in Int
      BY <1>1, <1>2, <1>7, HasTail
    <3>2. Is(x, j) \in Int
      BY HasParts
    <3> QED
      BY <1>4, <3>1, <3>2
  <2>6. Counted(p, "iput", then[p], s, ip[p], dp[p], ofile[p], cwd[p])
    BY <2>5 DEF Counted
  <2> HIDE DEF s
  <2> QED
    BY <1>5, <2>2, <2>3, <2>4, <2>6, MoveStep, Zenon
<1> QED
  BY <1>6, <1>7

\* A process between calls, or at the end of one.
LEMMA HereIdle ==
    ASSUME IInv, NEW p \in Procs, pc[p] \in {"idle", "end"}
    PROVE  /\ Shape /\ put[p] = <<>> /\ then[p] = "idle" /\ ip[p] = Null /\ dp[p] = Null
           /\ todo[p] \in Seq(Entries) /\ ofile[p] \in OpenFile /\ cwd[p] \in Inums
           /\ (ofile[p].writable => ofile[p].ip # Null)
           /\ \A j \in Inums :
                Has(pc[p], then[p], put[p], cwd[p], ofile[p].ip, ip[p], dp[p], j)
                    = Is(cwd[p], j) + Is(ofile[p].ip, j)
<1>1. pc[p] \notin Putting /\ pc[p] # "chdir_set"
  BY DEF Putting
<1>2. /\ Shape /\ put[p] = <<>> /\ then[p] = "idle" /\ ip[p] = Null /\ dp[p] = Null
      /\ todo[p] \in Seq(Entries) /\ ofile[p] \in OpenFile /\ cwd[p] \in Inums
      /\ (ofile[p].writable => ofile[p].ip # Null)
  BY <1>1, Here DEF IpAt, HasIp, HasDp
<1>3. ASSUME NEW j \in Inums
      PROVE  Has(pc[p], then[p], put[p], cwd[p], ofile[p].ip, ip[p], dp[p], j)
                = Is(cwd[p], j) + Is(ofile[p].ip, j)
  <2>1. Has(pc[p], "idle", <<>>, cwd[p], ofile[p].ip, Null, Null, j)
          = Is(cwd[p], j) + Is(ofile[p].ip, j) + Is(Null, j) + Is(Null, j)
    BY <1>1, HasRun
  <2> QED
    BY <1>2, <2>1, HasParts
<1> QED
  BY <1>2, <1>3

\* end_op() after the last step of a call.
LEMMA EndStep ==
    ASSUME IInv, NEW p \in Procs, end_op(p)
    PROVE  IInv'
<1>1. /\ pc[p] = "end" /\ Goto(p, "idle") /\ call' = [call EXCEPT ![p] = NoCall]
      /\ todo' = [todo EXCEPT ![p] = <<>>]
      /\ durable' = disk \/ durable' = durable
      /\ UNCHANGED <<disk, ref, ic, ofile, cwd, ip, dp>>
  BY DEF end_op, At, icache, files
<1>2. /\ Shape /\ put[p] = <<>> /\ then[p] = "idle" /\ ip[p] = Null /\ dp[p] = Null
      /\ todo[p] \in Seq(Entries) /\ ofile[p] \in OpenFile /\ cwd[p] \in Inums
      /\ (ofile[p].writable => ofile[p].ip # Null)
      /\ \A j \in Inums :
           Has(pc[p], then[p], put[p], cwd[p], ofile[p].ip, ip[p], dp[p], j)
               = Is(cwd[p], j) + Is(ofile[p].ip, j)
  BY <1>1, HereIdle
<1>3. World
  BY <1>1, <1>2, CacheOps DEF World, Shape, Cache, CacheEntry
<1>4. Move(p, "idle", "idle", <<>>, Null, Null, NoCall, <<>>, ofile[p], cwd[p])
  BY <1>1, <1>2 DEF Move, Shape, Goto
<1>5. Values("idle", "idle", <<>>, Null, Null, NoCall, <<>>, ofile[p], cwd[p])
  BY <1>2, InumFacts DEF Values, Locations
<1>6. Row("idle", "idle", <<>>, Null, Null, NoCall, <<>>, ofile[p])
  BY <1>2 DEF Row, Loc, Putting, IpAt, HasIp, HasDp, OpAt, Named
<1>7. ASSUME NEW j \in Inums
      PROVE  ref'[j] = ref[j]
                - Has(pc[p], then[p], put[p], cwd[p], ofile[p].ip, ip[p], dp[p], j)
                + Has("idle", "idle", <<>>, cwd[p], ofile[p].ip, Null, Null, j)
  <2>1. Has("idle", "idle", <<>>, cwd[p], ofile[p].ip, Null, Null, j)
          = Is(cwd[p], j) + Is(ofile[p].ip, j) + Is(Null, j) + Is(Null, j)
    BY HasRun
  <2>2. /\ ref[j] \in Int /\ (\A y : Is(y, j) \in Int) /\ ref'[j] = ref[j]
        /\ Is(Null, j) = 0
    BY <1>1, <1>2, HasParts DEF Shape
  <2> QED
    BY <1>2, <2>1, <2>2
<1>8. Counted(p, "idle", "idle", <<>>, Null, Null, ofile[p], cwd[p])
  BY <1>7 DEF Counted
<1> QED
  BY <1>3, <1>4, <1>5, <1>6, <1>8, MoveStep, Zenon

\* The locals of a call c that starts at l, and the references it gets.
Ready(p, c, l, i, d, td) ==
    /\ l \in Locations /\ l \notin Putting \cup {"chdir_set"}
    /\ i \in Pointer /\ d \in Pointer /\ td \in Seq(Entries)
    /\ i # Null <=> IpAt(l, c.op)
    /\ d # Null <=> l \in HasDp
    /\ OpAt(l, c.op)
    /\ l \in Named => td # <<>>
    /\ l = "write_ip" => ofile[p].writable
NewCall(p, c, i, d, td) ==
    /\ ip' = [ip EXCEPT ![p] = i] /\ dp' = [dp EXCEPT ![p] = d]
    /\ call' = [call EXCEPT ![p] = c] /\ todo' = [todo EXCEPT ![p] = td]
    /\ UNCHANGED <<ofile, cwd>>
Gained(i, d) == \A j \in Inums : ref'[j] = ref[j] + Is(i, j) + Is(d, j)

\* A call starts, with at most one new reference in one of its locals.
LEMMA BeginAt ==
    ASSUME IInv, NEW p \in Procs, NEW c \in Calls, NEW l, NEW i, NEW d, NEW td,
           pc[p] = "idle", World, Goto(p, l), NewCall(p, c, i, d, td),
           Ready(p, c, l, i, d, td), Gained(i, d)
    PROVE  IInv'
<1>2. /\ Shape /\ put[p] = <<>> /\ then[p] = "idle"
      /\ ofile[p] \in OpenFile /\ cwd[p] \in Inums
      /\ (ofile[p].writable => ofile[p].ip # Null)
      /\ \A j \in Inums :
           Has(pc[p], then[p], put[p], cwd[p], ofile[p].ip, ip[p], dp[p], j)
               = Is(cwd[p], j) + Is(ofile[p].ip, j)
  BY HereIdle
<1>4. Move(p, l, "idle", <<>>, i, d, c, td, ofile[p], cwd[p])
  BY <1>2 DEF Move, Shape, Goto, NewCall
<1>5. Values(l, "idle", <<>>, i, d, c, td, ofile[p], cwd[p])
  BY <1>2 DEF Values, Locations, Ready
<1>6. Row(l, "idle", <<>>, i, d, c, td, ofile[p])
  BY <1>2 DEF Row, Loc, Ready
<1>7. ASSUME NEW j \in Inums
      PROVE  ref'[j] = ref[j]
                - Has(pc[p], then[p], put[p], cwd[p], ofile[p].ip, ip[p], dp[p], j)
                + Has(l, "idle", <<>>, cwd[p], ofile[p].ip, i, d, j)
  <2>1. Has(l, "idle", <<>>, cwd[p], ofile[p].ip, i, d, j)
          = Is(cwd[p], j) + Is(ofile[p].ip, j) + Is(i, j) + Is(d, j)
    BY HasRun DEF Ready
  <2>2. ref[j] \in Int /\ (\A y : Is(y, j) \in Int)
        /\ ref'[j] = ref[j] + Is(i, j) + Is(d, j)
    BY <1>2, HasParts DEF Shape, Gained
  <2> QED
    BY <1>2, <2>1, <2>2
<1>8. Counted(p, l, "idle", <<>>, i, d, ofile[p], cwd[p])
  BY <1>7 DEF Counted
<1> QED
  BY <1>4, <1>5, <1>6, <1>8, MoveStep, Zenon

\* Closing a file moves its pointer to what is put.
LEMMA BeginClose ==
    ASSUME IInv, NEW p \in Procs, NEW c \in Calls, pc[p] = "idle",
           ofile[p] # NoFile, ofile' = [ofile EXCEPT ![p] = NoFile],
           PutThen(p, <<ofile[p].ip>>, "end"), call' = [call EXCEPT ![p] = c],
           UNCHANGED <<disk, durable, ref, ic, todo, ip, dp, cwd>>
    PROVE  IInv'
<1> DEFINE x == ofile[p].ip
<1>1. /\ Shape /\ put[p] = <<>> /\ then[p] = "idle" /\ ip[p] = Null /\ dp[p] = Null
      /\ todo[p] \in Seq(Entries) /\ ofile[p] \in OpenFile /\ cwd[p] \in Inums
      /\ (ofile[p].writable => ofile[p].ip # Null)
      /\ \A j \in Inums :
           Has(pc[p], then[p], put[p], cwd[p], ofile[p].ip, ip[p], dp[p], j)
               = Is(cwd[p], j) + Is(ofile[p].ip, j)
  BY HereIdle
<1>2. x \in Inums
  <2>1. x # Null
    BY <1>1 DEF OpenFile, NoFile
  <2> QED
    BY <1>1, <2>1, InumFacts DEF OpenFile
<1>3. World
  BY <1>1, <1>2, CacheOps DEF World, Shape
<1>4. Move(p, "iput", "end", <<x>>, Null, Null, c, todo[p], NoFile, cwd[p])
  BY <1>1 DEF Move, Shape, PutThen
<1>5. NoFile \in OpenFile /\ NoFile.ip = Null /\ ~NoFile.writable
  BY InumFacts DEF NoFile, OpenFile
<1>6. <<x>> \in Seq(Inums) /\ <<x>> # <<>> /\ Len(<<x>>) = 1
  BY <1>2
<1>7. Values("iput", "end", <<x>>, Null, Null, c, todo[p], NoFile, cwd[p])
  BY <1>1, <1>5, <1>6, InumFacts DEF Values, Locations
<1>8. Row("iput", "end", <<x>>, Null, Null, c, todo[p], NoFile)
  BY <1>5, <1>6 DEF Row, Loc, Putting, IpAt, HasIp, HasDp, OpAt, Named
<1>9. ASSUME NEW j \in Inums
      PROVE  ref'[j] = ref[j]
                - Has(pc[p], then[p], put[p], cwd[p], ofile[p].ip, ip[p], dp[p], j)
                + Has("iput", "end", <<x>>, cwd[p], NoFile.ip, Null, Null, j)
  <2>1. Has("iput", "end", <<x>>, cwd[p], NoFile.ip, Null, Null, j)
          = Is(cwd[p], j) + Is(NoFile.ip, j) + Is(Null, j) + Is(Null, j) + Is(x, j)
    BY <1>2, HasPut
  <2>2. ref[j] \in Int /\ (\A y : Is(y, j) \in Int) /\ ref'[j] = ref[j]
        /\ Is(Null, j) = 0
    BY <1>1, HasParts DEF Shape
  <2>3. Has(pc[p], then[p], put[p], cwd[p], ofile[p].ip, ip[p], dp[p], j)
          = Is(cwd[p], j) + Is(x, j)
    BY <1>1
  <2> HIDE DEF x
  <2> QED
    BY <1>5, <2>1, <2>2, <2>3
<1>10. Counted(p, "iput", "end", <<x>>, Null, Null, NoFile, cwd[p])
  BY <1>9 DEF Counted
<1> QED
  BY <1>3, <1>4, <1>7, <1>8, <1>10, MoveStep, Zenon

\* The reference a call starts with.
LEMMA GainOne ==
    ASSUME Shape, NEW n \in Inums, ref' = iget(n)
    PROVE  /\ Gained(n, Null) /\ Gained(Null, n) /\ ref' \in [Inums -> Int]
<1>1. ref \in [Inums -> Int]
  BY DEF Shape
<1>2. ASSUME NEW j \in Inums
      PROVE  /\ ref'[j] = ref[j] + Is(n, j) + Is(Null, j)
             /\ ref'[j] = ref[j] + Is(Null, j) + Is(n, j)
  <2>1. Is(Null, j) = 0 /\ Is(n, j) \in Int /\ ref[j] \in Int
    BY <1>1, HasParts
  <2>2. ref'[j] = ref[j] + Is(n, j)
    BY <1>1 DEF iget, Is
  <2> QED
    BY <2>1, <2>2
<1> QED
  BY <1>1, <1>2 DEF Gained, iget

\* A system call starts.
LEMMA BeginStep ==
    ASSUME IInv, NEW p \in Procs, NEW c \in Calls, Begin(p, c)
    PROVE  IInv'
<1> DEFINE s == Start(p)
<1>1. /\ pc[p] = "idle" /\ call' = [call EXCEPT ![p] = c]
      /\ UNCHANGED <<disk, durable, cwd>>
  BY DEF Begin, At, begin_op
<1>2. /\ Shape /\ ip[p] = Null /\ dp[p] = Null /\ todo[p] \in Seq(Entries)
      /\ call'[p] = c /\ s \in Inums /\ s \in Pointer /\ Null \in Pointer
      /\ s # Null /\ ic \in Cache
  <2>1. Shape /\ ip[p] = Null /\ dp[p] = Null /\ todo[p] \in Seq(Entries)
    BY <1>1, HereIdle
  <2>2. s \in Inums
    BY <2>1, StartType
  <2> QED
    BY <1>1, <2>1, <2>2, InumFacts, CacheOps DEF Shape
<1> HIDE DEF s
<1>3. CASE /\ c.op = "close" /\ ofile[p] # NoFile
           /\ ofile' = [ofile EXCEPT ![p] = NoFile]
           /\ PutThen(p, <<ofile[p].ip>>, "end")
           /\ UNCHANGED <<icache, todo, ip, dp>>
  BY <1>1, <1>3, BeginClose DEF icache
<1>4. CASE /\ c.op = "write" /\ ofile[p].writable /\ Goto(p, "write_ip")
           /\ UNCHANGED <<icache, ofile, todo, ip, dp>>
  <2>1. World
    BY <1>1, <1>2, <1>4 DEF World, Shape, icache
  <2>2. NewCall(p, c, Null, Null, todo[p])
    BY <1>1, <1>2, <1>4 DEF NewCall, Shape
  <2>3. Ready(p, c, "write_ip", Null, Null, todo[p])
    BY <1>2, <1>4 DEF Ready, Locations, Putting, IpAt, HasIp, HasDp, OpAt, Named
  <2>4. Gained(Null, Null)
    BY <1>2, <1>4, HasParts DEF Gained, Shape, icache
  <2> QED
    BY <1>1, <1>4, <2>1, <2>2, <2>3, <2>4, BeginAt, Zenon
<1>5. CASE /\ c.op \in {"unlink", "create"} /\ SetDp(p, s) /\ ref' = iget(s)
           /\ ic' = Recycled(ic, s) /\ todo' = [todo EXCEPT ![p] = c.path]
           /\ Goto(p, "nameiparent") /\ UNCHANGED <<lock, ofile, ip>>
  <2>1. Gained(Null, s) /\ ref' \in [Inums -> Int]
    BY <1>2, <1>5, GainOne
  <2>2. World
    BY <1>1, <1>2, <1>5, <2>1, CacheOps DEF World, Shape
  <2>3. NewCall(p, c, Null, s, c.path)
    BY <1>1, <1>2, <1>5 DEF NewCall, Shape, SetDp
  <2>4. c.path \in Seq(Entries)
    BY <1>5, FsAssumption
  <2>5. Ready(p, c, "nameiparent", Null, s, c.path)
    BY <1>2, <1>5, <2>4 DEF Ready, Locations, Putting, IpAt, HasIp, HasDp, OpAt, Named
  <2> QED
    BY <1>1, <1>5, <2>1, <2>2, <2>3, <2>5, BeginAt, Zenon
<1>6. CASE /\ c.op \in {"open", "link", "chdir"} /\ SetIp(p, s) /\ ref' = iget(s)
           /\ ic' = Recycled(ic, s) /\ todo' = [todo EXCEPT ![p] = c.path]
           /\ Goto(p, NextElem(p)) /\ UNCHANGED <<lock, ofile, dp>>
  <2>1. Gained(s, Null) /\ ref' \in [Inums -> Int]
    BY <1>2, <1>6, GainOne
  <2>2. World
    BY <1>1, <1>2, <1>6, <2>1, CacheOps DEF World, Shape
  <2>3. NewCall(p, c, s, Null, c.path)
    BY <1>1, <1>2, <1>6 DEF NewCall, Shape, SetIp
  <2>4. c.path \in Seq(Entries)
    BY <1>6, FsAssumption
  <2>5. NextElem(p) = IF c.path = <<>> THEN AfterNamei(c.op) ELSE "namei"
    BY <1>1, <1>2, <1>6 DEF NextElem, Shape
  <2>6. Ready(p, c, NextElem(p), s, Null, c.path)
    BY <1>2, <1>6, <2>4, <2>5, AfterPath
       DEF Ready, Locations, Putting, IpAt, HasIp, HasDp, OpAt, Named
  <2> QED
    BY <1>1, <1>6, <2>1, <2>2, <2>3, <2>6, BeginAt, Zenon
<1> QED
  BY <1>3, <1>4, <1>5, <1>6 DEF Begin, s

-----------------------------------------------------------------------------
(* Boot, steps and the theorem *)

\* Memory after boot, over some image of the disk.
Booted ==
    /\ disk \in Image /\ durable \in Image
    /\ ref = BootRef /\ ic = Each(NoCopy)
    /\ cwd = All(ROOTINO) /\ ofile = All(NoFile)
    /\ pc = All("idle") /\ call = All(NoCall) /\ todo = All(<<>>)
    /\ ip = All(Null) /\ dp = All(Null)
    /\ put = All(<<>>) /\ then = All("idle")

\* After boot the only pointers are the current directories.
LEMMA BootInv == Booted => IInv
<1> SUFFICES ASSUME Booted PROVE IInv
  OBVIOUS
<1>1. ASSUME NEW p \in Procs
      PROVE  /\ pc[p] = "idle" /\ then[p] = "idle" /\ put[p] = <<>> /\ ip[p] = Null
             /\ dp[p] = Null /\ call[p] = NoCall /\ todo[p] = <<>>
             /\ ofile[p] = NoFile /\ cwd[p] = ROOTINO
  BY DEF Booted, All
<1>2. NoFile \in OpenFile /\ NoFile.ip = Null /\ ~NoFile.writable
  BY InumFacts DEF NoFile, OpenFile
<1>3. Shape
  <2>1. ref \in [Inums -> Int]
    BY FsAssumption, FS_CardinalityType DEF Booted, BootRef
  <2>2. ic \in [Inums -> [valid : BOOLEAN, type : Types, nlink : Int]]
    BY DEF Booted, Each, NoCopy, Types
  <2>3. /\ ofile \in [Procs -> [ip : Pointer, writable : BOOLEAN]]
        /\ cwd \in [Procs -> Inums]
        /\ pc \in [Procs -> Locations] /\ then \in [Procs -> Locations]
        /\ call \in [Procs -> Calls \cup {NoCall}]
    BY <1>2, InumFacts DEF Booted, All, OpenFile, Locations
  <2>4. todo \in [Procs -> Seq(Entries)] /\ put \in [Procs -> Seq(Inums)]
        /\ ip \in [Procs -> Pointer] /\ dp \in [Procs -> Pointer]
    BY InumFacts DEF Booted, All
  <2> QED
    BY <2>1, <2>2, <2>3, <2>4 DEF Shape, Booted
<1>4. RowInv
  BY <1>1, <1>2 DEF RowInv, Row, Loc, Putting, IpAt, HasIp, HasDp, OpAt, Named
<1>5. RefCount
  <2> DEFINE Pointing(i) == {y \in Procs \X Places : Points(y[1], y[2]) = i}
  <2>1. ASSUME NEW p \in Procs, NEW k \in Places
        PROVE  Points(p, k) = IF k = "cwd" THEN ROOTINO ELSE Null
    <3>1. Nth(<<>>, 1) = Null /\ Nth(<<>>, 2) = Null
      BY DEF Nth
    <3> QED
      BY <1>1, <1>2, <3>1 DEF Points, CwdGivenUp, Places
  <2>2. Pointing(ROOTINO) = Procs \X {"cwd"}
    BY <2>1, InumFacts DEF Places
  <2>3. ASSUME NEW i \in Inums, i # ROOTINO PROVE Pointing(i) = {}
    BY <2>1, <2>3, InumFacts
  <2>4. Cardinality(Procs \X {"cwd"}) = Cardinality(Procs)
    <3>1. IsFiniteSet({"cwd"}) /\ Cardinality({"cwd"}) = 1
      BY FS_Singleton
    <3>2. Cardinality(Procs \X {"cwd"}) = Cardinality(Procs) * Cardinality({"cwd"})
      BY <3>1, FsAssumption, FS_Product
    <3>3. Cardinality(Procs) \in Nat
      BY FsAssumption, FS_CardinalityType
    <3> QED
      BY <3>1, <3>2, <3>3
  <2>5. ASSUME NEW i \in Inums PROVE ref[i] = Cardinality(Pointing(i))
    <3>1. ref[i] = IF i = ROOTINO THEN Cardinality(Procs) ELSE 0
      BY DEF Booted, BootRef
    <3>2. Cardinality({}) = 0
      BY FS_EmptySet
    <3> HIDE DEF Pointing
    <3> QED
      BY <2>2, <2>3, <2>4, <3>1, <3>2
  <2> QED
    BY <2>5 DEF RefCount
<1> QED
  BY <1>3, <1>4, <1>5 DEF IInv

\* mkfs writes an image.
LEMMA MkfsType == MkfsImage \in Image
<1> DEFINE b == Min(DBlocks)
           c == Min(DBlocks \ {b})
           root == [NoEntries EXCEPT !["."] = ROOTINO, ![".."] = ROOTINO,
                                     ![Program] = ROOTINO + 1]
<1>1. DBlocks # {} /\ b \in DBlocks
  <2>1. DBlocks # {}
    BY FsAssumption, FS_EmptySet
  <2> QED
    BY <2>1, FsAssumption, MinIn
<1> HIDE DEF b
<1>2. c \in DBlocks
  <2>1. DBlocks # {b}
    BY FsAssumption, FS_Singleton
  <2>2. DBlocks \ {b} # {} /\ DBlocks \ {b} \in SUBSET Nat
    BY <1>1, <2>1, FsAssumption
  <2> QED
    BY <2>2, MinIn
<1> HIDE DEF c
<1>3. NoEntries \in [Entries -> Pointer] /\ ROOTINO \in Pointer /\ ROOTINO + 1 \in Pointer
  BY InumFacts, FsAssumption DEF NoEntries, ROOTINO, Pointer, Inums
<1>4. root \in [Entries -> Pointer]
  BY <1>3
<1> HIDE DEF root
<1>5. /\ [type |-> "T_DIR", nlink |-> 1, ents |-> root, addrs |-> {b}] \in Inode
      /\ [type |-> "T_FILE", nlink |-> 1, ents |-> NoEntries, addrs |-> {c}] \in Inode
      /\ FreeInode \in Inode
  BY <1>1, <1>2, <1>3, <1>4 DEF Inode, Types, FreeInode
<1>6. MkfsImage = [inode |-> [i \in Inums |->
            CASE i = ROOTINO -> [type |-> "T_DIR", nlink |-> 1,
                                 ents |-> root, addrs |-> {b}]
              [] i = ROOTINO + 1 -> [type |-> "T_FILE", nlink |-> 1,
                                     ents |-> NoEntries, addrs |-> {c}]
              [] OTHER -> FreeInode],
        bitmap |-> {b, c}]
  BY DEF MkfsImage, b, c, root
<1> QED
  BY <1>1, <1>2, <1>5, <1>6 DEF Image, Inode

\* Every step keeps the invariant.
LEMMA NextInv ==
    ASSUME IInv, [Next]_vars
    PROVE  IInv'
<1>1. ASSUME NEW p \in Procs, Step(p) PROVE IInv'
  BY <1>1, EndStep, IputStep, UnrefStep, NameiStep, NameiparentStep, NoParentStep,
     LinkIncStep, LinkDirStep, LinkBadStep, UnlinkDpStep, UnlinkIpStep, UnlinkDecStep,
     CreateDpStep, OpenStep, CreateNewStep, GotStep, ChdirIpStep, ChdirSetStep,
     WriteStep DEF Step
<1>2. ASSUME NEW p \in Procs, NEW c \in Calls, Begin(p, c) PROVE IInv'
  BY <1>2, BeginStep
<1>3. CASE Crash
  <2>1. (Booted => IInv)'
    BY BootInv, PTL
  <2>2. Booted'
    BY <1>3 DEF Crash, Booted, IInv, Shape, Image, Each, All, BootRef, NoCopy, NoFile,
                NoCall, Null, ROOTINO, Inums, Entries, Pointer, Types
  <2> QED
    BY <2>1, <2>2
<1>4. CASE UNCHANGED vars
  BY <1>4, StillStep DEF vars, log, icache, files, locals
<1> QED
  BY <1>1, <1>2, <1>3, <1>4 DEF Next

\* The reference count of an inode in the cache is exactly the number of
\* pointers to it: open files, current directories, and what the calls in
\* progress hold or are about to put; for every number of processes and
\* inodes, every set of system calls and a crash at any moment (fs.c iget(),
\* idup(), iput()).
THEOREM RefCountAlways == Spec => []RefCount
<1>1. Init => IInv
  BY BootInv, MkfsType DEF Init, Booted
<1>2. IInv /\ [Next]_vars => IInv'
  BY NextInv
<1>3. IInv => RefCount
  BY DEF IInv
<1> QED
  BY <1>1, <1>2, <1>3, PTL DEF Spec

-----------------------------------------------------------------------------
(* Pointers and reference counts *)

\* The pointers of a process, one by one.
LEMMA PtIs ==
    ASSUME NEW p
    PROVE  /\ Pt(p, "cwd") = IF CwdGivenUp(p) THEN Null ELSE cwd[p]
           /\ Pt(p, "ofile") = ofile[p].ip
           /\ Pt(p, "ip") = ip[p] /\ Pt(p, "dp") = dp[p]
           /\ Pt(p, "put1") = IF pc[p] = "unref" THEN Null ELSE Nth(put[p], 1)
           /\ Pt(p, "put2") = Nth(put[p], 2)
BY DEF Pt, Points

\* The same as a set.
LEMMA PtsIs ==
    ASSUME NEW p
    PROVE  Pts(p) = {IF CwdGivenUp(p) THEN Null ELSE cwd[p], ofile[p].ip, ip[p], dp[p],
                     IF pc[p] = "unref" THEN Null ELSE Nth(put[p], 1), Nth(put[p], 2)}
<1>1. Pts(p) = {Pt(p, "cwd"), Pt(p, "ofile"), Pt(p, "ip"), Pt(p, "dp"), Pt(p, "put1"),
                Pt(p, "put2")}
  BY DEF Pts, Places
<1> QED
  BY <1>1, PtIs

\* And after a step.
LEMMA PtsNext ==
    ASSUME NEW p
    PROVE  (Pts(p) = {IF CwdGivenUp(p) THEN Null ELSE cwd[p], ofile[p].ip, ip[p], dp[p],
                      IF pc[p] = "unref" THEN Null ELSE Nth(put[p], 1), Nth(put[p], 2)})'
<1>1. Pts(p) = {IF CwdGivenUp(p) THEN Null ELSE cwd[p], ofile[p].ip, ip[p], dp[p],
                IF pc[p] = "unref" THEN Null ELSE Nth(put[p], 1), Nth(put[p], 2)}
  BY PtsIs
<1> QED
  BY <1>1, PTL

\* Every pointer is counted.
LEMMA RefIsCard ==
    ASSUME RefCount, NEW i \in Inums
    PROVE  /\ IsFiniteSet({y \in Procs \X Places : Points(y[1], y[2]) = i})
           /\ ref[i] = Cardinality({y \in Procs \X Places : Points(y[1], y[2]) = i})
<1>1. IsFiniteSet(Places)
  <2>1. Places = {"cwd", "ofile", "ip"} \cup {"dp", "put1", "put2"}
    BY DEF Places
  <2>2. ASSUME NEW a, NEW b, NEW c PROVE IsFiniteSet({a, b, c})
    <3>1. IsFiniteSet({a}) /\ IsFiniteSet({b}) /\ IsFiniteSet({c})
      BY FS_Singleton
    <3>2. IsFiniteSet({a} \cup {b})
      BY <3>1, FS_Union, Zenon
    <3>3. IsFiniteSet(({a} \cup {b}) \cup {c})
      BY <3>1, <3>2, FS_Union, Zenon
    <3>4. ({a} \cup {b}) \cup {c} = {a, b, c}
      OBVIOUS
    <3> QED
      BY <3>3, <3>4
  <2>3. IsFiniteSet({"cwd", "ofile", "ip"}) /\ IsFiniteSet({"dp", "put1", "put2"})
    BY <2>2, Zenon
  <2>4. IsFiniteSet({"cwd", "ofile", "ip"} \cup {"dp", "put1", "put2"})
    BY <2>3, FS_Union, Zenon
  <2> QED
    BY <2>1, <2>4
<1>2. IsFiniteSet(Procs \X Places)
  BY <1>1, FsAssumption, FS_Product
<1>3. {y \in Procs \X Places : Points(y[1], y[2]) = i} \in SUBSET (Procs \X Places)
  OBVIOUS
<1>4. IsFiniteSet({y \in Procs \X Places : Points(y[1], y[2]) = i})
  BY <1>2, <1>3, FS_Subset, Zenon
<1> QED
  BY <1>4 DEF RefCount

\* An inode without references has no pointer to it, one with one reference
\* has one.
LEMMA Referenced ==
    ASSUME RefCount, NEW i \in Inums, NEW p \in Procs, NEW k \in Places, Points(p, k) = i
    PROVE  /\ ref[i] \in Nat /\ ref[i] # 0
           /\ ref[i] = 1 => \A q \in Procs, m \in Places :
                                Points(q, m) = i => q = p /\ m = k
<1> DEFINE S == {y \in Procs \X Places : Points(y[1], y[2]) = i}
<1>1. IsFiniteSet(S) /\ ref[i] = Cardinality(S)
  BY RefIsCard
<1>2. <<p, k>> \in S
  OBVIOUS
<1>3. Cardinality(S) \in Nat /\ Cardinality(S) # 0
  <2>1. Cardinality(S) \in Nat
    BY <1>1, FS_CardinalityType
  <2>2. S # {}
    BY <1>2
  <2> HIDE DEF S
  <2> QED
    BY <1>1, <2>1, <2>2, FS_EmptySet
<1>4. ASSUME ref[i] = 1, NEW q \in Procs, NEW m \in Places, Points(q, m) = i
      PROVE  q = p /\ m = k
  <2>1. <<q, m>> \in S
    BY <1>4
  <2>2. \E x : S = {x}
    <3> HIDE DEF S
    <3> QED
      BY <1>1, <1>4, FS_Singleton
  <2>3. <<q, m>> = <<p, k>>
    <3> HIDE DEF S
    <3> QED
      BY <1>2, <2>1, <2>2
  <2> QED
    BY <2>3
<1> QED
  BY <1>1, <1>3, <1>4

-----------------------------------------------------------------------------
(* A step of one process *)

\* Nothing that belongs to another process changes.
Others(p) ==
    \A q \in Procs \ {p} :
        /\ pc'[q] = pc[q] /\ then'[q] = then[q] /\ put'[q] = put[q]
        /\ ip'[q] = ip[q] /\ dp'[q] = dp[q] /\ call'[q] = call[q]
        /\ todo'[q] = todo[q] /\ ofile'[q] = ofile[q] /\ cwd'[q] = cwd[q]

\* Pointers, place in the call and locks of a process are as before.
Same(q) ==
    /\ Pts(q)' = Pts(q) /\ L(q)' = L(q) /\ Linking(q)' = Linking(q)
    /\ name(q)' = name(q) /\ (pc[q] \in Putting)' = (pc[q] \in Putting)
    /\ put'[q] = put[q] /\ ip'[q] = ip[q] /\ dp'[q] = dp[q] /\ call'[q] = call[q]
    /\ todo'[q] = todo[q]
    /\ \A i : Holds(q, i)' = Holds(q, i) /\ Owes(q, i)' = Owes(q, i)

\* A process whose variables a step leaves alone keeps all of that.
LEMMA OthersSame ==
    ASSUME NEW p, Others(p), NEW q \in Procs \ {p}
    PROVE  Same(q)
<1>1. /\ pc'[q] = pc[q] /\ then'[q] = then[q] /\ put'[q] = put[q]
      /\ ip'[q] = ip[q] /\ dp'[q] = dp[q] /\ call'[q] = call[q]
      /\ todo'[q] = todo[q] /\ ofile'[q] = ofile[q] /\ cwd'[q] = cwd[q]
  BY DEF Others
<1>2. Pts(q)' = Pts(q)
  BY <1>1 DEF Pts, Pt, Points, CwdGivenUp, Nth
<1>3. L(q)' = L(q) /\ name(q)' = name(q) /\ (pc[q] \in Putting)' = (pc[q] \in Putting)
  BY <1>1 DEF L, Loc, name, Putting
<1>4. Linking(q)' = Linking(q)
  BY <1>1, <1>3 DEF Linking
<1>5. \A i : Holds(q, i)' = Holds(q, i) /\ Owes(q, i)' = Owes(q, i)
  BY <1>1, <1>3, <1>4 DEF Holds, Owes, HoldsDp, HoldsIp
<1> QED
  BY <1>1, <1>2, <1>3, <1>4, <1>5 DEF Same

\* What a step of p must leave of the inodes for the sake of the others: the
\* types of those they point to, the new one of create(), and the entries of
\* the directories they hold.
Kept(p) ==
    \A q \in Procs \ {p} : \A i \in Pts(q) :
        i # Null => Ino(i)'.type = Ino(i).type
NewKept(p) ==
    \A q \in Procs \ {p} : L(q) = "create_new" =>
        Ino(ip[q])' = Ino(ip[q]) /\ ip[q] \notin Pts(p)'
EntsKept(p) ==
    \A i \in Inums : lock[i] \notin {Nobody, p} => Ino(i)'.ents = Ino(i).ents

\* What p knows of its own inodes.
OwnP(p) == LiveP(p) /\ NewP(p) /\ DirP(p) /\ FileP(p) /\ EntryP(p)

\* ip and dp are among the pointers.
LEMMA Locals ==
    ASSUME NEW p
    PROVE  /\ ip[p] \in Pts(p) /\ dp[p] \in Pts(p) /\ ofile[p].ip \in Pts(p)
           /\ ~CwdGivenUp(p) => cwd[p] \in Pts(p)
           /\ pc[p] # "unref" => Nth(put[p], 1) \in Pts(p)
           /\ Nth(put[p], 2) \in Pts(p)
BY PtsIs

\* The types of the locals.
LEMMA LocalsType ==
    ASSUME IInv, NEW p \in Procs
    PROVE  /\ Pts(p) \subseteq Pointer /\ ip[p] \in Pointer /\ dp[p] \in Pointer
           /\ L(p) \in Locations
           /\ ip[p] # Null <=> IpAt(L(p), call[p].op)
           /\ dp[p] # Null <=> L(p) \in HasDp
           /\ L(p) \in HoldsDp \cup InDir => dp[p] \in Inums
           /\ L(p) \in HoldsIp \cup {"create_new"} \/ Linking(p) => ip[p] \in Inums
           /\ Linking(p) => call[p].op = "link"
<1>1. /\ Shape /\ Row(pc[p], then[p], put[p], ip[p], dp[p], call[p], todo[p], ofile[p])
  BY DEF IInv, RowInv
<1>2. ip[p] \in Pointer /\ dp[p] \in Pointer /\ L(p) \in Locations
  BY <1>1 DEF Shape, L, Loc
<1>3. Pts(p) \subseteq Pointer
  <2>1. put[p] \in Seq(Inums) /\ Nth(put[p], 1) \in Pointer /\ Nth(put[p], 2) \in Pointer
    BY <1>1, NthType DEF Shape
  <2>2. cwd[p] \in Inums /\ ofile[p].ip \in Pointer
    BY <1>1 DEF Shape
  <2> QED
    BY <1>2, <2>1, <2>2, PtsIs, InumFacts
<1>4. (ip[p] # Null <=> IpAt(L(p), call[p].op)) /\ (dp[p] # Null <=> L(p) \in HasDp)
  BY <1>1 DEF Row, L
<1>5. L(p) \in HoldsDp \cup InDir => dp[p] \in Inums
  BY <1>2, <1>4, InumFacts DEF HoldsDp, InDir, HasDp
<1>6. L(p) \in HoldsIp \cup {"create_new"} \/ Linking(p) => ip[p] \in Inums
  BY <1>2, <1>4, InumFacts DEF HoldsIp, IpAt, HasIp, Linking
<1> QED
  BY <1>2, <1>3, <1>4, <1>5, <1>6 DEF Linking

\* A step of a call changes nothing that belongs to another process.
LEMMA StepOthers ==
    ASSUME Shape, NEW p \in Procs, Step(p)
    PROVE  Others(p)
<1> SUFFICES ASSUME NEW q \in Procs, q # p
             PROVE  /\ pc'[q] = pc[q] /\ then'[q] = then[q] /\ put'[q] = put[q]
                    /\ ip'[q] = ip[q] /\ dp'[q] = dp[q] /\ call'[q] = call[q]
                    /\ todo'[q] = todo[q] /\ ofile'[q] = ofile[q] /\ cwd'[q] = cwd[q]
  BY DEF Others
<1>0. /\ pc \in [Procs -> Locations] /\ then \in [Procs -> Locations]
      /\ put \in [Procs -> Seq(Inums)] /\ ip \in [Procs -> Pointer]
      /\ dp \in [Procs -> Pointer] /\ call \in [Procs -> Calls \cup {NoCall}]
      /\ todo \in [Procs -> Seq(Entries)] /\ cwd \in [Procs -> Inums]
      /\ ofile \in [Procs -> [ip : Pointer, writable : BOOLEAN]]
  BY DEF Shape
<1> USE <1>0 DEF Goto, PutThen, SetIp, SetDp, log, icache, files, locals
<1>1. CASE end_op(p)
  BY <1>1 DEF end_op
<1>2. CASE iput(p)
  BY <1>2 DEF iput
<1>3. CASE unref(p)
  BY <1>3 DEF unref
<1>4. CASE namei(p)
  BY <1>4 DEF namei, NamexFailed
<1>5. CASE nameiparent(p)
  BY <1>5 DEF nameiparent, NamexFailed
<1>6. CASE NoParent(p)
  BY <1>6 DEF NoParent
<1>7. CASE iunlockput_dp(p)
  BY <1>7 DEF iunlockput_dp
<1>8. CASE link_inc(p)
  BY <1>8 DEF link_inc
<1>9. CASE link_dir(p)
  BY <1>9 DEF link_dir
<1>10. CASE link_bad(p)
  BY <1>10 DEF link_bad
<1>11. CASE unlink_dp(p)
  BY <1>11 DEF unlink_dp
<1>12. CASE unlink_ip(p)
  BY <1>12 DEF unlink_ip
<1>13. CASE unlink_dec(p)
  BY <1>13 DEF unlink_dec
<1>14. CASE create_dp(p)
  BY <1>14 DEF create_dp
<1>15. CASE create_old(p)
  BY <1>15 DEF create_old
<1>16. CASE create_new(p)
  BY <1>16 DEF create_new
<1>17. CASE open_ip(p)
  BY <1>17 DEF open_ip
<1>18. CASE got(p)
  BY <1>18 DEF got
<1>19. CASE chdir_ip(p)
  BY <1>19 DEF chdir_ip
<1>20. CASE chdir_set(p)
  BY <1>20 DEF chdir_set
<1>21. CASE write_ip(p)
  BY <1>21 DEF write_ip
<1> QED
  BY <1>1, <1>2, <1>3, <1>4, <1>5, <1>6, <1>7, <1>8, <1>9, <1>10, <1>11, <1>12,
     <1>13, <1>14, <1>15, <1>16, <1>17, <1>18, <1>19, <1>20, <1>21 DEF Step

\* Nor does the start of one.
LEMMA BeginOthers ==
    ASSUME Shape, NEW p \in Procs, NEW c \in Calls, Begin(p, c)
    PROVE  Others(p)
<1> SUFFICES ASSUME NEW q \in Procs, q # p
             PROVE  /\ pc'[q] = pc[q] /\ then'[q] = then[q] /\ put'[q] = put[q]
                    /\ ip'[q] = ip[q] /\ dp'[q] = dp[q] /\ call'[q] = call[q]
                    /\ todo'[q] = todo[q] /\ ofile'[q] = ofile[q] /\ cwd'[q] = cwd[q]
  BY DEF Others
<1>0. /\ pc \in [Procs -> Locations] /\ then \in [Procs -> Locations]
      /\ put \in [Procs -> Seq(Inums)] /\ ip \in [Procs -> Pointer]
      /\ dp \in [Procs -> Pointer] /\ call \in [Procs -> Calls \cup {NoCall}]
      /\ todo \in [Procs -> Seq(Entries)] /\ cwd \in [Procs -> Inums]
      /\ ofile \in [Procs -> [ip : Pointer, writable : BOOLEAN]]
  BY DEF Shape
<1> QED
  BY <1>0 DEF Begin, Goto, PutThen, SetIp, SetDp, icache

\* What a step of p does to the locks: it gives up what it no longer holds,
\* takes only what is free, and leaves valid what is locked.
LockStep(p) ==
    /\ lock' \in [Inums -> Procs \cup {Nobody}]
    /\ \A i \in Inums :
        /\ lock'[i] = IF Holds(p, i)' THEN p
                      ELSE IF lock[i] = p THEN Nobody ELSE lock[i]
        /\ Holds(p, i)' => lock[i] \in {p, Nobody} /\ ic'[i].valid
        /\ lock[i] \notin {p, Nobody} => ic'[i].valid

\* Then the locks are still those of the processes that hold them.
LEMMA LocksKept ==
    ASSUME Locks, NEW p \in Procs, Others(p), LockStep(p)
    PROVE  Locks'
<1>1. ASSUME NEW i \in Inums, NEW q \in Procs
      PROVE  lock'[i] = q <=> Holds(q, i)'
  <2>0. p # Nobody /\ q # Nobody
    BY FsAssumption
  <2>1. CASE q = p
    BY <2>0, <2>1 DEF LockStep
  <2>2. CASE q # p
    <3>1. Holds(q, i)' = Holds(q, i)
      BY <2>2, OthersSame DEF Same
    <3>2. lock[i] = q <=> Holds(q, i)
      BY DEF Locks
    <3> QED
      BY <2>0, <2>2, <3>1, <3>2 DEF LockStep
  <2> QED
    BY <2>1, <2>2
<1>2. ASSUME NEW i \in Inums, lock'[i] # Nobody
      PROVE  ic'[i].valid
  BY <1>2 DEF LockStep
<1>3. (\A i \in Inums, q \in Procs : lock[i] = q <=> Holds(q, i))'
  BY <1>1
<1>4. (\A i \in Inums : lock[i] # Nobody => ic[i].valid)'
  BY <1>2
<1> QED
  BY <1>3, <1>4 DEF Locks, LockStep

\* What the other calls know of their inodes is still so.
LEMMA CallsKept ==
    ASSUME IInv, Locks, CallsSound, NEW p \in Procs, Others(p), Kept(p), NewKept(p),
           EntsKept(p), OwnP(p)'
    PROVE  CallsSound'
<1> SUFFICES ASSUME NEW q \in Procs PROVE OwnP(q)'
  BY DEF CallsSound, OwnP
<1>1. CASE q = p
  BY <1>1
<1>2. CASE q # p
  <2>0. Same(q) /\ q \in Procs \ {p}
    BY <1>2, OthersSame
  <2>1. LiveP(q) /\ NewP(q) /\ DirP(q) /\ FileP(q) /\ EntryP(q)
    BY DEF CallsSound
  <2>2. \A i \in Pts(q) : i # Null => Ino(i)'.type = Ino(i).type
    BY <2>0 DEF Kept
  <2>3. LiveP(q)'
    BY <2>0, <2>1, <2>2 DEF LiveP, Same
  <2>4. NewP(q)'
    <3>1. SUFFICES ASSUME L(q) = "create_new"
                   PROVE  /\ Ino(ip[q])'.type = call[q].type
                          /\ Ino(ip[q])'.nlink = 0 /\ Ino(ip[q])'.ents = NoEntries
                          /\ ip[q] # dp[q] /\ \A r \in Procs \ {q} : ip[q] \notin Pts(r)'
      BY <2>0 DEF NewP, Same
    <3>2. Ino(ip[q])' = Ino(ip[q]) /\ ip[q] \notin Pts(p)'
      BY <2>0, <3>1 DEF NewKept
    <3>3. ASSUME NEW r \in Procs \ {q} PROVE ip[q] \notin Pts(r)'
      <4>1. ip[q] \notin Pts(r)
        BY <2>1, <3>1 DEF NewP
      <4>2. r # p => Pts(r)' = Pts(r)
        BY OthersSame DEF Same
      <4> QED
        BY <3>2, <4>1, <4>2
    <3> QED
      BY <2>1, <3>1, <3>2, <3>3 DEF NewP
  <2>5. DirP(q)' /\ FileP(q)'
    <3>1. dp[q] \in Pts(q) /\ ip[q] \in Pts(q)
      BY Locals
    <3>2. L(q) \in InDir => dp[q] \in Inums
      BY LocalsType
    <3>3. Linking(q) => ip[q] \in Inums
      BY LocalsType
    <3> QED
      BY <2>0, <2>1, <2>2, <3>1, <3>2, <3>3, InumFacts DEF DirP, FileP, Same, Ino
  <2>6. EntryP(q)'
    <3>1. L(q) \in HoldsDp => dp[q] \in Inums
      BY LocalsType
    <3>2. ASSUME L(q) \in HoldsDp
          PROVE  Ino(dp[q])'.ents = Ino(dp[q]).ents
      <4>1. Holds(q, dp[q])
        BY <3>2 DEF Holds
      <4>2. lock[dp[q]] = q /\ q # Nobody
        BY <3>1, <3>2, <4>1, FsAssumption DEF Locks
      <4> QED
        BY <1>2, <2>0, <3>1, <3>2, <4>2 DEF EntsKept, Ino, Same
    <3> QED
      BY <2>0, <2>1, <3>2 DEF EntryP, Same, HoldsDp
  <2> QED
    BY <2>3, <2>4, <2>5, <2>6 DEF OwnP
<1> QED
  BY <1>1, <1>2

-----------------------------------------------------------------------------
(* Steps that leave the disk alone *)

\* Inodes in use that no create() is making.
Safe(n) == n = Null \/ (n \in Inums /\ Ino(n).type # "free" /\ n \notin Making)

\* The pointers of p after a step.
Gets(p, n) == Pts(p)' \subseteq Pts(p) \cup {n, Null}

\* The cache after ilock() and iget().
CopyStep ==
    \A i \in Inums :
        \/ ic'[i] = ic[i]
        \/ ic'[i] = Copy(i) /\ Ino(i).type # "free"
        \/ ref[i] = 0 /\ ~ic'[i].valid

\* p does not begin or finish making an inode.
MakesSame(p) ==
    \/ L(p) # "create_new" /\ L(p)' # "create_new"
    \/ L(p)' = L(p) /\ ip'[p] = ip[p] /\ dp'[p] = dp[p] /\ call'[p] = call[p]

Quiet(p) ==
    /\ disk' = disk /\ MakesSame(p)
    /\ \A i : Owes(p, i)' => Owes(p, i)

\* The owers of an inode are finitely many.
LEMMA OwersFinite ==
    ASSUME NEW i
    PROVE  IsFiniteSet(Owers(i)) /\ Cardinality(Owers(i)) \in Nat
<1>1. Owers(i) \subseteq Procs /\ IsFiniteSet(Procs)
  BY FsAssumption DEF Owers
<1>2. IsFiniteSet(Owers(i))
  BY <1>1, FS_Subset, Zenon
<1> QED
  BY <1>2, FS_CardinalityType

\* If nobody owes more, the numbers do not grow.
LEMMA OwersLess ==
    ASSUME NEW p \in Procs, Others(p), NEW i, Owes(p, i)' => Owes(p, i)
    PROVE  /\ Owers(i)' \subseteq Owers(i)
           /\ Cardinality(Owers(i)) \in Nat /\ Cardinality(Owers(i)') \in Nat
           /\ Cardinality(Owers(i)') <= Cardinality(Owers(i))
<1>1. Owers(i)' \subseteq Owers(i)
  <2> SUFFICES ASSUME NEW q \in Procs, Owes(q, i)' PROVE Owes(q, i)
    BY DEF Owers
  <2> QED
    BY OthersSame DEF Same
<1>2. IsFiniteSet(Owers(i)) /\ Cardinality(Owers(i)) \in Nat
  BY OwersFinite
<1>3. IsFiniteSet(Owers(i)') /\ Cardinality(Owers(i)') \in Nat
  BY <1>1, <1>2, FS_Subset, FS_CardinalityType, Zenon
<1>4. Cardinality(Owers(i)') <= Cardinality(Owers(i))
  BY <1>1, <1>2, FS_Subset, Zenon
<1> QED
  BY <1>1, <1>2, <1>3, <1>4

\* The set of inodes being made changes only with create_new.
LEMMA MakingKept ==
    ASSUME NEW p \in Procs, Others(p), MakesSame(p)
    PROVE  Making' = Making
<1>1. ASSUME NEW q \in Procs, NEW i
      PROVE  (L(q) = "create_new" /\ ip[q] = i)' <=> (L(q) = "create_new" /\ ip[q] = i)
  BY OthersSame DEF Same, MakesSame
<1> QED
  BY <1>1 DEF Making

\* The image stays as it should be.
LEMMA QuietDisk ==
    ASSUME IInv, OnDisk, NEW p \in Procs, Others(p), Quiet(p)
    PROVE  OnDisk'
<1>1. Making' = Making /\ disk' = disk
  BY MakingKept DEF Quiet
<1>2. Tree(disk, Making)'
  BY <1>1 DEF OnDisk, Tree, FreeEmpty, DirsOnly, Dotted, DotDot, NoCycle, Owned
<1>3. ASSUME NEW i \in Inums
      PROVE  Covered(disk, i, Cardinality(Owers(i)))'
  <2> DEFINE n == Cardinality(NamesOf(disk, i))
             s == Cardinality(Subdirs(disk, i))
             m == disk.inode[i].nlink
             r == IF i = ROOTINO THEN 1 ELSE 0
  <2>1. m >= n + s + r + Cardinality(Owers(i))
    BY DEF OnDisk, Counts, Covered
  <2>2. n' = n /\ s' = s /\ m' = m /\ r' = r
    BY <1>1 DEF NamesOf, Subdirs, IsDir
  <2>3. m \in Int
    BY DEF IInv, Shape, Image
  <2>4. n \in Nat /\ s \in Nat /\ r \in Nat
    <3>1. IsFiniteSet(Names) /\ IsFiniteSet(Inums)
      BY FsAssumption, FS_Interval DEF Inums
    <3>2. IsFiniteSet(Inums \X Names)
      BY <3>1, FS_Product
    <3>3. NamesOf(disk, i) \subseteq Inums \X Names /\ Subdirs(disk, i) \subseteq Names
      BY DEF NamesOf, Subdirs
    <3> QED
      BY <3>1, <3>2, <3>3, FS_Subset, FS_CardinalityType
  <2>5. /\ Cardinality(Owers(i)) \in Nat /\ Cardinality(Owers(i)') \in Nat
        /\ Cardinality(Owers(i)') <= Cardinality(Owers(i))
    BY OwersLess DEF Quiet
  <2>6. SUFFICES m' >= n' + s' + r' + Cardinality(Owers(i)')
    BY DEF Covered
  <2> HIDE DEF n, s, m, r
  <2> QED
    BY <2>1, <2>2, <2>3, <2>4, <2>5
<1> QED
  BY <1>2, <1>3 DEF OnDisk, Counts

\* A copy that is valid is still that of the disk.
LEMMA QuietCache ==
    ASSUME IInv, Cached, CopyStep, disk' = disk
    PROVE  Cached'
<1> SUFFICES ASSUME NEW i \in Inums, ic'[i].valid
             PROVE  /\ Ino(i).type # "free"
                    /\ ic'[i].type = Ino(i).type /\ ic'[i].nlink = Ino(i).nlink
  BY DEF Cached, Ino
<1>1. ic[i].valid =>
        Ino(i).type # "free" /\ ic[i].type = Ino(i).type /\ ic[i].nlink = Ino(i).nlink
  BY DEF Cached
<1>2. \/ ic'[i] = ic[i]
      \/ ic'[i] = Copy(i) /\ Ino(i).type # "free"
  BY DEF CopyStep
<1> QED
  BY <1>1, <1>2 DEF Copy, Ino

\* What the calls know of their inodes is still so.
LEMMA QuietCalls ==
    ASSUME IInv, Locks, CallsSound, NEW p \in Procs, Others(p), Quiet(p),
           NEW n, Safe(n), Gets(p, n), DirP(p)', FileP(p)', EntryP(p)'
    PROVE  CallsSound'
<1>1. \A i : Ino(i)' = Ino(i)
  BY DEF Quiet, Ino
<1>2. Kept(p) /\ EntsKept(p)
  BY <1>1 DEF Kept, EntsKept
<1>3. NewKept(p)
  <2> SUFFICES ASSUME NEW q \in Procs \ {p}, L(q) = "create_new"
               PROVE  ip'[q] = ip[q] /\ ip[q] \notin Pts(p)'
    BY <1>1 DEF NewKept, Quiet, Ino
  <2>1. ip[q] \in Inums /\ ip'[q] = ip[q]
    BY LocalsType, OthersSame DEF Same
  <2>2. ip[q] \notin Pts(p) /\ ip[q] # Null
    BY <2>1, InumFacts DEF CallsSound, NewP
  <2>3. ip[q] # n
    BY <2>1, <2>2 DEF Safe, Making
  <2> QED
    BY <2>1, <2>2, <2>3 DEF Gets
<1>4. LiveP(p)'
  BY <1>1, InumFacts DEF Gets, CallsSound, LiveP, Safe
<1>5. NewP(p)'
  <2>1. CASE L(p)' # "create_new"
    BY <2>1 DEF NewP
  <2>2. CASE L(p)' = L(p) /\ ip'[p] = ip[p] /\ dp'[p] = dp[p] /\ call'[p] = call[p]
    <3>1. NewP(p) /\ \A q \in Procs \ {p} : Pts(q)' = Pts(q)
      BY OthersSame DEF Same, CallsSound
    <3> QED
      BY <2>2, <3>1 DEF NewP, Ino, Quiet
  <2> QED
    BY <2>1, <2>2 DEF Quiet, MakesSame
<1> QED
  BY <1>2, <1>3, <1>4, <1>5, CallsKept DEF OwnP

\* What a quiet step of p does.
QuietStep(p, n) ==
    /\ Others(p) /\ Quiet(p) /\ CopyStep /\ LockStep(p) /\ Safe(n) /\ Gets(p, n)
    /\ (DirP(p) /\ FileP(p) /\ EntryP(p) /\ Control)' /\ durable' = durable

\* Such a step preserves the invariant.
LEMMA QuietInv ==
    ASSUME IInv, DiskInv, NEW p \in Procs, NEW n, QuietStep(p, n)
    PROVE  DiskInv'
<1>1. Cached /\ Locks /\ CallsSound /\ OnDisk /\ Durable /\ disk' = disk
  BY DEF DiskInv, QuietStep, Quiet
<1>2. Cached' /\ Locks' /\ CallsSound' /\ OnDisk' /\ Control'
  BY <1>1, QuietCache, LocksKept, QuietCalls, QuietDisk DEF QuietStep
<1>3. Durable'
  BY <1>1 DEF QuietStep, Durable, Tree, FreeEmpty, DirsOnly, Dotted, DotDot, NoCycle, Owned,
      Covered, NamesOf, Subdirs, IsDir
<1> QED
  BY <1>2, <1>3 DEF DiskInv

-----------------------------------------------------------------------------
(* What a process finds in its inodes *)

\* The names of an inode are finitely many.
LEMMA NamesFinite ==
    ASSUME NEW d, NEW i
    PROVE  /\ IsFiniteSet(NamesOf(d, i)) /\ Cardinality(NamesOf(d, i)) \in Nat
           /\ IsFiniteSet(Subdirs(d, i)) /\ Cardinality(Subdirs(d, i)) \in Nat
<1>1. IsFiniteSet(Names) /\ IsFiniteSet(Inums)
  BY FsAssumption, FS_Interval DEF Inums
<1>2. IsFiniteSet(Inums \X Names)
  BY <1>1, FS_Product
<1>3. NamesOf(d, i) \subseteq Inums \X Names /\ Subdirs(d, i) \subseteq Names
  BY DEF NamesOf, Subdirs
<1>4. IsFiniteSet(NamesOf(d, i)) /\ IsFiniteSet(Subdirs(d, i))
  BY <1>1, <1>2, <1>3, FS_Subset, Zenon
<1> QED
  BY <1>4, FS_CardinalityType

\* The inode that create() is making has no links yet.
LEMMA MakingEmpty ==
    ASSUME IInv, CallsSound, NEW i \in Making
    PROVE  Ino(i).nlink = 0 /\ Ino(i).ents = NoEntries /\ i \in Inums
BY DEF Making, CallsSound, NewP

\* An inode with a link is in use.
LEMMA LinkedSafe ==
    ASSUME IInv, DiskInv, NEW i \in Inums, Ino(i).nlink >= 1
    PROVE  Safe(i)
<1>1. Ino(i).type # "free"
  BY DEF DiskInv, OnDisk, Tree, FreeEmpty, FreeInode, Ino
<1>2. i \notin Making
  BY MakingEmpty DEF DiskInv
<1> QED
  BY <1>1, <1>2 DEF Safe

\* An inode with a name has a link, and so has the root.
LEMMA NamedSafe ==
    ASSUME IInv, DiskInv, NEW n \in Inums,
           n = ROOTINO \/ \E i \in Inums, e \in Names : Ino(i).ents[e] = n
    PROVE  Ino(n).nlink >= 1 /\ Safe(n)
<1> DEFINE a == Cardinality(NamesOf(disk, n))
           b == Cardinality(Subdirs(disk, n))
           c == IF n = ROOTINO THEN 1 ELSE 0
           o == Cardinality(Owers(n))
           m == Ino(n).nlink
<1>1. a \in Nat /\ b \in Nat /\ c \in Nat /\ o \in Nat
  BY NamesFinite, OwersFinite
<1>2. m >= a + b + c + o
  BY DEF DiskInv, OnDisk, Counts, Covered, Ino
<1>3. m \in Int
  BY DEF IInv, Shape, Image, Ino
<1>4. a >= 1 \/ c = 1
  <2>1. CASE \E i \in Inums, e \in Names : Ino(i).ents[e] = n
    <3>1. NamesOf(disk, n) # {}
      <4>1. PICK i \in Inums, e \in Names : Ino(i).ents[e] = n
        BY <2>1
      <4>2. <<i, e>> \in NamesOf(disk, n)
        BY <4>1 DEF NamesOf, Ino
      <4> QED
        BY <4>2
    <3>2. a # 0
      BY <3>1, NamesFinite, FS_EmptySet
    <3> HIDE DEF a
    <3> QED
      BY <1>1, <3>2
  <2>2. CASE n = ROOTINO
    BY <2>2
  <2> QED
    BY <2>1, <2>2
<1> HIDE DEF a, b, c, o
<1>5. m >= 1
  <2> HIDE DEF m
  <2> QED
    BY <1>1, <1>2, <1>3, <1>4
<1> QED
  BY <1>5, LinkedSafe

\* What lookup finds in a directory p refers to may be locked.
LEMMA LookupLive ==
    ASSUME IInv, DiskInv, NEW p \in Procs, L(p) # "create_new",
           NEW i \in Inums, i \in Pts(p), Ino(i).type = "T_DIR",
           NEW e \in Entries, e = ".." => Attached(i)
    PROVE  Safe(Ino(i).ents[e]) /\ i \notin Making
<1>1. i \notin Making
  <2> SUFFICES ASSUME NEW q \in Procs, L(q) = "create_new", ip[q] = i PROVE FALSE
    BY DEF Making
  <2>1. q # p
    OBVIOUS
  <2> QED
    BY <2>1 DEF DiskInv, CallsSound, NewP
<1>2. Ino(i).ents[e] \in Pointer
  BY DEF IInv, Shape, Image, Ino
<1>3. CASE e \in Names
  BY <1>1, <1>2, <1>3, NamedSafe, InumFacts DEF Safe
<1>4. CASE e = "."
  <2>1. Ino(i).ents[e] = i
    BY <1>1, <1>4 DEF DiskInv, OnDisk, Tree, Dotted, Ino
  <2> QED
    BY <1>1, <2>1 DEF Safe
<1>5. CASE e = ".."
  <2>1. CASE Ino(i).ents[".."] = ROOTINO
    BY <1>1, <1>5, <2>1, NamedSafe, InumFacts
  <2>2. CASE \E d \in Inums, f \in Names : Ino(d).ents[f] = i
    <3>1. PICK d \in Inums, f \in Names : Ino(d).ents[f] = i
      BY <2>2
    <3>2. Ino(i).ents[".."] = d
      BY <3>1 DEF DiskInv, OnDisk, Tree, DotDot, Ino
    <3>3. Ino(d).ents # NoEntries
      BY <3>1, InumFacts DEF NoEntries, Entries
    <3>4. Ino(d).type # "free"
      BY <3>3 DEF DiskInv, OnDisk, Tree, DirsOnly, Ino
    <3>5. d \notin Making
      BY <3>3, MakingEmpty DEF DiskInv
    <3> QED
      BY <1>1, <1>5, <3>2, <3>4, <3>5 DEF Safe
  <2> QED
    BY <1>5, <2>1, <2>2 DEF Attached
<1> QED
  BY <1>1, <1>3, <1>4, <1>5 DEF Entries

\* ilock() of an inode that p refers to reads what is on the disk.
LEMMA LockLive ==
    ASSUME IInv, DiskInv, NEW p \in Procs, NEW i \in Inums, i \in Pts(p)
    PROVE  /\ Ino(i).type # "free" /\ Copy(i).valid
           /\ Copy(i).type = Ino(i).type /\ Copy(i).nlink = Ino(i).nlink
           /\ Ilock(i) => Unbroken
<1>1. Ino(i).type # "free"
  BY InumFacts DEF DiskInv, CallsSound, LiveP
<1>2. Copy(i).valid /\ Copy(i).type = Ino(i).type /\ Copy(i).nlink = Ino(i).nlink
  BY DEF DiskInv, Cached, Copy, Ino
<1> QED
  BY <1>1, <1>2 DEF Ilock, ilock, ilock_iget

-----------------------------------------------------------------------------
(* Locks *)

\* A locked inode has a pointer to it.
LEMMA HeldReferenced ==
    ASSUME IInv, Locks, NEW i \in Inums, lock[i] # Nobody
    PROVE  ref[i] # 0 /\ lock[i] \in Procs /\ Holds(lock[i], i)
<1>1. lock[i] \in Procs /\ Holds(lock[i], i)
  BY DEF Locks
<1>2. Points(lock[i], "ip") = i \/ Points(lock[i], "dp") = i
  BY <1>1 DEF Holds, Points
<1> QED
  BY <1>1, <1>2, Referenced DEF IInv, Places

\* ilock() and iget() by one process leave valid what another has locked.
LEMMA HeldValid ==
    ASSUME IInv, Locks, CopyStep, NEW i \in Inums, lock[i] # Nobody
    PROVE  ic'[i].valid
<1>1. ref[i] # 0 /\ ic[i].valid
  BY HeldReferenced DEF Locks
<1> QED
  BY <1>1 DEF CopyStep, Copy

\* What is locked stays valid.
Stays == \A i \in Inums : lock[i] # Nobody => ic'[i].valid

\* p keeps its locks.
LEMMA StaysKeep ==
    ASSUME Locks, Stays, NEW p \in Procs, lock' = lock,
           \A i \in Inums : Holds(p, i)' <=> Holds(p, i)
    PROVE  LockStep(p)
<1>1. p # Nobody
  BY FsAssumption
<1>2. \A i \in Inums : lock[i] = p <=> Holds(p, i)
  BY DEF Locks
<1> QED
  BY <1>1, <1>2 DEF LockStep, Locks, Stays

\* p takes the lock of i.
LEMMA StaysTake ==
    ASSUME Locks, Stays, NEW p \in Procs, NEW i \in Inums, lock[i] = Nobody,
           lock' = Hold(p, i), ic'[i].valid,
           \A j \in Inums : ~Holds(p, j), \A j \in Inums : Holds(p, j)' <=> j = i
    PROVE  LockStep(p)
<1>1. p # Nobody
  BY FsAssumption
<1>2. \A j \in Inums : lock[j] # p
  BY DEF Locks
<1>3. lock \in [Inums -> Procs \cup {Nobody}]
  BY DEF Locks
<1> QED
  BY <1>1, <1>2, <1>3 DEF LockStep, Hold, Stays

\* p gives up the lock of i.
LEMMA StaysDrop ==
    ASSUME Locks, Stays, NEW p \in Procs, NEW i \in Inums, lock' = Release(lock, i),
           \A j \in Inums : Holds(p, j) <=> j = i, \A j \in Inums : ~Holds(p, j)'
    PROVE  LockStep(p)
<1>1. p # Nobody
  BY FsAssumption
<1>2. \A j \in Inums : lock[j] = p <=> j = i
  BY DEF Locks
<1>3. lock \in [Inums -> Procs \cup {Nobody}]
  BY DEF Locks
<1> QED
  BY <1>1, <1>2, <1>3 DEF LockStep, Release, Stays

\* p takes the lock of i and gives up that of d.
LEMMA StaysSwap ==
    ASSUME Locks, Stays, NEW p \in Procs, NEW i \in Inums, NEW d \in Inums, i # d,
           lock[i] = Nobody, lock' = Release(Hold(p, i), d), ic'[i].valid,
           \A j \in Inums : Holds(p, j) <=> j = d,
           \A j \in Inums : Holds(p, j)' <=> j = i
    PROVE  LockStep(p)
<1>1. p # Nobody
  BY FsAssumption
<1>2. \A j \in Inums : lock[j] = p <=> j = d
  BY DEF Locks
<1>3. lock \in [Inums -> Procs \cup {Nobody}]
  BY DEF Locks
<1>4. Hold(p, i) \in [Inums -> Procs \cup {Nobody}] /\ Hold(p, i)[i] = p
      /\ \A j \in Inums : j # i => Hold(p, i)[j] = lock[j]
  BY <1>3 DEF Hold
<1> HIDE DEF Hold
<1>5. \A j \in Inums : lock'[j] = IF j = d THEN Nobody ELSE Hold(p, i)[j]
  BY <1>4 DEF Release
<1>6. lock' \in [Inums -> Procs \cup {Nobody}]
  BY <1>4 DEF Release
<1> QED
  BY <1>1, <1>2, <1>4, <1>5, <1>6 DEF LockStep, Stays

\* The same when the cache changes only by ilock() and iget().
LEMMA KeepLocks ==
    ASSUME IInv, Locks, CopyStep, NEW p \in Procs, lock' = lock,
           \A i \in Inums : Holds(p, i)' <=> Holds(p, i)
    PROVE  LockStep(p)
BY HeldValid, StaysKeep DEF Stays

\* p takes a lock.
LEMMA TakeLock ==
    ASSUME IInv, Locks, CopyStep, NEW p \in Procs, NEW i \in Inums, lock[i] = Nobody,
           lock' = Hold(p, i), ic'[i].valid,
           \A j \in Inums : ~Holds(p, j), \A j \in Inums : Holds(p, j)' <=> j = i
    PROVE  LockStep(p)
BY HeldValid, StaysTake DEF Stays

\* p gives one up.
LEMMA DropLock ==
    ASSUME IInv, Locks, CopyStep, NEW p \in Procs, NEW i \in Inums,
           lock' = Release(lock, i),
           \A j \in Inums : Holds(p, j) <=> j = i, \A j \in Inums : ~Holds(p, j)'
    PROVE  LockStep(p)
BY HeldValid, StaysDrop DEF Stays

-----------------------------------------------------------------------------
(* The parts of a step *)

\* An inode that p refers to has a reference.
LEMMA PtsReferenced ==
    ASSUME IInv, NEW p \in Procs, NEW i \in Inums, i \in Pts(p)
    PROVE  /\ ref[i] \in Nat /\ ref[i] # 0
           /\ ref[i] = 1 => \A q \in Procs \ {p} : i \notin Pts(q)
<1>1. PICK k \in Places : Pt(p, k) = i
  BY DEF Pts
<1>2. Points(p, k) = i
  BY <1>1, InumFacts DEF Pt
<1>3. ref[i] \in Nat /\ ref[i] # 0 /\ (ref[i] = 1 => \A q \in Procs, m \in Places :
                                Points(q, m) = i => q = p /\ m = k)
  BY <1>2, Referenced DEF IInv
<1>4. ASSUME NEW q \in Procs \ {p}, i \in Pts(q), ref[i] = 1 PROVE FALSE
  <2>1. PICK m \in Places : Pt(q, m) = i
    BY <1>4 DEF Pts
  <2>2. Points(q, m) = i
    BY <2>1, InumFacts DEF Pt
  <2> QED
    BY <1>3, <1>4, <2>2
<1> QED
  BY <1>3, <1>4

\* ilock() of an inode in use.
LEMMA LockedCopy ==
    ASSUME IInv, NEW i \in Inums, Ino(i).type # "free", ic' = Locked(i)
    PROVE  CopyStep /\ ic'[i].valid
<1>1. ic \in Cache
  BY CacheOps DEF IInv
<1>2. ic'[i] = Copy(i) /\ \A j \in Inums : j # i => ic'[j] = ic[j]
  BY <1>1 DEF Locked, Cache
<1>3. Copy(i).valid
  BY DEF Copy
<1> QED
  BY <1>2, <1>3 DEF CopyStep

\* iget() of another.
LEMMA GetCopy ==
    ASSUME IInv, NEW n \in Inums, ic' = Recycled(ic, n)
    PROVE  CopyStep
<1>1. ic \in Cache /\ ic[n] \in CacheEntry
  BY CacheOps DEF IInv
<1> QED
  BY <1>1 DEF CopyStep, Recycled, Cache, CacheEntry

\* Both.
LEMMA RecycledCopy ==
    ASSUME IInv, NEW i \in Inums, Ino(i).type # "free", ref[i] # 0,
           NEW n \in Inums, ic' = Recycled(Locked(i), n)
    PROVE  CopyStep /\ ic'[i].valid
<1>1. ic \in Cache /\ Locked(i) \in Cache
  BY CacheOps DEF IInv
<1>2. Locked(i)[i] = Copy(i) /\ \A j \in Inums : j # i => Locked(i)[j] = ic[j]
  BY <1>1 DEF Locked, Cache
<1>3. Copy(i).valid
  BY DEF Copy
<1>4. \A j \in Inums :
        ic'[j] = Locked(i)[j] \/ (ref[j] = 0 /\ ~ic'[j].valid)
  <2> HIDE DEF Locked
  <2> QED
    BY <1>1 DEF Recycled, Cache, CacheEntry
<1> QED
  BY <1>2, <1>3, <1>4 DEF CopyStep

\* A call that is not putting inodes refers to all its variables.
LEMMA Before ==
    ASSUME IInv, NEW p \in Procs, InCall(p)
    PROVE  /\ L(p) = pc[p] /\ L(p) # "idle"
           /\ cwd[p] \in Pts(p) /\ ofile[p].ip \in Pts(p)
           /\ ip[p] \in Pts(p) /\ dp[p] \in Pts(p)
<1>1. put[p] = <<>> /\ then[p] = "idle"
  BY Here DEF InCall, Putting
<1>2. ~CwdGivenUp(p)
  BY <1>1 DEF CwdGivenUp, InCall
<1> QED
  BY <1>2, Locals DEF L, Loc, InCall

\* A step that goes on at l.
LEMMA WentTo ==
    ASSUME IInv, NEW p \in Procs, pc[p] \notin Putting, NEW l, l \notin Putting, Goto(p, l)
    PROVE  /\ pc'[p] = l /\ L(p)' = l /\ put'[p] = <<>>
           /\ Pts(p)' \subseteq {cwd'[p], ofile'[p].ip, ip'[p], dp'[p], Null}
<1>1. put[p] = <<>> /\ then[p] = "idle" /\ pc \in [Procs -> Locations]
  BY Here DEF Shape
<1>2. pc'[p] = l /\ put'[p] = <<>> /\ then'[p] = "idle"
  BY <1>1 DEF Goto
<1>3. L(p)' = l
  BY <1>2 DEF L, Loc
<1>4. Nth(put'[p], 1) = Null /\ Nth(put'[p], 2) = Null
  BY <1>2 DEF Nth
<1>5. Pts(p)' = {IF CwdGivenUp(p) THEN Null ELSE cwd[p], ofile[p].ip, ip[p], dp[p],
                 IF pc[p] = "unref" THEN Null ELSE Nth(put[p], 1), Nth(put[p], 2)}'
  BY PtsNext
<1> QED
  BY <1>2, <1>3, <1>4, <1>5

\* A step that goes on to put x, and then y.
LEMMA WentPut ==
    ASSUME IInv, NEW p \in Procs, NEW x, NEW t, t \notin Putting, PutThen(p, <<x>>, t)
    PROVE  /\ pc'[p] = "iput" /\ L(p)' = t /\ put'[p] = <<x>>
           /\ Pts(p)' \subseteq {cwd'[p], ofile'[p].ip, ip'[p], dp'[p], x, Null}
<1>1. pc \in [Procs -> Locations] /\ DOMAIN put = Procs /\ DOMAIN then = Procs
  BY DEF IInv, Shape
<1>2. pc'[p] = "iput" /\ put'[p] = <<x>> /\ then'[p] = t
  BY <1>1 DEF PutThen
<1>3. L(p)' = t
  BY <1>2 DEF L, Loc, Putting
<1>4. Nth(put'[p], 1) = x /\ Nth(put'[p], 2) = Null
  BY <1>2 DEF Nth
<1>5. Pts(p)' = {IF CwdGivenUp(p) THEN Null ELSE cwd[p], ofile[p].ip, ip[p], dp[p],
                 IF pc[p] = "unref" THEN Null ELSE Nth(put[p], 1), Nth(put[p], 2)}'
  BY PtsNext
<1> QED
  BY <1>2, <1>3, <1>4, <1>5

\* The same of two inodes.
LEMMA WentPutTwo ==
    ASSUME IInv, NEW p \in Procs, NEW x, NEW y, NEW t, t \notin Putting,
           PutThen(p, <<x, y>>, t)
    PROVE  /\ pc'[p] = "iput" /\ L(p)' = t /\ put'[p] = <<x, y>>
           /\ Pts(p)' \subseteq {cwd'[p], ofile'[p].ip, ip'[p], dp'[p], x, y, Null}
<1>1. pc \in [Procs -> Locations] /\ DOMAIN put = Procs /\ DOMAIN then = Procs
  BY DEF IInv, Shape
<1>2. pc'[p] = "iput" /\ put'[p] = <<x, y>> /\ then'[p] = t
  BY <1>1 DEF PutThen
<1>3. L(p)' = t
  BY <1>2 DEF L, Loc, Putting
<1>4. Nth(put'[p], 1) = x /\ Nth(put'[p], 2) = y
  BY <1>2 DEF Nth
<1>5. Pts(p)' = {IF CwdGivenUp(p) THEN Null ELSE cwd[p], ofile[p].ip, ip[p], dp[p],
                 IF pc[p] = "unref" THEN Null ELSE Nth(put[p], 1), Nth(put[p], 2)}'
  BY PtsNext
<1> QED
  BY <1>2, <1>3, <1>4, <1>5

\* A step within a call keeps the log's state.
LEMMA ControlKept ==
    ASSUME Control, NEW p \in Procs, Others(p), UNCHANGED <<active, made>>,
           L(p)' = "idle" <=> L(p) = "idle", Unbroken
    PROVE  Control'
<1>1. ASSUME NEW q \in Procs PROVE (L(q) # "idle")' <=> L(q) # "idle"
  BY OthersSame DEF Same
<1>2. ASSUME NEW q \in Procs PROVE (q \in active <=> L(q) # "idle")'
  BY <1>1 DEF Control
<1>3. (\A q \in Procs : q \in active <=> L(q) # "idle")'
  BY <1>2
<1> QED
  BY <1>3 DEF Control

\* Where a call knows nothing in particular.
Plain == {"end", "namei", "link_inc", "open_ip", "chdir_ip", "chdir_set",
          "create_old", "got", "write_ip", "idle"}

\* There it owes nothing.
LEMMA PlainKnows ==
    ASSUME NEW p, L(p) \in Plain
    PROVE  /\ DirP(p) /\ FileP(p) /\ EntryP(p) /\ L(p) # "create_new"
           /\ (\A i : ~Owes(p, i)) /\ NewP(p)
           /\ (L(p) # "got" => \A i : ~Holds(p, i)) /\ ~Linking(p)
BY DEF DirP, FileP, EntryP, Owes, Holds, HoldsDp, HoldsIp, Plain, Linking, InDir, NewP

\* Also after a step.
LEMMA PlainKnowsNext ==
    ASSUME NEW p, L(p)' \in Plain
    PROVE  /\ (DirP(p) /\ FileP(p) /\ EntryP(p))' /\ L(p)' # "create_new"
           /\ (\A i : ~Owes(p, i))' /\ NewP(p)'
           /\ (L(p)' # "got" => \A i : ~Holds(p, i)') /\ ~Linking(p)'
BY DEF DirP, FileP, EntryP, Owes, Holds, HoldsDp, HoldsIp, Plain, Linking, InDir, NewP

\* A quiet step within a call.
Within(p) ==
    /\ UNCHANGED <<disk, durable, active, made>> /\ Unbroken
    /\ L(p) # "create_new" /\ L(p) # "idle" /\ L(p)' # "idle"

\* A quiet step to such a place.
LEMMA PlainStep ==
    ASSUME IInv, DiskInv, NEW p \in Procs, Others(p), Within(p), L(p)' \in Plain,
           CopyStep, LockStep(p), NEW n, Safe(n), Gets(p, n)
    PROVE  DiskInv'
<1>1. /\ (DirP(p) /\ FileP(p) /\ EntryP(p))' /\ L(p)' # "create_new"
      /\ (\A i : ~Owes(p, i))'
  BY PlainKnowsNext
<1>2. Control'
  BY ControlKept DEF Within, DiskInv
<1>3. Quiet(p)
  BY <1>1 DEF Quiet, MakesSame, Within
<1> QED
  BY <1>1, <1>2, <1>3, QuietInv DEF QuietStep, Within

\* The locals after a step that gets at most a reference to n.
Ends(p, n) ==
    /\ UNCHANGED <<ofile, cwd>>
    /\ ip'[p] \in {ip[p], dp[p], n, Null} /\ dp'[p] \in {ip[p], dp[p], n, Null}

\* A step that goes on to put an inode it referred to.
LEMMA PutGets ==
    ASSUME IInv, NEW p \in Procs, InCall(p), NEW n, Ends(p, n), NEW x,
           x \in Pts(p) \cup {n}, NEW t, t \notin Putting, PutThen(p, <<x>>, t)
    PROVE  Gets(p, n) /\ L(p)' = t /\ pc'[p] = "iput" /\ put'[p] = <<x>>
<1>1. /\ pc'[p] = "iput" /\ L(p)' = t /\ put'[p] = <<x>>
      /\ Pts(p)' \subseteq {cwd'[p], ofile'[p].ip, ip'[p], dp'[p], x, Null}
  BY WentPut
<1>2. {cwd[p], ofile[p].ip, ip[p], dp[p]} \subseteq Pts(p)
  BY Before
<1> QED
  BY <1>1, <1>2 DEF Gets, Ends

\* A step that puts nothing.
LEMMA GoGets ==
    ASSUME IInv, NEW p \in Procs, InCall(p), NEW n, Ends(p, n), NEW l, l \notin Putting,
           Goto(p, l)
    PROVE  Gets(p, n) /\ L(p)' = l /\ pc'[p] = l /\ put'[p] = <<>>
<1>1. /\ pc'[p] = l /\ L(p)' = l /\ put'[p] = <<>>
      /\ Pts(p)' \subseteq {cwd'[p], ofile'[p].ip, ip'[p], dp'[p], Null}
  BY Here, WentTo DEF InCall
<1>2. {cwd[p], ofile[p].ip, ip[p], dp[p]} \subseteq Pts(p)
  BY Before
<1> QED
  BY <1>1, <1>2 DEF Gets, Ends

\* The part of the machine that a lookup changes.
LooksUp(p, n) ==
    /\ Others(p) /\ UNCHANGED <<disk, durable, active, made, lock>>
    /\ Unbroken /\ CopyStep /\ Safe(n) /\ Ends(p, n)

\* A step with no lock kept that puts an inode and goes on in a plain place.
LEMMA PlainPut ==
    ASSUME IInv, DiskInv, NEW p \in Procs, InCall(p), pc[p] \notin HoldsDp \cup HoldsIp,
           NEW n, LooksUp(p, n), NEW x, x \in Pts(p) \cup {n},
           NEW t \in Plain \ {"idle", "got"}, PutThen(p, <<x>>, t)
    PROVE  DiskInv'
<1>1. t \notin Putting
  BY DEF Plain, Putting
<1>2. Gets(p, n) /\ L(p)' = t /\ Ends(p, n)
  BY <1>1, PutGets DEF LooksUp
<1>3. L(p) = pc[p] /\ L(p) # "idle" /\ L(p) \notin HoldsDp \cup HoldsIp
  BY Before
<1>4. Within(p) /\ L(p)' \in Plain
  BY <1>2, <1>3 DEF Within, LooksUp, HoldsDp
<1>5. LockStep(p)
  <2>1. \A i \in Inums : ~Holds(p, i) /\ ~Holds(p, i)'
    BY <1>2, <1>3, <1>4, PlainKnowsNext DEF Holds
  <2> QED
    BY <2>1, KeepLocks DEF LooksUp, DiskInv
<1> QED
  BY <1>2, <1>4, <1>5, PlainStep DEF LooksUp

\* namei() of one element.
LEMMA NameiQuiet ==
    ASSUME IInv, DiskInv, ParentsKept, NEW p \in Procs, namei(p)
    PROVE  DiskInv'
<1> DEFINE i == ip[p]
           next == dirlookup(i, Head(todo[p]))
<1>1. InCall(p) /\ pc[p] = "namei" /\ pc[p] \notin HoldsDp \cup HoldsIp /\ Others(p)
  BY StepOthers DEF namei, At, InCall, Putting, HoldsDp, HoldsIp, Step, IInv
<1>2. /\ Shape /\ ip[p] \in Inums /\ dp[p] = Null /\ todo[p] \in Seq(Entries)
      /\ todo[p] # <<>> /\ call[p].op \in {"link", "open", "chdir"}
  BY <1>1, Here, InumFacts DEF Putting, IpAt, HasIp, HasDp, OpAt, Named
<1>3. next \in Pointer /\ Head(todo[p]) \in Entries
  BY <1>2, PathType, LookupType
<1>4. UNCHANGED <<disk, durable, active, made, lock, call, dp, ofile, cwd>> /\ Ilock(i)
  BY DEF namei, log, files, Ilock, ilock, ilock_iget
<1>5. /\ L(p) = "namei" /\ i \in Pts(p) /\ Ino(i).type # "free" /\ Unbroken
      /\ Copy(i).type = Ino(i).type
  BY <1>1, <1>2, <1>4, Before, LockLive
<1>6. CASE Copy(i).type # "T_DIR" \/ next = Null
  <2>1. SetIp(p, Null) /\ PutThen(p, <<i>>, "end") /\ ic' = Locked(i)
    BY <1>6 DEF namei, NamexFailed
  <2>2. CopyStep
    BY <1>2, <1>5, <2>1, LockedCopy
  <2>3. ip'[p] = Null
    BY <1>2, <2>1 DEF SetIp, Shape
  <2>4. LooksUp(p, Null)
    BY <1>1, <1>4, <1>5, <2>2, <2>3 DEF LooksUp, Safe, Ends
  <2> QED
    BY <1>1, <1>5, <2>1, <2>4, PlainPut DEF Plain
<1>7. CASE ~(Copy(i).type # "T_DIR" \/ next = Null)
  <2>1. SetIp(p, next) /\ ic' = Recycled(Locked(i), next)
        /\ todo' = [todo EXCEPT ![p] = Tail(todo[p])]
        /\ PutThen(p, <<i>>, NextElem(p))
    BY <1>7 DEF namei
  <2>2. next \in Inums
    BY <1>3, <1>7, InumFacts
  <2>3. CopyStep
    BY <1>2, <1>5, <2>1, <2>2, RecycledCopy, PtsReferenced
  <2>4. Safe(next)
    <3>1. Head(todo[p]) = ".." => Attached(i)
      BY <1>1, <1>2, InumFacts DEF ParentsKept, Searched
    <3>2. Safe(Ino(i).ents[Head(todo[p])])
      BY <1>2, <1>3, <1>5, <1>7, <3>1, LookupLive
    <3> QED
      BY <3>2 DEF dirlookup, Ino
  <2>5. ip'[p] = next
    BY <1>2, <2>1 DEF SetIp, Shape
  <2>6. LooksUp(p, next)
    BY <1>1, <1>4, <1>5, <2>3, <2>4, <2>5 DEF LooksUp, Ends
  <2>7. NextElem(p) \in Plain \ {"idle", "got"}
    BY <1>2, <1>4, AfterPath DEF NextElem, Plain
  <2> QED
    BY <1>1, <1>5, <2>1, <2>6, <2>7, PlainPut
<1> QED
  BY <1>6, <1>7

\* A step of nameiparent(), or of giving its result up.
LEMMA ParentStep ==
    ASSUME IInv, DiskInv, NEW p \in Procs, InCall(p),
           pc[p] \in {"nameiparent", "iunlockput_dp"},
           L(p)' \in {"nameiparent", "link_bad", "link_dir", "unlink_dp", "create_dp", "end"},
           UNCHANGED <<call, ip>>, Others(p), Within(p), CopyStep, LockStep(p),
           NEW n, Safe(n), Gets(p, n), DirP(p)'
    PROVE  DiskInv'
<1>1. L(p) = pc[p]
  BY Before
<1>2. Linking(p)' => Linking(p)
  BY <1>1 DEF Linking
<1>3. \A i : Owes(p, i)' => Owes(p, i)
  BY <1>2 DEF Owes
<1>4. FileP(p)'
  BY <1>2 DEF FileP, Within, DiskInv, CallsSound, Ino
<1>5. EntryP(p)' /\ L(p)' # "create_new"
  BY DEF EntryP
<1>6. Control'
  BY ControlKept DEF Within, DiskInv
<1>7. Quiet(p)
  BY <1>3, <1>5 DEF Quiet, MakesSame, Within
<1> QED
  BY <1>4, <1>5, <1>6, <1>7, QuietInv DEF QuietStep, Within

\* Nobody holds a lock while looking for the directory.
LEMMA ParentLocks ==
    ASSUME IInv, DiskInv, NEW p \in Procs, CopyStep, lock' = lock, L(p) = "nameiparent",
           L(p)' \in {"nameiparent", "link_bad", "link_dir", "unlink_dp", "create_dp", "end"}
    PROVE  LockStep(p)
<1>1. \A i \in Inums : ~Holds(p, i) /\ ~Holds(p, i)'
  BY DEF Holds, HoldsDp, HoldsIp
<1> QED
  BY <1>1, KeepLocks DEF DiskInv

\* Where nameiparent() leaves off.
LEMMA ParentEnds ==
    ASSUME NEW op, op \in {"link", "unlink", "create"}
    PROVE  /\ BadParent(op) \in {"link_bad", "end"}
           /\ AfterParent(op) \in {"link_dir", "unlink_dp", "create_dp"}
           /\ BadParent(op) \notin Putting \cup InDir
BY DEF BadParent, AfterParent, Putting, InDir

\* nameiparent() of one element.
LEMMA NameiparentQuiet ==
    ASSUME IInv, DiskInv, ParentsKept, NEW p \in Procs, nameiparent(p)
    PROVE  DiskInv'
<1> DEFINE i == dp[p]
           next == dirlookup(i, Head(todo[p]))
<1>1. InCall(p) /\ pc[p] = "nameiparent" /\ todo[p] # <<>> /\ Others(p)
  BY StepOthers DEF nameiparent, At, InCall, Putting, Step, IInv
<1>2. /\ Shape /\ dp[p] \in Inums /\ todo[p] \in Seq(Entries)
      /\ call[p].op \in {"link", "unlink", "create"}
  BY <1>1, Here, InumFacts DEF Putting, HasDp, OpAt
<1>3. next \in Pointer /\ Head(todo[p]) \in Entries
  BY <1>1, <1>2, PathType, LookupType
<1>4. /\ UNCHANGED <<disk, durable, active, made, lock, call, ip, ofile, cwd>> /\ Ilock(i)
      /\ UNCHANGED <<call, ip>>
  BY DEF nameiparent, log, files, Ilock, ilock, ilock_iget
<1>5. /\ L(p) = "nameiparent" /\ i \in Pts(p) /\ Ino(i).type # "free" /\ Unbroken
      /\ Copy(i).type = Ino(i).type /\ ref[i] # 0
  BY <1>1, <1>2, <1>4, Before, LockLive, PtsReferenced
<1>6. CASE /\ Copy(i).type = "T_DIR" /\ Goto(p, AfterParent(call[p].op))
           /\ ic' = Locked(i) /\ UNCHANGED dp
  <2>1. Ends(p, Null) /\ CopyStep /\ Safe(Null)
    BY <1>2, <1>4, <1>5, <1>6, LockedCopy DEF Ends, Safe
  <2>2. AfterParent(call[p].op) \in {"link_dir", "unlink_dp", "create_dp"}
        /\ AfterParent(call[p].op) \notin Putting
    BY <1>2, ParentEnds DEF Putting
  <2>3. Gets(p, Null) /\ L(p)' = AfterParent(call[p].op)
    BY <1>1, <1>6, <2>1, <2>2, GoGets
  <2>4. LockStep(p)
    BY <1>4, <1>5, <2>1, <2>2, <2>3, ParentLocks
  <2>5. Within(p)
    BY <1>4, <1>5, <2>2, <2>3 DEF Within
  <2>6. DirP(p)'
    BY <1>4, <1>5, <1>6 DEF DirP, Ino
  <2> QED
    BY <1>1, <1>4, <2>1, <2>2, <2>3, <2>4, <2>5, <2>6, ParentStep
<1>7. CASE /\ SetDp(p, Null) /\ NamexFailed(p, i, BadParent(call[p].op))
           /\ ic' = Locked(i)
  <2>0. dp'[p] = Null
    BY <1>2, <1>7 DEF SetDp, Shape
  <2>1. Ends(p, Null) /\ CopyStep /\ Safe(Null)
    BY <1>2, <1>4, <1>5, <1>7, <2>0, LockedCopy DEF Ends, Safe
  <2>2. BadParent(call[p].op) \in {"link_bad", "end"}
        /\ BadParent(call[p].op) \notin Putting \cup InDir
    BY <1>2, ParentEnds
  <2>3. Gets(p, Null) /\ L(p)' = BadParent(call[p].op)
    BY <1>1, <1>5, <1>7, <2>1, <2>2, PutGets DEF NamexFailed
  <2>4. LockStep(p)
    BY <1>4, <1>5, <2>1, <2>2, <2>3, ParentLocks
  <2>5. Within(p)
    BY <1>4, <1>5, <2>2, <2>3 DEF Within
  <2>6. DirP(p)'
    BY <2>2, <2>3 DEF DirP
  <2> QED
    BY <1>1, <1>4, <2>1, <2>2, <2>3, <2>4, <2>5, <2>6, ParentStep
<1>8. CASE /\ Copy(i).type = "T_DIR" /\ next # Null
           /\ SetDp(p, next) /\ ic' = Recycled(Locked(i), next)
           /\ PutThen(p, <<i>>, "nameiparent")
  <2>0. dp'[p] = next /\ next \in Inums
    BY <1>2, <1>3, <1>8, InumFacts DEF SetDp, Shape
  <2>1. Ends(p, next) /\ CopyStep
    BY <1>2, <1>4, <1>5, <1>8, <2>0, RecycledCopy DEF Ends
  <2>2. Safe(next)
    <3>1. Head(todo[p]) = ".." => Attached(i)
      BY <1>1, <1>2, InumFacts DEF ParentsKept, Searched
    <3>2. Safe(Ino(i).ents[Head(todo[p])])
      BY <1>2, <1>3, <1>5, <1>8, <3>1, LookupLive
    <3> QED
      BY <3>2 DEF dirlookup, Ino
  <2>3. Gets(p, next) /\ L(p)' = "nameiparent"
    BY <1>1, <1>5, <1>8, <2>1, PutGets DEF Putting
  <2>4. LockStep(p)
    BY <1>4, <1>5, <2>1, <2>2, <2>3, ParentLocks
  <2>5. Within(p)
    BY <1>4, <1>5, <2>3 DEF Within
  <2>6. DirP(p)'
    BY <2>3 DEF DirP, InDir
  <2> QED
    BY <1>1, <1>4, <2>1, <2>2, <2>3, <2>4, <2>5, <2>6, ParentStep
<1> QED
  BY <1>6, <1>7, <1>8 DEF nameiparent

\* A path without elements.
LEMMA NoParentQuiet ==
    ASSUME IInv, DiskInv, NEW p \in Procs, NoParent(p)
    PROVE  DiskInv'
<1>1. InCall(p) /\ pc[p] = "nameiparent" /\ Others(p)
  BY StepOthers DEF NoParent, At, InCall, Putting, Step, IInv
<1>2. Shape /\ call[p].op \in {"link", "unlink", "create"}
  BY <1>1, Here DEF Putting, OpAt
<1>3. /\ UNCHANGED <<disk, durable, active, made, lock, ic, ofile, cwd>>
      /\ UNCHANGED <<call, ip>> /\ Unbroken /\ dp'[p] = Null
      /\ PutThen(p, <<dp[p]>>, BadParent(call[p].op))
  BY <1>2 DEF NoParent, log, files, icache, At, SetDp, Shape
<1>4. L(p) = "nameiparent" /\ dp[p] \in Pts(p)
  BY <1>1, Before
<1>5. Ends(p, Null) /\ CopyStep /\ Safe(Null)
  BY <1>3 DEF Ends, CopyStep, Safe
<1>6. BadParent(call[p].op) \in {"link_bad", "end"}
      /\ BadParent(call[p].op) \notin Putting \cup InDir
  BY <1>2, ParentEnds
<1>7. Gets(p, Null) /\ L(p)' = BadParent(call[p].op)
  BY <1>1, <1>3, <1>4, <1>5, <1>6, PutGets
<1>8. LockStep(p)
  BY <1>3, <1>4, <1>5, <1>6, <1>7, ParentLocks
<1>9. Within(p) /\ DirP(p)'
  BY <1>3, <1>4, <1>6, <1>7 DEF Within, DirP
<1> QED
  BY <1>1, <1>3, <1>5, <1>6, <1>7, <1>8, <1>9, ParentStep

\* The lock of dp is given up.
LEMMA IunlockputQuiet ==
    ASSUME IInv, DiskInv, NEW p \in Procs, iunlockput_dp(p)
    PROVE  DiskInv'
<1>1. InCall(p) /\ pc[p] = "iunlockput_dp" /\ Others(p)
  BY StepOthers DEF iunlockput_dp, At, InCall, Putting, Step, IInv
<1>2. Shape /\ call[p].op \in {"link", "unlink", "create"} /\ dp[p] \in Inums
  BY <1>1, Here, InumFacts DEF Putting, OpAt, HasDp
<1>3. /\ UNCHANGED <<disk, durable, active, made, ic, ofile, cwd>>
      /\ lock' = Release(lock, dp[p])
      /\ UNCHANGED <<call, ip>> /\ Unbroken /\ dp'[p] = Null
      /\ PutThen(p, <<dp[p]>>, BadParent(call[p].op))
  BY <1>2 DEF iunlockput_dp, log, files, At, SetDp, Shape
<1>4. L(p) = "iunlockput_dp" /\ dp[p] \in Pts(p)
  BY <1>1, Before
<1>5. Ends(p, Null) /\ CopyStep /\ Safe(Null)
  BY <1>3 DEF Ends, CopyStep, Safe
<1>6. BadParent(call[p].op) \in {"link_bad", "end"}
      /\ BadParent(call[p].op) \notin Putting \cup InDir
  BY <1>2, ParentEnds
<1>7. Gets(p, Null) /\ L(p)' = BadParent(call[p].op)
  BY <1>1, <1>3, <1>4, <1>5, <1>6, PutGets
<1>8. LockStep(p)
  <2>1. \A j \in Inums : Holds(p, j) <=> j = dp[p]
    BY <1>4 DEF Holds, HoldsDp, HoldsIp
  <2>2. \A j \in Inums : ~Holds(p, j)'
    BY <1>6, <1>7 DEF Holds, HoldsDp, HoldsIp
  <2> QED
    BY <1>2, <1>3, <1>5, <2>1, <2>2, DropLock DEF DiskInv
<1>9. Within(p) /\ DirP(p)'
  BY <1>3, <1>4, <1>6, <1>7 DEF Within, DirP
<1> QED
  BY <1>1, <1>3, <1>5, <1>6, <1>7, <1>8, <1>9, ParentStep

\* link() of a directory.
LEMMA LinkIncQuiet ==
    ASSUME IInv, DiskInv, NEW p \in Procs, link_inc(p), Copy(ip[p]).type = "T_DIR"
    PROVE  DiskInv'
<1> DEFINE i == ip[p]
<1>1. InCall(p) /\ pc[p] = "link_inc" /\ pc[p] \notin HoldsDp \cup HoldsIp /\ Others(p)
  BY StepOthers DEF link_inc, At, InCall, Putting, HoldsDp, HoldsIp, Step, IInv
<1>2. Shape /\ ip[p] \in Inums
  BY <1>1, Here, InumFacts DEF Putting, IpAt, HasIp
<1>3. /\ UNCHANGED <<disk, durable, active, made, lock, ofile, cwd, dp>> /\ Ilock(i)
      /\ ic' = Locked(i) /\ ip'[p] = Null /\ PutThen(p, <<i>>, "end")
  BY <1>2 DEF link_inc, files, SetIp, Shape, Ilock, ilock, ilock_iget
<1>4. i \in Pts(p) /\ Ino(i).type # "free" /\ Unbroken
  BY <1>1, <1>2, <1>3, Before, LockLive
<1>5. LooksUp(p, Null)
  BY <1>1, <1>2, <1>3, <1>4, LockedCopy DEF LooksUp, Ends, Safe
<1> QED
  BY <1>1, <1>3, <1>4, <1>5, PlainPut DEF Plain

\* What a call that has its directory finds there.
LEMMA InDirLive ==
    ASSUME IInv, DiskInv, ParentsKept, NEW p \in Procs,
           pc[p] \in {"link_dir", "unlink_dp", "create_dp"}
    PROVE  /\ InCall(p) /\ Shape /\ L(p) = pc[p] /\ dp[p] \in Inums /\ dp[p] \in Pts(p)
           /\ dp[p] \notin Making /\ ref[dp[p]] # 0
           /\ todo[p] \in Seq(Entries) /\ todo[p] # <<>> /\ name(p) \in Entries
           /\ Ino(dp[p]).type = "T_DIR" /\ Copy(dp[p]).valid
           /\ Copy(dp[p]).type = "T_DIR" /\ Copy(dp[p]).nlink = Ino(dp[p]).nlink
           /\ Ilock(dp[p]) => Unbroken
           /\ dirlookup(dp[p], name(p)) \in Pointer
           /\ dirlookup(dp[p], name(p)) = Ino(dp[p]).ents[name(p)]
           /\ pc[p] # "unlink_dp" \/ name(p) # ".." => Safe(dirlookup(dp[p], name(p)))
<1>1. InCall(p)
  BY DEF InCall, Putting
<1>2. /\ Shape /\ dp[p] \in Inums /\ todo[p] \in Seq(Entries) /\ todo[p] # <<>>
  BY <1>1, Here, InumFacts DEF InCall, HasDp, Named
<1>3. name(p) \in Entries /\ dirlookup(dp[p], name(p)) \in Pointer
  BY <1>2, PathType, LookupType DEF name
<1>4. L(p) = pc[p] /\ dp[p] \in Pts(p)
  BY <1>1, Before
<1>5. Ino(dp[p]).type = "T_DIR"
  BY <1>4 DEF DiskInv, CallsSound, DirP, InDir
<1>6. /\ Copy(dp[p]).valid /\ Copy(dp[p]).type = "T_DIR"
      /\ Copy(dp[p]).nlink = Ino(dp[p]).nlink /\ (Ilock(dp[p]) => Unbroken)
  BY <1>2, <1>4, <1>5, LockLive
<1>7. dirlookup(dp[p], name(p)) = Ino(dp[p]).ents[name(p)]
  BY DEF dirlookup, Ino
<1>8. pc[p] # "unlink_dp" /\ name(p) = ".." => Attached(dp[p])
  BY <1>2, InumFacts DEF ParentsKept, Searched, name
<1>9. pc[p] # "unlink_dp" \/ name(p) # ".." => Safe(dirlookup(dp[p], name(p)))
  BY <1>2, <1>3, <1>4, <1>5, <1>7, <1>8, LookupLive
<1>10. dp[p] \notin Making
  <2>1. "." \in Entries
    BY DEF Entries
  <2> QED
    BY <1>2, <1>4, <1>5, <2>1, LookupLive
<1>11. ref[dp[p]] # 0
  BY <1>2, <1>4, PtsReferenced
<1> QED
  BY <1>1, <1>2, <1>3, <1>4, <1>5, <1>6, <1>7, <1>9, <1>10, <1>11

\* dirlink() finds the name: it is put while dp is locked.
LEMMA LinkDirQuiet ==
    ASSUME IInv, DiskInv, ParentsKept, NEW p \in Procs, link_dir(p),
           dirlookup(dp[p], name(p)) # Null
    PROVE  DiskInv'
<1> DEFINE i == dp[p]
           old == dirlookup(i, name(p))
<1>1. pc[p] = "link_dir" /\ Others(p)
  BY StepOthers DEF link_dir, At, Step, IInv
<1>2. /\ InCall(p) /\ Shape /\ L(p) = "link_dir" /\ i \in Inums /\ i \in Pts(p)
      /\ ref[i] # 0 /\ todo[p] # <<>> /\ Ino(i).type = "T_DIR" /\ old \in Pointer
      /\ old = Ino(i).ents[name(p)] /\ Safe(old) /\ (Ilock(i) => Unbroken)
  BY <1>1, InDirLive
<1>3. /\ UNCHANGED <<disk, durable, active, made, ofile, cwd, ip, dp, todo, call>> /\ Ilock(i)
      /\ lock' = Hold(p, i) /\ ic' = Recycled(Locked(i), old)
      /\ PutThen(p, <<old>>, "iunlockput_dp")
  BY DEF link_dir, files, Ilock, ilock, ilock_iget
<1>4. old \in Inums /\ lock[i] = Nobody
  BY <1>2, <1>3, InumFacts DEF Ilock, ilock, ilock_iget
<1>5. CopyStep /\ ic'[i].valid
  BY <1>2, <1>3, <1>4, RecycledCopy
<1>6. Gets(p, old) /\ L(p)' = "iunlockput_dp" /\ put'[p] = <<old>> /\ pc'[p] = "iput"
  <2>1. Ends(p, old) /\ "iunlockput_dp" \notin Putting /\ old \in Pts(p) \cup {old}
    BY <1>3 DEF Ends, Putting
  <2> QED
    BY <1>2, <1>3, <2>1, PutGets
<1>7. LockStep(p)
  <2>1. \A j \in Inums : ~Holds(p, j)
    BY <1>2 DEF Holds, HoldsDp, HoldsIp
  <2>2. \A j \in Inums : Holds(p, j)' <=> j = i
    BY <1>3, <1>6 DEF Holds, HoldsDp, HoldsIp
  <2> QED
    BY <1>2, <1>3, <1>4, <1>5, <2>1, <2>2, TakeLock DEF DiskInv
<1>8. Linking(p)' => Linking(p)
  BY <1>2, <1>3 DEF Linking
<1>9. Quiet(p)
  BY <1>2, <1>3, <1>6, <1>8 DEF Quiet, MakesSame, Owes
<1>10. DirP(p)' /\ FileP(p)'
  BY <1>3, <1>6, <1>8 DEF DirP, InDir, FileP, DiskInv, CallsSound, Ino
<1>11. EntryP(p)'
  BY <1>2, <1>3, <1>6 DEF EntryP, Ino, name
<1>12. Control'
  BY <1>1, <1>2, <1>3, <1>6, ControlKept DEF DiskInv
<1> QED
  BY <1>1, <1>2, <1>3, <1>5, <1>6, <1>7, <1>9, <1>10, <1>11, <1>12, QuietInv DEF QuietStep

\* unlink() looks its name up.
LEMMA UnlinkDpQuiet ==
    ASSUME IInv, DiskInv, ParentsKept, NEW p \in Procs, unlink_dp(p)
    PROVE  DiskInv'
<1> DEFINE i == dp[p]
           old == dirlookup(i, name(p))
<1>1. pc[p] = "unlink_dp" /\ Others(p)
  BY StepOthers DEF unlink_dp, At, Step, IInv
<1>2. /\ InCall(p) /\ Shape /\ L(p) = "unlink_dp" /\ i \in Inums /\ i \in Pts(p)
      /\ ref[i] # 0 /\ todo[p] # <<>> /\ Ino(i).type = "T_DIR" /\ old \in Pointer
      /\ old = Ino(i).ents[name(p)] /\ (name(p) # ".." => Safe(old))
      /\ (Ilock(i) => Unbroken) /\ name(p) \in Entries
  BY <1>1, InDirLive
<1>3. UNCHANGED <<disk, durable, active, made, ofile, cwd, todo, call>> /\ Ilock(i)
      /\ lock[i] = Nobody /\ Unbroken
  BY <1>2 DEF unlink_dp, files, log, Ilock, ilock, ilock_iget
<1>4. CASE name(p) \in {".", ".."} \/ old = Null
  <2>1. /\ dp'[p] = Null /\ PutThen(p, <<i>>, "end") /\ ic' = Locked(i)
        /\ UNCHANGED <<lock, ip>>
    BY <1>2, <1>4 DEF unlink_dp, SetDp, Shape
  <2>2. LooksUp(p, Null)
    BY <1>1, <1>2, <1>3, <2>1, LockedCopy DEF LooksUp, Ends, Safe
  <2> QED
    BY <1>1, <1>2, <2>1, <2>2, PlainPut DEF Plain, HoldsDp, HoldsIp
<1>5. CASE ~(name(p) \in {".", ".."} \/ old = Null)
  <2>1. /\ lock' = Hold(p, i) /\ ip'[p] = old /\ ic' = Recycled(Locked(i), old)
        /\ Goto(p, "unlink_ip") /\ UNCHANGED dp
    BY <1>2, <1>5 DEF unlink_dp, SetIp, Shape
  <2>2. old \in Inums /\ Safe(old) /\ name(p) \in Names
    BY <1>2, <1>5, InumFacts DEF Entries
  <2>3. CopyStep /\ ic'[i].valid
    BY <1>2, <2>1, <2>2, RecycledCopy
  <2>4. Gets(p, old) /\ L(p)' = "unlink_ip" /\ pc'[p] = "unlink_ip"
    BY <1>2, <1>3, <2>1, GoGets DEF Ends, Putting
  <2>5. LockStep(p)
    <3>1. \A j \in Inums : ~Holds(p, j)
      BY <1>2 DEF Holds, HoldsDp, HoldsIp
    <3>2. \A j \in Inums : Holds(p, j)' <=> j = i
      BY <2>1, <2>4 DEF Holds, HoldsDp, HoldsIp
    <3> QED
      BY <1>2, <1>3, <2>1, <2>3, <3>1, <3>2, TakeLock DEF DiskInv
  <2>6. Quiet(p) /\ FileP(p)'
    BY <1>2, <1>3, <2>4 DEF Quiet, MakesSame, Owes, Linking, FileP
  <2>7. DirP(p)'
    BY <1>2, <1>3, <2>1 DEF DirP, Ino
  <2>8. EntryP(p)'
    BY <1>2, <1>3, <2>1, <2>2, <2>4 DEF EntryP, Ino, name
  <2>9. Control'
    BY <1>1, <1>2, <1>3, <2>4, ControlKept DEF DiskInv
  <2> QED
    BY <1>1, <1>3, <2>2, <2>3, <2>4, <2>5, <2>6, <2>7, <2>8, <2>9, QuietInv DEF QuietStep
<1> QED
  BY <1>4, <1>5

\* What unlink() has under the lock of dp: an entry, hence a link.
LEMMA UnlinkHas ==
    ASSUME IInv, DiskInv, NEW p \in Procs, unlink_ip(p)
    PROVE  /\ InCall(p) /\ pc[p] = "unlink_ip" /\ L(p) = "unlink_ip" /\ Others(p) /\ Shape
           /\ ip[p] \in Inums /\ dp[p] \in Inums /\ ip[p] \in Pts(p) /\ dp[p] \in Pts(p)
           /\ todo[p] # <<>> /\ name(p) \in Names /\ Ino(dp[p]).ents[name(p)] = ip[p]
           /\ Ino(dp[p]).type = "T_DIR" /\ lock[dp[p]] = p /\ ic[dp[p]].valid
           /\ lock[ip[p]] = Nobody /\ ip[p] # dp[p]
           /\ Ino(ip[p]).nlink >= 1 /\ Ino(ip[p]).type # "free" /\ Copy(ip[p]).valid
           /\ Copy(ip[p]).type = Ino(ip[p]).type /\ Copy(ip[p]).nlink = Ino(ip[p]).nlink
           /\ Unbroken /\ call[p].op = "unlink"
           /\ UNCHANGED <<durable, active, made, ref, cwd, ofile, call, todo>>
<1>1. InCall(p) /\ pc[p] = "unlink_ip" /\ Others(p) /\ lock[ip[p]] = Nobody
  BY StepOthers DEF unlink_ip, At, InCall, Putting, Step, IInv
<1>2. /\ Shape /\ ip[p] \in Inums /\ dp[p] \in Inums /\ todo[p] # <<>> /\ call[p].op = "unlink"
  BY <1>1, Here, InumFacts DEF Putting, HasDp, IpAt, HasIp, Named, OpAt
<1>3. L(p) = "unlink_ip" /\ ip[p] \in Pts(p) /\ dp[p] \in Pts(p)
  BY <1>1, Before
<1>4. name(p) \in Names /\ Ino(dp[p]).ents[name(p)] = ip[p] /\ Ino(dp[p]).type = "T_DIR"
  BY <1>3 DEF DiskInv, CallsSound, EntryP, DirP, InDir
<1>5. lock[dp[p]] = p /\ ic[dp[p]].valid /\ p # Nobody
  <2>1. Holds(p, dp[p])
    BY <1>3 DEF Holds, HoldsDp
  <2> QED
    BY <1>2, <2>1, FsAssumption DEF DiskInv, Locks
<1>6. Ino(ip[p]).nlink >= 1
  BY <1>2, <1>4, NamedSafe
<1>7. /\ Ino(ip[p]).type # "free" /\ Copy(ip[p]).valid
      /\ Copy(ip[p]).type = Ino(ip[p]).type /\ Copy(ip[p]).nlink = Ino(ip[p]).nlink
  BY <1>2, <1>3, LockLive
<1>8. Unbroken
  <2>1. Ino(ip[p]).nlink \in Int
    BY <1>2 DEF Shape, Image, Ino
  <2>2. ~(Copy(ip[p]).type = "free" \/ Copy(ip[p]).nlink < 1)
    BY <1>6, <1>7, <2>1
  <2> QED
    BY <2>2 DEF unlink_ip
<1>9. UNCHANGED <<durable, active, made, ref, cwd, ofile, call, todo>>
  BY DEF unlink_ip, files
<1> QED
  BY <1>1, <1>2, <1>3, <1>4, <1>5, <1>6, <1>7, <1>8, <1>9

\* unlink() of a directory that is not empty.
LEMMA UnlinkFullQuiet ==
    ASSUME IInv, DiskInv, NEW p \in Procs, unlink_ip(p),
           Copy(ip[p]).type = "T_DIR" /\ ~isdirempty(ip[p])
    PROVE  DiskInv'
<1> DEFINE i == ip[p]
<1>1. /\ InCall(p) /\ L(p) = "unlink_ip" /\ Others(p) /\ Shape /\ i \in Inums
      /\ i \in Pts(p) /\ todo[p] # <<>> /\ name(p) \in Names
      /\ Ino(dp[p]).ents[name(p)] = ip[p] /\ Ino(i).type # "free" /\ Unbroken
      /\ UNCHANGED <<durable, active, made, ref, cwd, ofile, call, todo>>
      /\ call[p].op = "unlink"
  BY UnlinkHas
<1>2. /\ ic' = Locked(i) /\ ip'[p] = Null /\ PutThen(p, <<i>>, "iunlockput_dp")
      /\ UNCHANGED <<disk, lock, dp>>
  BY <1>1 DEF unlink_ip, SetIp, Shape
<1>3. CopyStep /\ Ends(p, Null) /\ Safe(Null)
  BY <1>1, <1>2, LockedCopy DEF Ends, Safe
<1>4. Gets(p, Null) /\ L(p)' = "iunlockput_dp" /\ put'[p] = <<i>> /\ pc'[p] = "iput"
  BY <1>1, <1>2, <1>3, PutGets DEF Putting
<1>5. LockStep(p)
  <2>1. \A j \in Inums : Holds(p, j)' <=> Holds(p, j)
    BY <1>1, <1>2, <1>4 DEF Holds, HoldsDp, HoldsIp
  <2> QED
    BY <1>2, <1>3, <2>1, KeepLocks DEF DiskInv
<1>6. Quiet(p) /\ FileP(p)' /\ DirP(p)'
  BY <1>1, <1>2, <1>4 DEF Quiet, MakesSame, Owes, Linking, FileP, DirP, InDir
<1>7. EntryP(p)'
  BY <1>1, <1>2, <1>4 DEF EntryP, Ino, name
<1>8. Control'
  BY <1>1, <1>2, <1>4, ControlKept DEF DiskInv
<1> QED
  BY <1>1, <1>3, <1>4, <1>5, <1>6, <1>7, <1>8, QuietInv DEF QuietStep

\* A machine that stops, or makes no step.
LEMMA StopQuiet ==
    ASSUME DiskInv, Unbroken,
           UNCHANGED <<disk, durable, made, active, ref, ic, lock, cwd, ofile, pc, call,
                       todo, ip, dp, put, then>>
    PROVE  DiskInv'
<1>1. Cached' /\ Locks'
  BY DEF DiskInv, Cached, Locks, Ino, Holds, L
<1>2. CallsSound'
  <2>1. ASSUME NEW p \in Procs PROVE Pts(p)' = Pts(p) /\ L(p)' = L(p)
    BY DEF Pts, Pt, Points, CwdGivenUp, L
  <2>2. ASSUME NEW p \in Procs PROVE LiveP(p)' /\ NewP(p)' /\ DirP(p)' /\ FileP(p)'
    <3>1. LiveP(p) /\ NewP(p) /\ DirP(p) /\ FileP(p)
      BY DEF DiskInv, CallsSound
    <3> QED
      BY <2>1, <3>1 DEF LiveP, NewP, DirP, FileP, Ino, Linking
  <2>3. ASSUME NEW p \in Procs PROVE EntryP(p)'
    <3>1. EntryP(p)
      BY DEF DiskInv, CallsSound
    <3> QED
      BY <2>1, <3>1 DEF EntryP, Ino, name
  <2> QED
    BY <2>2, <2>3 DEF CallsSound
<1>3. OnDisk'
  <2>1. Making' = Making /\ \A i : Owers(i)' = Owers(i)
    BY DEF Making, Owers, Owes, Linking, L
  <2>2. Counts'
    BY <2>1 DEF DiskInv, OnDisk, Counts, Covered, NamesOf, Subdirs, IsDir
  <2>3. Tree(disk, Making)'
    BY <2>1 DEF DiskInv, OnDisk, Tree, FreeEmpty, DirsOnly, Dotted, DotDot, NoCycle, Owned
  <2> QED
    BY <2>2, <2>3 DEF OnDisk
<1>4. Durable'
  BY DEF DiskInv, Durable, Tree, FreeEmpty, DirsOnly, Dotted, DotDot, NoCycle, Owned,
      Covered, NamesOf, Subdirs, IsDir
<1>5. Control'
  BY DEF DiskInv, Control, L
<1> QED
  BY <1>1, <1>2, <1>3, <1>4, <1>5 DEF DiskInv

\* create() finds the name, or no free inode.
LEMMA CreateDpQuiet ==
    ASSUME IInv, DiskInv, ParentsKept, NEW p \in Procs, create_dp(p),
           dirlookup(dp[p], name(p)) # Null \/ FreeInums = {}
    PROVE  DiskInv'
<1> DEFINE i == dp[p]
           old == dirlookup(i, name(p))
<1>1. pc[p] = "create_dp" /\ Others(p) /\ panic = "no"
  BY StepOthers DEF create_dp, At, Step, IInv
<1>2. /\ InCall(p) /\ Shape /\ i \in Inums /\ i \in Pts(p) /\ ref[i] # 0
      /\ Ino(i).type = "T_DIR" /\ old \in Pointer /\ Safe(old)
  BY <1>1, InDirLive
<1>3. UNCHANGED <<durable, active, made, ofile, cwd, todo, call>>
  BY DEF create_dp, files
<1>4. CASE old # Null
  <2>1. /\ ic' = Recycled(Locked(i), old) /\ ip'[p] = old /\ dp'[p] = Null
        /\ PutThen(p, <<i>>, "create_old") /\ UNCHANGED <<disk, lock>> /\ Ilock(i)
    BY <1>2, <1>4 DEF create_dp, SetIp, SetDp, Shape, Ilock, ilock_iget
  <2>2. old \in Inums
    BY <1>2, <1>4, InumFacts
  <2>3. CopyStep
    BY <1>2, <2>1, <2>2, RecycledCopy
  <2>4. LooksUp(p, old)
    BY <1>1, <1>2, <1>3, <2>1, <2>3, LockLive DEF LooksUp, Ends
  <2> QED
    BY <1>1, <1>2, <2>1, <2>4, PlainPut DEF Plain, HoldsDp, HoldsIp
<1>5. CASE old = Null
  <2>1. panic' = "exhausted" /\ UNCHANGED <<disk, icache, ip, dp, pc, put, then>>
    BY <1>2, <1>5, LockLive DEF create_dp
  <2> QED
    BY <1>3, <2>1, StopQuiet DEF icache
<1> QED
  BY <1>4, <1>5

\* The inode that a call ends with, locked.
LEMMA GotQuiet ==
    ASSUME IInv, DiskInv, NEW p \in Procs, pc[p] \in {"create_old", "open_ip"},
           Others(p), Ilock(ip[p]), ic' = Locked(ip[p]),
           UNCHANGED <<log, files, dp>>,
           \/ lock' = Hold(p, ip[p]) /\ Goto(p, "got") /\ UNCHANGED ip
           \/ SetIp(p, Null) /\ PutThen(p, <<ip[p]>>, "end") /\ UNCHANGED lock
    PROVE  DiskInv'
<1> DEFINE i == ip[p]
<1>1. InCall(p) /\ pc[p] \notin HoldsDp \cup HoldsIp
  BY DEF InCall, Putting, HoldsDp, HoldsIp
<1>2. Shape /\ i \in Inums
  BY <1>1, Here, InumFacts DEF InCall, IpAt, HasIp
<1>3. /\ L(p) = pc[p] /\ i \in Pts(p) /\ Ino(i).type # "free" /\ Unbroken
  BY <1>1, <1>2, Before, LockLive
<1>4. /\ CopyStep /\ ic'[i].valid /\ lock[i] = Nobody
      /\ UNCHANGED <<disk, durable, active, made, ofile, cwd, dp>> /\ Safe(Null)
  BY <1>2, <1>3, LockedCopy DEF log, files, Ilock, ilock, ilock_iget, Safe
<1>5. CASE SetIp(p, Null) /\ PutThen(p, <<i>>, "end") /\ UNCHANGED lock
  <2>1. ip'[p] = Null
    BY <1>2, <1>5 DEF SetIp, Shape
  <2>2. LooksUp(p, Null)
    BY <1>3, <1>4, <1>5, <2>1 DEF LooksUp, Ends
  <2> QED
    BY <1>1, <1>3, <1>5, <2>2, PlainPut DEF Plain
<1>6. CASE lock' = Hold(p, i) /\ Goto(p, "got") /\ UNCHANGED ip
  <2>1. Ends(p, Null)
    BY <1>4, <1>6 DEF Ends
  <2>2. Gets(p, Null) /\ L(p)' = "got"
    BY <1>1, <1>6, <2>1, GoGets DEF Putting
  <2>3. Within(p) /\ L(p)' \in Plain
    BY <1>3, <1>4, <2>2 DEF Within, Plain
  <2>4. LockStep(p)
    <3>1. \A j \in Inums : ~Holds(p, j)
      BY <1>1, <1>3 DEF Holds
    <3>2. \A j \in Inums : Holds(p, j)' <=> j = i
      BY <1>6, <2>2 DEF Holds, HoldsDp, HoldsIp
    <3> QED
      BY <1>2, <1>4, <1>6, <3>1, <3>2, TakeLock DEF DiskInv
  <2> QED
    BY <1>4, <2>2, <2>3, <2>4, PlainStep
<1> QED
  BY <1>5, <1>6

\* open() and create() of an inode that exists.
LEMMA OpenQuiet ==
    ASSUME IInv, DiskInv, NEW p \in Procs, open_ip(p) \/ create_old(p)
    PROVE  DiskInv'
<1>1. Others(p)
  BY StepOthers DEF Step, IInv
<1>2. /\ pc[p] \in {"create_old", "open_ip"} /\ Ilock(ip[p]) /\ ic' = Locked(ip[p])
      /\ UNCHANGED <<log, files, dp>>
      /\ \/ lock' = Hold(p, ip[p]) /\ Goto(p, "got") /\ UNCHANGED ip
         \/ SetIp(p, Null) /\ PutThen(p, <<ip[p]>>, "end") /\ UNCHANGED lock
  BY DEF open_ip, create_old, At, Ilock, ilock, ilock_iget
<1> QED
  BY <1>1, <1>2, GotQuiet

\* The inode is unlocked and kept by a file, or put.
LEMMA GotEndQuiet ==
    ASSUME IInv, DiskInv, NEW p \in Procs, got(p)
    PROVE  DiskInv'
<1> DEFINE i == ip[p]
<1>1. InCall(p) /\ pc[p] = "got" /\ Others(p) /\ panic = "no"
  BY StepOthers DEF got, At, InCall, Putting, Step, IInv
<1>2. Shape /\ i \in Inums
  BY <1>1, Here, InumFacts DEF Putting, IpAt, HasIp
<1>3. /\ lock' = Release(lock, i) /\ ip'[p] = Null
      /\ UNCHANGED <<disk, durable, active, made, ic, cwd, dp, panic>>
  BY <1>2 DEF got, SetIp, log, Shape
<1>4. L(p) = "got" /\ {i, dp[p], cwd[p], ofile[p].ip} \subseteq Pts(p)
  BY <1>1, Before
<1>5. Gets(p, Null) /\ L(p)' = "end"
  <2>1. CASE PutThen(p, <<i>>, "end") /\ UNCHANGED ofile
    <3>1. Ends(p, Null)
      BY <1>3, <2>1 DEF Ends
    <3> QED
      BY <1>1, <1>4, <2>1, <3>1, PutGets DEF Putting
  <2>2. CASE Goto(p, "end") /\ ofile'[p].ip = i
    <3>1. /\ L(p)' = "end"
          /\ Pts(p)' \subseteq {cwd'[p], ofile'[p].ip, ip'[p], dp'[p], Null}
      BY <1>1, <2>2, WentTo DEF Putting
    <3> QED
      BY <1>3, <1>4, <2>2, <3>1 DEF Gets
  <2>3. \/ PutThen(p, <<i>>, "end") /\ UNCHANGED ofile
        \/ Goto(p, "end") /\ ofile'[p].ip = i
    BY <1>2 DEF got, Shape
  <2> QED
    BY <2>1, <2>2, <2>3
<1>6. CopyStep /\ Safe(Null)
  BY <1>3 DEF CopyStep, Safe
<1>7. Within(p) /\ L(p)' \in Plain
  BY <1>1, <1>3, <1>4, <1>5 DEF Within, Plain
<1>8. LockStep(p)
  <2>1. \A j \in Inums : Holds(p, j) <=> j = i
    BY <1>4 DEF Holds, HoldsDp, HoldsIp
  <2>2. \A j \in Inums : ~Holds(p, j)'
    BY <1>5 DEF Holds, HoldsDp, HoldsIp
  <2> QED
    BY <1>2, <1>3, <1>6, <2>1, <2>2, DropLock DEF DiskInv
<1> QED
  BY <1>1, <1>5, <1>6, <1>7, <1>8, PlainStep

\* chdir() to the inode of its path.
LEMMA ChdirQuiet ==
    ASSUME IInv, DiskInv, NEW p \in Procs, chdir_ip(p)
    PROVE  DiskInv'
<1> DEFINE i == ip[p]
<1>1. InCall(p) /\ pc[p] = "chdir_ip" /\ Others(p) /\ pc[p] \notin HoldsDp \cup HoldsIp
  BY StepOthers DEF chdir_ip, At, InCall, Putting, Step, IInv, HoldsDp, HoldsIp
<1>2. Shape /\ i \in Inums
  BY <1>1, Here, InumFacts DEF Putting, IpAt, HasIp
<1>3. /\ Ilock(i) /\ ic' = Locked(i)
      /\ UNCHANGED <<disk, durable, active, made, lock, ofile, cwd, dp>>
  BY DEF chdir_ip, log, files, Ilock, ilock, ilock_iget
<1>4. i \in Pts(p) /\ cwd[p] \in Pts(p) /\ Ino(i).type # "free" /\ Unbroken
  BY <1>1, <1>2, <1>3, Before, LockLive
<1>5. \/ ip'[p] = Null /\ PutThen(p, <<i>>, "end")
      \/ ip'[p] = ip[p] /\ PutThen(p, <<cwd[p]>>, "chdir_set")
  BY <1>2 DEF chdir_ip, SetIp, Shape
<1>6. LooksUp(p, Null)
  BY <1>1, <1>2, <1>3, <1>4, <1>5, LockedCopy DEF LooksUp, Ends, Safe
<1>7. "end" \in Plain \ {"idle", "got"} /\ "chdir_set" \in Plain \ {"idle", "got"}
  BY DEF Plain
<1>8. CASE PutThen(p, <<i>>, "end")
  BY <1>1, <1>4, <1>6, <1>7, <1>8, PlainPut
<1>9. CASE PutThen(p, <<cwd[p]>>, "chdir_set")
  BY <1>1, <1>4, <1>6, <1>7, <1>9, PlainPut
<1> QED
  BY <1>5, <1>8, <1>9

\* The pointer is overwritten.
LEMMA ChdirSetQuiet ==
    ASSUME IInv, DiskInv, NEW p \in Procs, chdir_set(p)
    PROVE  DiskInv'
<1>1. pc[p] = "chdir_set" /\ Others(p) /\ pc[p] \notin Putting
  BY StepOthers DEF chdir_set, At, Step, IInv, Putting
<1>2. /\ UNCHANGED <<disk, durable, active, made, ref, ic, lock, ofile, dp>>
      /\ cwd'[p] = ip[p] /\ ip'[p] = Null /\ Goto(p, "end") /\ Unbroken
  BY DEF chdir_set, SetIp, log, icache, IInv, Shape, At
<1>3. L(p) = "chdir_set" /\ L(p)' = "end"
      /\ Pts(p)' \subseteq {cwd'[p], ofile'[p].ip, ip'[p], dp'[p], Null}
  BY <1>1, <1>2, WentTo DEF L, Loc, Putting
<1>4. Gets(p, Null)
  BY <1>2, <1>3, Locals DEF Gets
<1>5. CopyStep /\ Safe(Null)
  BY <1>2 DEF CopyStep, Safe
<1>6. Within(p) /\ L(p)' \in Plain
  BY <1>2, <1>3 DEF Within, Plain
<1>7. LockStep(p)
  <2>1. \A j \in Inums : Holds(p, j)' <=> Holds(p, j)
    BY <1>3 DEF Holds, HoldsDp, HoldsIp
  <2> QED
    BY <1>2, <1>5, <2>1, KeepLocks DEF DiskInv
<1> QED
  BY <1>1, <1>4, <1>5, <1>6, <1>7, PlainStep

\* What a write() has.
LEMMA WriteHas ==
    ASSUME IInv, DiskInv, NEW p \in Procs, write_ip(p)
    PROVE  /\ InCall(p) /\ pc[p] = "write_ip" /\ L(p) = "write_ip" /\ Others(p) /\ Shape
           /\ ofile[p].ip \in Inums /\ ofile[p].ip \in Pts(p) /\ lock[ofile[p].ip] = Nobody
           /\ Ino(ofile[p].ip).type # "free" /\ Copy(ofile[p].ip).valid
           /\ Copy(ofile[p].ip).type = Ino(ofile[p].ip).type
           /\ Copy(ofile[p].ip).nlink = Ino(ofile[p].ip).nlink
           /\ UNCHANGED <<durable, active, made, ref, lock, ofile, cwd, call, todo, ip, dp>>
<1>1. /\ InCall(p) /\ pc[p] = "write_ip" /\ Others(p) /\ lock[ofile[p].ip] = Nobody
      /\ UNCHANGED <<durable, active, made, ref, lock, ofile, cwd, call, todo, ip, dp>>
  BY StepOthers DEF write_ip, At, InCall, Putting, Step, IInv, files, locals
<1>2. Shape /\ ofile[p].ip \in Inums
  BY <1>1, Here, InumFacts DEF Putting, OpenFile
<1>3. L(p) = "write_ip" /\ ofile[p].ip \in Pts(p)
  BY <1>1, Before
<1> QED
  BY <1>1, <1>2, <1>3, LockLive

\* A write() that needs no block.
LEMMA WriteQuiet ==
    ASSUME IInv, DiskInv, NEW p \in Procs, write_ip(p), disk' = disk
    PROVE  DiskInv'
<1> DEFINE i == ofile[p].ip
<1>1. /\ InCall(p) /\ L(p) = "write_ip" /\ Others(p) /\ Shape
      /\ i \in Inums /\ Ino(i).type # "free" /\ Copy(i).type = Ino(i).type
      /\ UNCHANGED <<durable, active, made, ref, lock, ofile, cwd, call, todo, ip, dp>>
  BY WriteHas
<1>2. \/ panic' = "exhausted" /\ UNCHANGED <<ic, pc, put, then>>
      \/ Unbroken /\ ic' = Locked(i) /\ Goto(p, "end")
  BY <1>1 DEF write_ip
<1>3. CASE panic' = "exhausted" /\ UNCHANGED <<ic, pc, put, then>>
  BY <1>1, <1>3, StopQuiet
<1>4. CASE Unbroken /\ ic' = Locked(i) /\ Goto(p, "end")
  <2>1. Ends(p, Null) /\ Safe(Null) /\ CopyStep
    BY <1>1, <1>4, LockedCopy DEF Ends, Safe
  <2>2. Gets(p, Null) /\ L(p)' = "end"
    BY <1>1, <1>4, <2>1, GoGets DEF Putting
  <2>3. Within(p) /\ L(p)' \in Plain
    BY <1>1, <1>4, <2>2 DEF Within, Plain
  <2>4. LockStep(p)
    <3>1. \A j \in Inums : Holds(p, j)' <=> Holds(p, j)
      BY <1>1, <2>2 DEF Holds, HoldsDp, HoldsIp
    <3> QED
      BY <1>1, <2>1, <3>1, KeepLocks DEF DiskInv
  <2> QED
    BY <1>1, <2>1, <2>2, <2>3, <2>4, PlainStep
<1> QED
  BY <1>2, <1>3, <1>4

\* iput() of an inode that stays.
LEMMA IputQuiet ==
    ASSUME IInv, DiskInv, NEW p \in Procs, iput(p), ~Dropped(Head(put[p]))
    PROVE  DiskInv'
<1>1. /\ pc[p] = "iput" /\ Others(p) /\ Unbroken /\ pc'[p] = "unref"
      /\ UNCHANGED <<disk, durable, active, made, ref, ic, lock, cwd, ofile, call, todo, ip,
                     dp, put, then>>
  BY StepOthers DEF iput, At, Step, IInv, Shape, files, locals
<1>2. L(p)' = L(p)
  BY <1>1 DEF L, Loc, Putting
<1>3. Gets(p, Null) /\ Safe(Null)
  <2>1. CwdGivenUp(p)' = CwdGivenUp(p)
    BY <1>1 DEF CwdGivenUp
  <2> QED
    BY <1>1, <2>1, PtsIs, PtsNext DEF Gets, Safe
<1>4. CopyStep
  BY <1>1 DEF CopyStep
<1>5. LockStep(p)
  <2>1. \A j \in Inums : Holds(p, j)' <=> Holds(p, j)
    BY <1>1, <1>2 DEF Holds
  <2> QED
    BY <1>1, <1>4, <2>1, KeepLocks DEF DiskInv
<1>6. Linking(p)' = Linking(p)
  BY <1>1, <1>2 DEF Linking
<1>7. Quiet(p)
  BY <1>1, <1>2, <1>6 DEF Quiet, MakesSame, Owes
<1>8. DirP(p)' /\ FileP(p)' /\ EntryP(p)'
  <2>1. DirP(p) /\ FileP(p) /\ EntryP(p)
    BY DEF DiskInv, CallsSound
  <2> QED
    BY <1>1, <1>2, <1>6, <2>1 DEF DirP, FileP, EntryP, Ino, name, Putting
<1>9. Control'
  BY <1>1, <1>2, ControlKept DEF DiskInv
<1> QED
  BY <1>1, <1>3, <1>4, <1>5, <1>7, <1>8, <1>9, QuietInv DEF QuietStep

\* ref-- and the next inode to put.
LEMMA UnrefQuiet ==
    ASSUME IInv, DiskInv, NEW p \in Procs, unref(p)
    PROVE  DiskInv'
<1>1. /\ pc[p] = "unref" /\ Others(p) /\ Unbroken
      /\ UNCHANGED <<disk, durable, active, made, ic, lock, cwd, ofile, call, todo, ip, dp>>
      /\ put'[p] = Tail(put[p])
      /\ \/ put'[p] = <<>> /\ pc'[p] = then[p] /\ then'[p] = "idle"
         \/ put'[p] # <<>> /\ pc'[p] = "iput" /\ then'[p] = then[p]
  BY StepOthers DEF unref, At, Step, IInv, Shape, files, locals, log
<1>2. put[p] \in Seq(Inums) /\ put[p] # <<>> /\ Len(put[p]) <= 2 /\ then[p] \notin Putting
  BY <1>1, HerePutting DEF Putting
<1>3. L(p)' = L(p) /\ L(p) = then[p]
  BY <1>1, <1>2 DEF L, Loc, Putting
<1>4. Gets(p, Null) /\ Safe(Null)
  <2>1. CwdGivenUp(p) => CwdGivenUp(p)'
    BY <1>1, <1>2 DEF CwdGivenUp
  <2>2. Nth(put'[p], 1) = Nth(put[p], 2) /\ Nth(put'[p], 2) = Null
    BY <1>1, <1>2 DEF Nth
  <2> QED
    BY <1>1, <2>1, <2>2, PtsIs, PtsNext DEF Gets, Safe
<1>5. CopyStep
  BY <1>1 DEF CopyStep
<1>6. LockStep(p)
  <2>1. \A j \in Inums : Holds(p, j)' <=> Holds(p, j)
    BY <1>1, <1>3 DEF Holds
  <2> QED
    BY <1>1, <1>5, <2>1, KeepLocks DEF DiskInv
<1>7. Linking(p)' = Linking(p)
  BY <1>1, <1>3 DEF Linking
<1>8. Quiet(p)
  BY <1>1, <1>3, <1>7 DEF Quiet, MakesSame, Owes
<1>9. DirP(p)' /\ FileP(p)' /\ EntryP(p)'
  <2>1. DirP(p) /\ FileP(p) /\ EntryP(p)
    BY DEF DiskInv, CallsSound
  <2>2. L(p) = "iunlockput_dp" => put'[p] = <<>>
    <3>1. \A x : Tail(<<x>>) = <<>>
      OBVIOUS
    <3>2. pc[p] \in Putting
      BY <1>1 DEF Putting
    <3>3. L(p) = "iunlockput_dp" => \E x : put[p] = <<x>>
      BY <2>1, <3>2 DEF EntryP
    <3> QED
      BY <1>1, <3>1, <3>3, Zenon
  <2>3. L(p) = "iunlockput_dp" => pc'[p] \notin Putting
    BY <1>1, <1>2, <2>2
  <2> QED
    BY <1>1, <1>3, <1>7, <2>1, <2>3 DEF DirP, FileP, EntryP, Ino, name
<1>10. Control'
  BY <1>1, <1>3, ControlKept DEF DiskInv
<1> QED
  BY <1>1, <1>4, <1>5, <1>6, <1>8, <1>9, <1>10, QuietInv DEF QuietStep

-----------------------------------------------------------------------------
(* The start and the end of a call *)

\* A process that has no call.
LEMMA IdleHas ==
    ASSUME IInv, DiskInv, NEW p \in Procs, pc[p] = "idle"
    PROVE  /\ Shape /\ L(p) = "idle" /\ pc[p] \notin Putting /\ cwd[p] \in Pts(p)
           /\ ofile[p].ip \in Pts(p) /\ ip[p] \in Pts(p) /\ dp[p] \in Pts(p)
           /\ (\A j \in Inums : ~Holds(p, j)) /\ Safe(ROOTINO) /\ Safe(Null)
<1>1. pc[p] \notin Putting
  BY DEF Putting
<1>2. Shape /\ put[p] = <<>> /\ then[p] = "idle"
  BY <1>1, Here
<1>3. ~CwdGivenUp(p)
  BY <1>2 DEF CwdGivenUp
<1>4. L(p) = "idle"
  BY <1>1 DEF L, Loc
<1>5. Safe(ROOTINO) /\ Safe(Null)
  BY NamedSafe, InumFacts DEF Safe
<1> QED
  BY <1>1, <1>2, <1>3, <1>4, <1>5, Locals DEF Holds, HoldsDp, HoldsIp

\* Where a call starts.
Starts == {"end", "write_ip", "nameiparent", "namei", "link_inc", "open_ip", "chdir_ip"}

\* The start of a call, once its parts are known.
LEMMA StartQuiet ==
    ASSUME IInv, DiskInv, NEW p \in Procs, pc[p] = "idle", Others(p), begin_op(p),
           Unbroken, CopyStep, lock' = lock, Gets(p, ROOTINO),
           L(p)' \in Starts, L(p)' = "nameiparent" => call'[p].op # "link"
    PROVE  DiskInv'
<1>1. /\ L(p) = "idle" /\ (\A j \in Inums : ~Holds(p, j)) /\ Safe(ROOTINO)
  BY IdleHas
<1>2. LockStep(p)
  <2>1. \A j \in Inums : ~Holds(p, j)'
    BY DEF Holds, HoldsDp, HoldsIp, Starts
  <2> QED
    BY <1>1, <2>1, KeepLocks DEF DiskInv
<1>3. UNCHANGED <<disk, durable>>
  BY DEF begin_op
<1>4. ~Linking(p)' /\ \A i : ~Owes(p, i)'
  BY DEF Linking, Starts, Owes
<1>5. Quiet(p)
  BY <1>1, <1>3, <1>4 DEF Quiet, MakesSame, Starts
<1>6. DirP(p)' /\ FileP(p)' /\ EntryP(p)'
  BY <1>4 DEF DirP, FileP, EntryP, Starts, InDir
<1>7. Control'
  <2>1. active \subseteq Procs /\ made \in 0 .. MaxCalls /\ MaxCalls \in Nat
    BY FsAssumption DEF DiskInv, Control
  <2>2. active' = active \cup {p} /\ made' \in 0 .. MaxCalls
    BY <2>1 DEF begin_op
  <2>3. ASSUME NEW q \in Procs PROVE q \in active' <=> L(q)' # "idle"
    <3>1. CASE q = p
      BY <2>2, <3>1 DEF Starts
    <3>2. CASE q # p
      <4>1. L(q)' = L(q)
        BY <3>2, OthersSame DEF Same
      <4> QED
        BY <2>2, <3>2, <4>1 DEF DiskInv, Control
    <3> QED
      BY <3>1, <3>2
  <2>4. (\A q \in Procs : q \in active <=> L(q) # "idle")'
    BY <2>3
  <2> QED
    BY <2>1, <2>2, <2>4 DEF Control
<1> QED
  BY <1>1, <1>2, <1>3, <1>5, <1>6, <1>7, QuietInv DEF QuietStep

\* The start of a call.
LEMMA BeginQuiet ==
    ASSUME IInv, DiskInv, NEW p \in Procs, NEW c \in Calls, Begin(p, c)
    PROVE  DiskInv'
<1>1. pc[p] = "idle" /\ Others(p) /\ begin_op(p) /\ UNCHANGED cwd /\ Unbroken
  <2>1. Unbroken
    BY DEF Begin, At
  <2> QED
    BY <2>1, BeginOthers DEF Begin, At, IInv
<1>2. /\ Shape /\ L(p) = "idle" /\ pc[p] \notin Putting
      /\ {cwd[p], ofile[p].ip, ip[p], dp[p]} \subseteq Pts(p)
  BY <1>1, IdleHas
<1>3. call'[p] = c /\ (Start(p) = ROOTINO \/ Start(p) = cwd[p]) /\ Start(p) \in Inums
  BY <1>2, InumFacts DEF Begin, Start, Shape
<1>4. CASE /\ ofile' = [ofile EXCEPT ![p] = NoFile] /\ PutThen(p, <<ofile[p].ip>>, "end")
           /\ UNCHANGED <<icache, todo, ip, dp>>
  <2>1. CopyStep /\ lock' = lock
    BY <1>4 DEF CopyStep, icache
  <2>2. /\ L(p)' = "end" /\ ofile'[p].ip = Null
        /\ Pts(p)' \subseteq {cwd'[p], ofile'[p].ip, ip'[p], dp'[p], ofile[p].ip, Null}
    <3>1. ofile'[p].ip = Null
      BY <1>2, <1>4 DEF Shape, NoFile
    <3>2. "end" \notin Putting /\ PutThen(p, <<ofile[p].ip>>, "end")
      BY <1>4 DEF Putting
    <3> QED
      BY <3>1, <3>2, WentPut
  <2>3. Gets(p, ROOTINO)
    BY <1>1, <1>2, <1>4, <2>2 DEF Gets
  <2> QED
    BY <1>1, <2>1, <2>2, <2>3, StartQuiet DEF Starts
<1>5. CASE Goto(p, "write_ip") /\ UNCHANGED <<icache, ofile, todo, ip, dp>>
  <2>1. CopyStep /\ lock' = lock
    BY <1>5 DEF CopyStep, icache
  <2>2. /\ L(p)' = "write_ip"
        /\ Pts(p)' \subseteq {cwd'[p], ofile'[p].ip, ip'[p], dp'[p], Null}
    BY <1>2, <1>5, WentTo DEF Putting
  <2>3. Gets(p, ROOTINO)
    BY <1>1, <1>2, <1>5, <2>2 DEF Gets
  <2> QED
    BY <1>1, <2>1, <2>2, <2>3, StartQuiet DEF Starts
<1>6. CASE /\ c.op \in {"unlink", "create"} /\ SetDp(p, Start(p))
           /\ ic' = Recycled(ic, Start(p))
           /\ Goto(p, "nameiparent") /\ UNCHANGED <<lock, ofile, ip>>
  <2>1. CopyStep /\ lock' = lock /\ dp'[p] = Start(p)
    BY <1>2, <1>3, <1>6, GetCopy DEF SetDp, Shape
  <2>2. /\ L(p)' = "nameiparent"
        /\ Pts(p)' \subseteq {cwd'[p], ofile'[p].ip, ip'[p], dp'[p], Null}
    BY <1>2, <1>6, WentTo DEF Putting
  <2>3. Gets(p, ROOTINO)
    BY <1>1, <1>2, <1>3, <1>6, <2>1, <2>2 DEF Gets
  <2> QED
    BY <1>1, <1>3, <1>6, <2>1, <2>2, <2>3, StartQuiet DEF Starts
<1>7. CASE /\ c.op \in {"open", "link", "chdir"} /\ SetIp(p, Start(p))
           /\ ic' = Recycled(ic, Start(p))
           /\ Goto(p, NextElem(p)) /\ UNCHANGED <<lock, ofile, dp>>
  <2>1. CopyStep /\ lock' = lock /\ ip'[p] = Start(p)
    BY <1>2, <1>3, <1>7, GetCopy DEF SetIp, Shape
  <2>2. NextElem(p) \in {"namei", "link_inc", "open_ip", "chdir_ip"}
    BY <1>3, <1>7, AfterPath DEF NextElem
  <2>3. /\ L(p)' = NextElem(p)
        /\ Pts(p)' \subseteq {cwd'[p], ofile'[p].ip, ip'[p], dp'[p], Null}
    <3>1. NextElem(p) \notin Putting
      BY <2>2 DEF Putting
    <3> QED
      BY <1>2, <1>7, <3>1, WentTo
  <2>4. Gets(p, ROOTINO)
    BY <1>1, <1>2, <1>3, <1>7, <2>1, <2>3 DEF Gets
  <2> QED
    BY <1>1, <2>1, <2>2, <2>3, <2>4, StartQuiet DEF Starts
<1> QED
  BY <1>4, <1>5, <1>6, <1>7 DEF Begin

\* The end of a call: the last one out commits.
LEMMA EndQuiet ==
    ASSUME IInv, DiskInv, NEW p \in Procs, end_op(p)
    PROVE  DiskInv'
<1>1. /\ pc[p] = "end" /\ Others(p) /\ pc[p] \notin Putting
      /\ Unbroken /\ Goto(p, "idle")
      /\ UNCHANGED <<disk, made, ref, ic, lock, cwd, ofile, ip, dp>>
      /\ active' = active \ {p} /\ durable' = IF active' = {} THEN disk ELSE durable
  BY StepOthers DEF end_op, At, Step, IInv, icache, files, Putting
<1>2. /\ Shape /\ put[p] = <<>> /\ then[p] = "idle"
  BY <1>1, Here
<1>3. L(p) = "end" /\ ~CwdGivenUp(p)
  BY <1>1, <1>2 DEF L, Loc, CwdGivenUp
<1>4. /\ L(p)' = "idle"
      /\ Pts(p)' \subseteq {cwd'[p], ofile'[p].ip, ip'[p], dp'[p], Null}
  BY <1>1, WentTo DEF Putting
<1>5. Gets(p, Null) /\ Safe(Null)
  BY <1>1, <1>3, <1>4, Locals DEF Gets, Safe
<1>6. CopyStep /\ Cached /\ Locks /\ CallsSound /\ OnDisk
  BY <1>1 DEF CopyStep, DiskInv
<1>7. LockStep(p)
  <2>1. \A j \in Inums : ~Holds(p, j)' /\ ~Holds(p, j)
    BY <1>3, <1>4 DEF Holds, HoldsDp, HoldsIp
  <2> QED
    BY <1>1, <1>6, <2>1, KeepLocks
<1>8. Quiet(p) /\ DirP(p)' /\ FileP(p)' /\ EntryP(p)'
  <2>1. L(p)' \in Plain
    BY <1>4 DEF Plain
  <2>2. /\ (DirP(p) /\ FileP(p) /\ EntryP(p))' /\ L(p)' # "create_new"
        /\ (\A i : ~Owes(p, i))'
    BY <2>1, PlainKnowsNext
  <2> QED
    BY <1>1, <1>3, <2>2 DEF Quiet, MakesSame
<1>9. Control'
  <2>1. ASSUME NEW q \in Procs PROVE q \in active' <=> L(q)' # "idle"
    <3>1. CASE q = p
      BY <1>1, <1>4, <3>1
    <3>2. CASE q # p
      <4>1. L(q)' = L(q)
        BY <1>1, <3>2, OthersSame DEF Same
      <4> QED
        BY <1>1, <3>2, <4>1 DEF DiskInv, Control
    <3> QED
      BY <3>1, <3>2
  <2>2. (\A q \in Procs : q \in active <=> L(q) # "idle")'
    BY <2>1
  <2> QED
    BY <1>1, <2>2 DEF Control, DiskInv
<1>10. Durable'
  <2>1. CASE active' # {}
    BY <1>1, <2>1 DEF DiskInv, Durable, Tree, FreeEmpty, DirsOnly, Dotted, DotDot, NoCycle,
        Owned, Covered, NamesOf, Subdirs, IsDir
  <2>2. CASE active' = {}
    <3>1. \A q \in Procs : L(q) \in {"idle", "end"}
      BY <1>1, <1>3, <2>2 DEF DiskInv, Control
    <3>2. Making = {} /\ \A i : Owers(i) = {}
      BY <3>1 DEF Making, Owers, Owes, Linking
    <3>3. Tree(disk, {}) /\ \A i \in Inums : Covered(disk, i, 0)
      <4>1. \A i \in Inums : Cardinality(Owers(i)) = 0
        BY <3>2, FS_EmptySet
      <4> QED
        BY <1>6, <3>2, <4>1 DEF OnDisk, Counts
    <3>4. durable' = disk
      BY <1>1, <2>2
    <3> QED
      BY <3>3, <3>4 DEF Durable, Tree, FreeEmpty, DirsOnly, Dotted, DotDot, NoCycle,
        Owned, Covered, NamesOf, Subdirs, IsDir
  <2> QED
    BY <2>1, <2>2
<1>11. Cached' /\ Locks' /\ CallsSound' /\ OnDisk'
  BY <1>1, <1>5, <1>6, <1>7, <1>8, QuietCache, LocksKept, QuietCalls, QuietDisk
<1> QED
  BY <1>9, <1>10, <1>11 DEF DiskInv

-----------------------------------------------------------------------------
(* Steps that write the disk: counting *)

\* What inclusion says of the sizes of finite sets.
LEMMA Sizes ==
    ASSUME NEW A, NEW B, IsFiniteSet(A)
    PROVE  /\ B \subseteq A => Cardinality(B) <= Cardinality(A) + 0
           /\ \A x : B \subseteq A \cup {x} => Cardinality(B) <= Cardinality(A) + 1
           /\ \A x \in A : B \subseteq A \ {x} => Cardinality(B) <= Cardinality(A) + (-1)
<1>0. Cardinality(A) \in Nat
  BY FS_CardinalityType
<1>1. ASSUME B \subseteq A PROVE Cardinality(B) <= Cardinality(A) + 0
  <2>1. IsFiniteSet(B) /\ Cardinality(B) <= Cardinality(A)
    BY <1>1, FS_Subset
  <2>2. Cardinality(B) \in Nat
    BY <2>1, FS_CardinalityType
  <2> QED
    BY <1>0, <2>1, <2>2
<1>2. ASSUME NEW x, B \subseteq A \cup {x} PROVE Cardinality(B) <= Cardinality(A) + 1
  <2>1. /\ IsFiniteSet(A \cup {x})
        /\ Cardinality(A \cup {x}) = IF x \in A THEN Cardinality(A) ELSE Cardinality(A) + 1
    BY FS_AddElement
  <2>2. IsFiniteSet(B) /\ Cardinality(B) <= Cardinality(A \cup {x})
    BY <1>2, <2>1, FS_Subset
  <2>3. Cardinality(B) \in Nat
    BY <2>2, FS_CardinalityType
  <2> QED
    BY <1>0, <2>1, <2>2, <2>3
<1>3. ASSUME NEW x \in A, B \subseteq A \ {x}
      PROVE  Cardinality(B) <= Cardinality(A) + (-1)
  <2>1. /\ IsFiniteSet(A \ {x})
        /\ Cardinality(A \ {x}) = IF x \in A THEN Cardinality(A) - 1 ELSE Cardinality(A)
    BY FS_RemoveElement
  <2>2. IsFiniteSet(B) /\ Cardinality(B) <= Cardinality(A \ {x})
    BY <1>3, <2>1, FS_Subset
  <2>3. Cardinality(B) \in Nat
    BY <2>2, FS_CardinalityType
  <2> QED
    BY <1>0, <2>1, <2>2, <2>3
<1> QED
  BY <1>1, <1>2, <1>3

\* How a step changes the names, subdirectories, debts and links of an inode.
Delta(i, a, b, c) ==
    /\ Cardinality(NamesOf(disk', i)) <= Cardinality(NamesOf(disk, i)) + a
    /\ Cardinality(Subdirs(disk', i)) <= Cardinality(Subdirs(disk, i)) + b
    /\ Cardinality(Owers(i)') <= Cardinality(Owers(i)) + c
    /\ Ino(i)'.nlink >= Ino(i).nlink + a + b + c

\* The link count still covers the links.
LEMMA CoverStep ==
    ASSUME IInv, IInv', OnDisk, NEW i \in Inums,
           NEW a \in Int, NEW b \in Int, NEW c \in Int, Delta(i, a, b, c)
    PROVE  Covered(disk, i, Cardinality(Owers(i)))'
<1> DEFINE n == Cardinality(NamesOf(disk, i))
           nn == Cardinality(NamesOf(disk', i))
           s == Cardinality(Subdirs(disk, i))
           ss == Cardinality(Subdirs(disk', i))
           o == Cardinality(Owers(i))
           oo == Cardinality(Owers(i)')
           m == Ino(i).nlink
           mm == Ino(i)'.nlink
           r == IF i = ROOTINO THEN 1 ELSE 0
<1>1. n \in Nat /\ nn \in Nat /\ s \in Nat /\ ss \in Nat /\ o \in Nat /\ r \in Nat
  BY NamesFinite, OwersFinite
<1>2. oo \in Nat
  <2>1. Owers(i)' \subseteq Procs /\ IsFiniteSet(Procs)
    BY FsAssumption DEF Owers
  <2>2. IsFiniteSet(Owers(i)')
    BY <2>1, FS_Subset, Zenon
  <2> QED
    BY <2>2, FS_CardinalityType
<1>3. m \in Int /\ mm \in Int
  BY DEF IInv, Shape, Image, Ino
<1>4. m >= n + s + r + o
  BY DEF OnDisk, Counts, Covered, Ino
<1>5. nn <= n + a /\ ss <= s + b /\ oo <= o + c /\ mm >= m + a + b + c
  BY DEF Delta
<1>6. SUFFICES mm >= nn + ss + r + oo
  BY DEF Covered, Ino
<1> HIDE DEF n, nn, s, ss, o, oo, m, mm, r
<1>7. nn + ss + r + oo <= n + a + (s + b) + r + (o + c)
  BY <1>1, <1>2, <1>5
<1>8. n + a + (s + b) + r + (o + c) <= m + a + b + c
  BY <1>1, <1>3, <1>4
<1> QED
  BY <1>1, <1>2, <1>3, <1>5, <1>7, <1>8

\* The owers of an inode after a step of p.
LEMMA OwersStep ==
    ASSUME NEW p \in Procs, Others(p), NEW i
    PROVE  /\ Cardinality(Owers(i)') <= Cardinality(Owers(i)) + 1
           /\ (Owes(p, i)' => Owes(p, i)) =>
                Cardinality(Owers(i)') <= Cardinality(Owers(i)) + 0
           /\ Owes(p, i) /\ ~Owes(p, i)' =>
                Cardinality(Owers(i)') <= Cardinality(Owers(i)) + (-1)
<1>1. IsFiniteSet(Owers(i))
  BY OwersFinite
<1>2. ASSUME NEW q \in Procs, q # p PROVE q \in Owers(i)' <=> q \in Owers(i)
  BY <1>2, OthersSame DEF Same, Owers
<1>3. Owers(i) \subseteq Procs /\ Owers(i)' \subseteq Procs
  BY DEF Owers
<1>4. (p \in Owers(i) <=> Owes(p, i)) /\ (p \in Owers(i)' <=> Owes(p, i)')
  BY DEF Owers
<1>5. Owers(i)' \subseteq Owers(i) \cup {p}
  BY <1>2, <1>3
<1>6. (Owes(p, i)' => Owes(p, i)) => Owers(i)' \subseteq Owers(i)
  BY <1>2, <1>3, <1>4
<1>7. Owes(p, i) /\ ~Owes(p, i)' => p \in Owers(i) /\ Owers(i)' \subseteq Owers(i) \ {p}
  BY <1>2, <1>3, <1>4
<1> QED
  BY <1>1, <1>5, <1>6, <1>7, Sizes

\* An inode without links has no names, no subdirectories and no debts.
LEMMA NoLinks ==
    ASSUME IInv, OnDisk, NEW i \in Inums, Ino(i).nlink = 0
    PROVE  NamesOf(disk, i) = {} /\ Subdirs(disk, i) = {} /\ Owers(i) = {} /\ i # ROOTINO
<1> DEFINE n == Cardinality(NamesOf(disk, i))
           s == Cardinality(Subdirs(disk, i))
           o == Cardinality(Owers(i))
           r == IF i = ROOTINO THEN 1 ELSE 0
<1>1. n \in Nat /\ s \in Nat /\ o \in Nat /\ r \in Nat
  BY NamesFinite, OwersFinite
<1>2. 0 >= n + s + r + o
  BY DEF OnDisk, Counts, Covered, Ino
<1>3. n = 0 /\ s = 0 /\ o = 0 /\ r = 0
  <2> HIDE DEF n, s, o, r
  <2> QED
    BY <1>1, <1>2
<1> QED
  BY <1>3, NamesFinite, OwersFinite, FS_EmptySet

\* A write step preserves the invariant if it does so part by part.
Written(p) ==
    /\ Others(p) /\ LockStep(p) /\ Kept(p) /\ NewKept(p) /\ EntsKept(p) /\ OwnP(p)'
    /\ Cached' /\ Tree(disk, Making)' /\ Control' /\ durable' = durable

\* Together with the link counts.
LEMMA WriteInv ==
    ASSUME IInv, DiskInv, NEW p \in Procs, Written(p), Counts'
    PROVE  DiskInv'
<1>1. Locks /\ CallsSound /\ Durable
  BY DEF DiskInv
<1>2. Locks' /\ CallsSound'
  BY <1>1, LocksKept, CallsKept DEF Written
<1>3. Durable'
  BY <1>1 DEF Written, Durable, Tree, FreeEmpty, DirsOnly, Dotted, DotDot, NoCycle,
      Owned, Covered, NamesOf, Subdirs, IsDir
<1> QED
  BY <1>2, <1>3 DEF DiskInv, Written, OnDisk

-----------------------------------------------------------------------------
(* Steps that change the link count or the blocks of one inode *)

\* Types and entries stay.
Fields(i) ==
    \A j \in Inums :
        /\ Ino(j)'.type = Ino(j).type /\ Ino(j)'.ents = Ino(j).ents
        /\ j # i => Ino(j)' = Ino(j)

\* So does everything that is said of them.
LEMMA FieldTree ==
    ASSUME IInv, IInv', OnDisk, NEW i \in Inums, Ino(i).type # "free", Fields(i),
           Making' = Making, Owned(disk')
    PROVE  /\ Tree(disk, Making)'
           /\ \A j \in Inums :
                NamesOf(disk', j) = NamesOf(disk, j) /\ Subdirs(disk', j) = Subdirs(disk, j)
<1>1. \A j \in Inums :
        /\ disk'.inode[j].type = disk.inode[j].type /\ disk'.inode[j].ents = disk.inode[j].ents
        /\ j # i => disk'.inode[j] = disk.inode[j]
  BY DEF Fields, Ino
<1>2. \A j \in Inums, e \in Names : disk.inode[j].ents[e] \in Pointer
  BY DEF IInv, Shape, Image, Entries
<1>3. Tree(disk, Making) /\ disk.inode[i].type # "free"
  BY DEF OnDisk, Ino
<1>4. FreeEmpty(disk') /\ DirsOnly(disk') /\ Dotted(disk', Making')
  BY <1>1, <1>3 DEF Tree, FreeEmpty, DirsOnly, Dotted
<1>5. DotDot(disk')
  BY <1>1, <1>3 DEF Tree, DotDot
<1>6. NoCycle(disk')
  BY <1>1, <1>3 DEF Tree, NoCycle
<1>7. disk'.inode[ROOTINO].type = "T_DIR"
  BY <1>1, <1>3, InumFacts DEF Tree
<1>8. \A j \in Inums : NamesOf(disk', j) = NamesOf(disk, j)
  BY <1>1 DEF NamesOf
<1>9. \A j \in Inums : Subdirs(disk', j) = Subdirs(disk, j)
  <2>1. \A j \in Pointer : IsDir(disk', j) <=> IsDir(disk, j)
    BY <1>1, InumFacts DEF IsDir
  <2> QED
    BY <1>1, <1>2, <2>1 DEF Subdirs
<1> QED
  BY <1>4, <1>5, <1>6, <1>7, <1>8, <1>9 DEF Tree

\* The new inode of another call is not among those p refers to.
LEMMA NotNew ==
    ASSUME IInv, CallsSound, NEW p \in Procs, NEW q \in Procs \ {p}, L(q) = "create_new"
    PROVE  /\ ip[q] \in Inums /\ ip[q] # Null /\ ip[q] \notin Pts(p)
           /\ \A n : Safe(n) => n # ip[q]
<1>1. ip[q] \in Inums /\ ip[q] # Null
  BY LocalsType, InumFacts
<1> QED
  BY <1>1 DEF CallsSound, NewP, Safe, Making

\* Neither do the other calls notice.
LEMMA FieldCalls ==
    ASSUME IInv, CallsSound, NEW p \in Procs, Others(p), NEW i \in Inums, i \in Pts(p),
           Fields(i), NEW n, Safe(n), Gets(p, n), L(p)' # "create_new"
    PROVE  Kept(p) /\ NewKept(p) /\ EntsKept(p) /\ LiveP(p)' /\ NewP(p)'
<1>1. Kept(p)
  <2>1. \A q \in Procs : Pts(q) \subseteq Pointer
    BY LocalsType
  <2> QED
    BY <2>1, InumFacts DEF Kept, Fields
<1>2. EntsKept(p)
  BY DEF EntsKept, Fields
<1>3. NewKept(p)
  <2> SUFFICES ASSUME NEW q \in Procs \ {p}, L(q) = "create_new"
               PROVE  Ino(ip[q])' = Ino(ip[q]) /\ ip[q] \notin Pts(p)'
    BY DEF NewKept
  <2>1. ip[q] \in Inums /\ ip[q] # Null /\ ip[q] \notin Pts(p) /\ ip[q] # n
    BY NotNew
  <2>2. ip'[q] = ip[q]
    BY OthersSame DEF Same
  <2> QED
    BY <2>1, <2>2 DEF Fields, Gets, Ino
<1>4. LiveP(p)'
  <2>1. Pts(p) \subseteq Pointer /\ LiveP(p)
    BY LocalsType DEF CallsSound
  <2> QED
    BY <2>1, InumFacts DEF LiveP, Gets, Fields, Safe
<1>5. NewP(p)'
  BY DEF NewP
<1> QED
  BY <1>1, <1>2, <1>3, <1>4, <1>5

\* The cache after a copy has been written.
WriteCopy(i) ==
    /\ \A j \in Inums \ {i} :
        \/ ic'[j] = ic[j]
        \/ ic'[j] = Copy(j) /\ Ino(j).type # "free"
        \/ ref[j] = 0 /\ ~ic'[j].valid
    /\ ic'[i].valid /\ ic'[i].type = Ino(i)'.type /\ ic'[i].nlink = Ino(i)'.nlink

\* It has the values of the disk.
LEMMA WriteCache ==
    ASSUME IInv, Cached, Locks, NEW i \in Inums, WriteCopy(i), Ino(i)'.type # "free",
           \A j \in Inums \ {i} :
                Ino(j)'.type = Ino(j).type /\ Ino(j)'.nlink = Ino(j).nlink
    PROVE  Cached' /\ Stays
<1>1. ASSUME NEW j \in Inums, ic'[j].valid
      PROVE  /\ Ino(j)'.type # "free"
             /\ ic'[j].type = Ino(j)'.type /\ ic'[j].nlink = Ino(j)'.nlink
  <2>1. CASE j = i
    BY <2>1 DEF WriteCopy
  <2>2. CASE j # i
    <3>1. ic[j].valid =>
        Ino(j).type # "free" /\ ic[j].type = Ino(j).type /\ ic[j].nlink = Ino(j).nlink
      BY DEF Cached
    <3>2. \/ ic'[j] = ic[j]
          \/ ic'[j] = Copy(j) /\ Ino(j).type # "free"
      BY <1>1, <2>2 DEF WriteCopy
    <3> QED
      BY <1>1, <2>2, <3>1, <3>2 DEF Copy, Ino
  <2> QED
    BY <2>1, <2>2
<1>2. Cached'
  BY <1>1 DEF Cached, Ino
<1>3. ASSUME NEW j \in Inums, lock[j] # Nobody PROVE ic'[j].valid
  <2>1. ref[j] # 0 /\ ic[j].valid
    BY <1>3, HeldReferenced DEF Locks
  <2> QED
    BY <2>1 DEF WriteCopy, Copy
<1> QED
  BY <1>2, <1>3 DEF Stays

\* A step that writes one inode but not its entries.
FieldStep(p, i, n, c) ==
    /\ Others(p) /\ Fields(i) /\ Safe(n) /\ Gets(p, n) /\ Owned(disk') /\ LockStep(p)
    /\ (DirP(p) /\ FileP(p) /\ EntryP(p) /\ Control /\ Cached)' /\ durable' = durable
    /\ L(p) # "create_new" /\ L(p)' # "create_new"
    /\ \A j \in Inums \ {i} : Owes(p, j)' => Owes(p, j)
    /\ c \in Int /\ Ino(i)'.nlink >= Ino(i).nlink + c
    /\ Cardinality(Owers(i)') <= Cardinality(Owers(i)) + c

\* Such a step preserves the invariant.
LEMMA FieldInv ==
    ASSUME IInv, IInv', DiskInv, NEW p \in Procs, NEW i \in Inums, i \in Pts(p),
           NEW n, NEW c, FieldStep(p, i, n, c)
    PROVE  DiskInv'
<1>1. CallsSound /\ OnDisk /\ Ino(i).type # "free"
  BY LockLive DEF DiskInv
<1>2. Making' = Making
  BY MakingKept DEF FieldStep, MakesSame
<1>3. /\ Tree(disk, Making)'
      /\ \A j \in Inums :
            NamesOf(disk', j) = NamesOf(disk, j) /\ Subdirs(disk', j) = Subdirs(disk, j)
  BY <1>1, <1>2, FieldTree DEF FieldStep
<1>4. Kept(p) /\ NewKept(p) /\ EntsKept(p) /\ LiveP(p)' /\ NewP(p)'
  BY <1>1, FieldCalls DEF FieldStep
<1>5. Written(p)
  BY <1>3, <1>4 DEF Written, FieldStep, OwnP
<1>6. Counts'
  <2>1. ASSUME NEW j \in Inums
        PROVE  Covered(disk, j, Cardinality(Owers(j)))'
    <3>0. /\ Cardinality(NamesOf(disk', j)) <= Cardinality(NamesOf(disk, j)) + 0
          /\ Cardinality(Subdirs(disk', j)) <= Cardinality(Subdirs(disk, j)) + 0
      BY <1>3, NamesFinite
    <3>1. Ino(j).nlink \in Int /\ Ino(j)'.nlink \in Int
      BY DEF IInv, Shape, Image, Ino
    <3>2. CASE j = i
      <4>1. Delta(j, 0, 0, c) /\ c \in Int
        <5>1. Ino(j)'.nlink >= Ino(j).nlink + c /\ c \in Int
          BY <3>2 DEF FieldStep
        <5>2. Ino(j)'.nlink >= Ino(j).nlink + 0 + 0 + c
          BY <3>1, <5>1
        <5> QED
          BY <3>0, <3>2, <5>1, <5>2 DEF Delta, FieldStep
      <4> QED
        BY <1>1, <4>1, CoverStep
    <3>3. CASE j # i
      <4>1. Cardinality(Owers(j)') <= Cardinality(Owers(j)) + 0
        BY <3>3, OwersStep DEF FieldStep
      <4>2. Ino(j)'.nlink = Ino(j).nlink
        BY <3>3 DEF FieldStep, Fields
      <4>3. Delta(j, 0, 0, 0)
        BY <3>0, <3>1, <4>1, <4>2 DEF Delta
      <4> QED
        BY <1>1, <4>3, CoverStep
    <3> QED
      BY <3>2, <3>3
  <2> QED
    BY <2>1 DEF Counts
<1> QED
  BY <1>5, <1>6, WriteInv

-----------------------------------------------------------------------------
(* What the operations on images write *)

\* iupdate().
LEMMA IupdateIs ==
    ASSUME NEW d \in Image, NEW i \in Inums, NEW c, NEW x, x = iupdate(d, i, c)
    PROVE  /\ x.bitmap = d.bitmap /\ \A j \in Inums \ {i} : x.inode[j] = d.inode[j]
           /\ x.inode[i].type = c.type /\ x.inode[i].nlink = c.nlink
           /\ x.inode[i].ents = d.inode[i].ents /\ x.inode[i].addrs = d.inode[i].addrs
<1>1. /\ d.inode[i] \in Inode /\ d.inode \in [Inums -> Inode]
      /\ d = [inode |-> d.inode, bitmap |-> d.bitmap]
  BY DEF Image, Inode
<1> DEFINE v == [d.inode[i] EXCEPT !.type = c.type, !.nlink = c.nlink]
<1>2. x = [inode |-> [d.inode EXCEPT ![i] = v], bitmap |-> d.bitmap]
  BY <1>1 DEF iupdate
<1>3. /\ v.type = c.type /\ v.nlink = c.nlink
      /\ v.addrs = d.inode[i].addrs /\ v.ents = d.inode[i].ents
  BY <1>1 DEF Inode
<1> HIDE DEF v
<1>4. x.bitmap = d.bitmap /\ x.inode = [d.inode EXCEPT ![i] = v]
  BY <1>2
<1>5. x.inode[i] = v /\ \A j \in Inums \ {i} : x.inode[j] = d.inode[j]
  BY <1>1, <1>4
<1> QED
  BY <1>3, <1>4, <1>5

\* writei() of a directory entry.
LEMMA SetEntryIs ==
    ASSUME NEW d \in Image, NEW i \in Inums, NEW e \in Entries, NEW n, NEW x,
           x = SetEntry(d, i, e, n)
    PROVE  /\ x.bitmap = d.bitmap /\ \A j \in Inums \ {i} : x.inode[j] = d.inode[j]
           /\ x.inode[i].type = d.inode[i].type /\ x.inode[i].nlink = d.inode[i].nlink
           /\ x.inode[i].addrs = d.inode[i].addrs
           /\ x.inode[i].ents[e] = n
           /\ \A f \in Entries \ {e} : x.inode[i].ents[f] = d.inode[i].ents[f]
<1>1. /\ d.inode[i] \in Inode /\ d.inode \in [Inums -> Inode]
      /\ d = [inode |-> d.inode, bitmap |-> d.bitmap]
  BY DEF Image, Inode
<1> DEFINE v == [d.inode[i] EXCEPT !.ents[e] = n]
<1>2. x = [inode |-> [d.inode EXCEPT ![i] = v], bitmap |-> d.bitmap]
  BY <1>1 DEF SetEntry
<1>3. /\ v.type = d.inode[i].type /\ v.nlink = d.inode[i].nlink
      /\ v.addrs = d.inode[i].addrs /\ v.ents[e] = n
      /\ \A f \in Entries \ {e} : v.ents[f] = d.inode[i].ents[f]
  BY <1>1 DEF Inode
<1> HIDE DEF v
<1>4. x.bitmap = d.bitmap /\ x.inode = [d.inode EXCEPT ![i] = v]
  BY <1>2
<1>5. x.inode[i] = v /\ \A j \in Inums \ {i} : x.inode[j] = d.inode[j]
  BY <1>1, <1>4
<1> QED
  BY <1>3, <1>4, <1>5

\* balloc().
LEMMA BallocIs ==
    ASSUME NEW d \in Image, NEW i \in Inums, NEW x, x = balloc(d, i), d.bitmap # DBlocks
    PROVE  /\ \A j \in Inums \ {i} : x.inode[j] = d.inode[j]
           /\ x.inode[i].type = d.inode[i].type /\ x.inode[i].nlink = d.inode[i].nlink
           /\ x.inode[i].ents = d.inode[i].ents
           /\ \E b \in DBlocks \ d.bitmap :
                /\ x.inode[i].addrs = d.inode[i].addrs \cup {b}
                /\ x.bitmap = d.bitmap \cup {b}
<1> DEFINE b == Min(DBlocks \ d.bitmap)
<1>1. /\ d.inode[i] \in Inode /\ d.inode \in [Inums -> Inode] /\ d.bitmap \in SUBSET DBlocks
  BY DEF Image, Inode
<1>2. b \in DBlocks \ d.bitmap
  <2>1. DBlocks \ d.bitmap \in SUBSET Nat /\ DBlocks \ d.bitmap # {}
    BY <1>1, FsAssumption
  <2> QED
    BY <2>1, MinIn
<1> HIDE DEF b
<1>3. x = [inode |-> [d.inode EXCEPT ![i] =
                [d.inode[i] EXCEPT !.addrs = d.inode[i].addrs \cup {b}]],
           bitmap |-> d.bitmap \cup {b}]
  BY <1>1 DEF balloc, b
<1>4. /\ x.bitmap = d.bitmap \cup {b} /\ \A j \in Inums \ {i} : x.inode[j] = d.inode[j]
      /\ x.inode[i] = [d.inode[i] EXCEPT !.addrs = d.inode[i].addrs \cup {b}]
  BY <1>1, <1>3
<1>5. /\ x.inode[i].type = d.inode[i].type /\ x.inode[i].nlink = d.inode[i].nlink
      /\ x.inode[i].ents = d.inode[i].ents
      /\ x.inode[i].addrs = d.inode[i].addrs \cup {b}
  BY <1>1, <1>4 DEF Inode
<1> QED
  BY <1>2, <1>4, <1>5

\* The blocks stay with their owners when none moves.
LEMMA OwnedSame ==
    ASSUME NEW d, NEW x, Owned(d), x.bitmap = d.bitmap,
           \A j \in Inums : x.inode[j].addrs = d.inode[j].addrs
    PROVE  Owned(x)
BY DEF Owned

\* A block that nobody has is given to one.
LEMMA OwnedMore ==
    ASSUME NEW d, NEW x, NEW i \in Inums, NEW b, b \notin d.bitmap, Owned(d),
           x.bitmap = d.bitmap \cup {b}, x.inode[i].addrs = d.inode[i].addrs \cup {b},
           \A j \in Inums \ {i} : x.inode[j].addrs = d.inode[j].addrs
    PROVE  Owned(x)
<1>1. \A j \in Inums : b \notin d.inode[j].addrs
  BY DEF Owned
<1>2. ASSUME NEW j \in Inums, NEW k \in Inums, j # k
      PROVE  x.inode[j].addrs \cap x.inode[k].addrs = {}
  <2>1. d.inode[j].addrs \cap d.inode[k].addrs = {}
    BY <1>2 DEF Owned
  <2>2. j = i => x.inode[j].addrs = d.inode[j].addrs \cup {b} /\ k # i
    BY <1>2
  <2>3. k = i => x.inode[k].addrs = d.inode[k].addrs \cup {b}
    OBVIOUS
  <2>4. (j # i => x.inode[j].addrs = d.inode[j].addrs)
        /\ (k # i => x.inode[k].addrs = d.inode[k].addrs)
    OBVIOUS
  <2> QED
    BY <1>1, <2>1, <2>2, <2>3, <2>4
<1>3. x.bitmap = UNION {x.inode[j].addrs : j \in Inums}
  <2>1. d.bitmap = UNION {d.inode[j].addrs : j \in Inums}
    BY DEF Owned
  <2>2. ASSUME NEW y PROVE y \in x.bitmap <=> \E j \in Inums : y \in x.inode[j].addrs
    <3>1. y \in d.bitmap <=> \E j \in Inums : y \in d.inode[j].addrs
      BY <2>1
    <3>2. \A j \in Inums : y \in x.inode[j].addrs <=>
                (y \in d.inode[j].addrs \/ (j = i /\ y = b))
      OBVIOUS
    <3> QED
      BY <3>1, <3>2
  <2> QED
    BY <2>2
<1> QED
  BY <1>2, <1>3 DEF Owned

\* The blocks of an inode are given back.
LEMMA OwnedLess ==
    ASSUME NEW d, NEW x, NEW i \in Inums, Owned(d),
           x.bitmap = d.bitmap \ d.inode[i].addrs, x.inode[i].addrs = {},
           \A j \in Inums \ {i} : x.inode[j].addrs = d.inode[j].addrs
    PROVE  Owned(x)
<1>1. ASSUME NEW j \in Inums, NEW k \in Inums, j # k
      PROVE  x.inode[j].addrs \cap x.inode[k].addrs = {}
  <2>1. d.inode[j].addrs \cap d.inode[k].addrs = {}
    BY <1>1 DEF Owned
  <2> QED
    BY <2>1
<1>2. x.bitmap = UNION {x.inode[j].addrs : j \in Inums}
  <2>1. d.bitmap = UNION {d.inode[j].addrs : j \in Inums}
    BY DEF Owned
  <2>2. ASSUME NEW y PROVE y \in x.bitmap <=> \E j \in Inums : y \in x.inode[j].addrs
    <3>1. y \in d.bitmap <=> \E j \in Inums : y \in d.inode[j].addrs
      BY <2>1
    <3>2. \A j \in Inums : y \in x.inode[j].addrs <=> (y \in d.inode[j].addrs /\ j # i)
      OBVIOUS
    <3>3. \A j \in Inums : y \in d.inode[j].addrs /\ y \in d.inode[i].addrs => j = i
      BY DEF Owned
    <3> QED
      BY <3>1, <3>2, <3>3
  <2> QED
    BY <2>2
<1> QED
  BY <1>1, <1>2 DEF Owned

-----------------------------------------------------------------------------
(* The steps themselves *)

\* iupdate() of the copy c of an inode in use: what FieldStep asks of the disk.
LEMMA UpdateFields ==
    ASSUME IInv, OnDisk, NEW i \in Inums, NEW c, disk' = iupdate(disk, i, c),
           c.type = Ino(i).type
    PROVE  /\ Fields(i) /\ Owned(disk') /\ Ino(i)'.nlink = c.nlink
           /\ Ino(i)'.type = Ino(i).type /\ \A j \in Inums \ {i} : Ino(j)' = Ino(j)
<1>1. disk \in Image
  BY DEF IInv, Shape
<1>2. /\ disk'.bitmap = disk.bitmap /\ \A j \in Inums \ {i} : disk'.inode[j] = disk.inode[j]
      /\ disk'.inode[i].type = c.type /\ disk'.inode[i].nlink = c.nlink
      /\ disk'.inode[i].ents = disk.inode[i].ents /\ disk'.inode[i].addrs = disk.inode[i].addrs
  BY <1>1, IupdateIs
<1>3. Owned(disk')
  <2>1. Owned(disk)
    BY DEF OnDisk, Tree
  <2> QED
    BY <1>2, <2>1, OwnedSame
<1> QED
  BY <1>2, <1>3 DEF Fields, Ino

\* link() counts its link before it has written it.
LEMMA LinkIncWrite ==
    ASSUME IInv, IInv', DiskInv, NEW p \in Procs, link_inc(p), Copy(ip[p]).type # "T_DIR"
    PROVE  DiskInv'
<1>0. PICK i : i = ip[p]
  OBVIOUS
<1> DEFINE c == [Copy(i) EXCEPT !.nlink = @ + 1]
           s == Start(p)
<1>1. InCall(p) /\ pc[p] = "link_inc" /\ Others(p)
  BY StepOthers DEF link_inc, At, InCall, Putting, Step, IInv
<1>2. Shape /\ i \in Inums /\ call[p].op = "link"
  BY <1>0, <1>1, Here, InumFacts DEF Putting, IpAt, HasIp, OpAt
<1>3. /\ UNCHANGED <<durable, active, made, lock, ofile, cwd, ip, call>> /\ Ilock(i)
      /\ disk' = iupdate(disk, i, c) /\ SetDp(p, s)
      /\ ic' = Recycled([ic EXCEPT ![i] = c], s) /\ Goto(p, "nameiparent")
  BY <1>0 DEF link_inc, files, Ilock, ilock, ilock_iget
<1>4. /\ L(p) = "link_inc" /\ i \in Pts(p) /\ cwd[p] \in Pts(p) /\ ref[i] # 0
      /\ Ino(i).type # "free" /\ Copy(i).type = Ino(i).type /\ Copy(i).valid
      /\ Copy(i).nlink = Ino(i).nlink /\ Unbroken
  BY <1>0, <1>1, <1>2, <1>3, Before, LockLive, PtsReferenced
<1>5. c.valid /\ c.type = Ino(i).type /\ c.nlink = Ino(i).nlink + 1 /\ c \in CacheEntry
  <2>1. Copy(i) \in CacheEntry
    BY <1>2, CacheOps
  <2> QED
    BY <1>4, <2>1 DEF CacheEntry
<1>6. (s = ROOTINO \/ s = cwd[p]) /\ s \in Inums /\ dp'[p] = s
  BY <1>2, <1>3, InumFacts DEF Start, SetDp, Shape
<1> HIDE DEF c
<1>7. /\ Fields(i) /\ Owned(disk') /\ Ino(i)'.nlink = c.nlink
      /\ Ino(i)'.type = Ino(i).type /\ \A j \in Inums \ {i} : Ino(j)' = Ino(j)
  BY <1>2, <1>3, <1>5, UpdateFields DEF DiskInv
<1>8. WriteCopy(i)
  <2>1. ic \in Cache
    BY <1>2, CacheOps
  <2>2. /\ [ic EXCEPT ![i] = c][i] = c
        /\ \A j \in Inums \ {i} : [ic EXCEPT ![i] = c][j] = ic[j]
        /\ [ic EXCEPT ![i] = c] \in Cache
    BY <1>2, <1>5, <2>1 DEF Cache
  <2> DEFINE w == [ic EXCEPT ![i] = c]
  <2>3. w \in Cache /\ w[i] = c /\ \A j \in Inums \ {i} : w[j] = ic[j]
    BY <2>2
  <2> HIDE DEF w
  <2>4. ic' = Recycled(w, s)
    BY <1>3 DEF w
  <2>5. \A j \in Inums : ic'[j] = w[j] \/ (ref[j] = 0 /\ ~ic'[j].valid)
    BY <1>6, <2>3, <2>4 DEF Recycled, Cache, CacheEntry
  <2> QED
    BY <1>2, <1>4, <1>5, <1>7, <2>3, <2>5 DEF WriteCopy
<1>9. Cached' /\ Stays
  BY <1>2, <1>4, <1>7, <1>8, WriteCache DEF DiskInv
<1>10. Gets(p, ROOTINO) /\ L(p)' = "nameiparent" /\ Safe(ROOTINO)
  <2>1. /\ L(p)' = "nameiparent"
        /\ Pts(p)' \subseteq {cwd'[p], ofile'[p].ip, ip'[p], dp'[p], Null}
    BY <1>1, <1>3, WentTo DEF Putting
  <2>2. {cwd[p], ofile[p].ip, ip[p], dp[p]} \subseteq Pts(p)
    BY <1>1, Before
  <2> QED
    BY <1>3, <1>6, <2>1, <2>2, NamedSafe, InumFacts DEF Gets
<1>11. LockStep(p)
  <2>1. \A j \in Inums : Holds(p, j)' <=> Holds(p, j)
    BY <1>4, <1>10 DEF Holds, HoldsDp, HoldsIp
  <2> QED
    BY <1>3, <1>9, <2>1, StaysKeep DEF DiskInv
<1>12. DirP(p)' /\ EntryP(p)'
  BY <1>10 DEF DirP, InDir, EntryP
<1>13. FileP(p)'
  BY <1>0, <1>3, <1>4, <1>7 DEF FileP, Ino
<1>14. Control'
  BY <1>1, <1>3, <1>4, <1>10, ControlKept DEF DiskInv
<1>15. \A j \in Inums \ {i} : Owes(p, j)' => Owes(p, j)
  BY <1>0, <1>3 DEF Owes
<1>16. Ino(i)'.nlink >= Ino(i).nlink + 1
  <2>1. Ino(i).nlink \in Int
    BY <1>2 DEF Shape, Image, Ino
  <2> QED
    BY <1>5, <1>7, <2>1
<1>17. Cardinality(Owers(i)') <= Cardinality(Owers(i)) + 1
  BY <1>1, OwersStep
<1>18. FieldStep(p, i, ROOTINO, 1)
  BY <1>1, <1>3, <1>4, <1>7, <1>9, <1>10, <1>11, <1>12, <1>13, <1>14, <1>15, <1>16, <1>17
     DEF FieldStep
<1> QED
  BY <1>2, <1>4, <1>18, FieldInv

\* A link taken back: link() has failed, or unlink() has removed the entry.
LEMMA LinkDecWrite ==
    ASSUME IInv, IInv', DiskInv, NEW p \in Procs, InCall(p), NEW i \in Inums, i = ip[p],
           Owes(p, i), Others(p), LockStep(p), NEW c,
           c.valid, c.type = Ino(i).type, c.nlink = Ino(i).nlink - 1, c \in CacheEntry,
           disk' = iupdate(disk, i, c), ic' = [ic EXCEPT ![i] = c],
           UNCHANGED <<durable, active, made, ofile, cwd, dp>>, Unbroken,
           SetIp(p, Null), PutThen(p, <<i>>, "end")
    PROVE  DiskInv'
<1>1. Shape /\ i \in Pts(p) /\ L(p) = pc[p] /\ L(p) # "idle" /\ L(p) # "create_new"
  BY Before DEF IInv, Owes, Linking
<1>2. Ino(i).type # "free"
  BY <1>1, LockLive
<1>3. /\ Fields(i) /\ Owned(disk') /\ Ino(i)'.nlink = c.nlink
      /\ Ino(i)'.type = Ino(i).type /\ \A j \in Inums \ {i} : Ino(j)' = Ino(j)
  BY UpdateFields DEF DiskInv
<1>4. WriteCopy(i)
  <2>1. ic \in Cache
    BY <1>1, CacheOps
  <2>2. ic'[i] = c /\ \A j \in Inums \ {i} : ic'[j] = ic[j]
    BY <2>1 DEF Cache
  <2> QED
    BY <1>3, <2>2 DEF WriteCopy
<1>5. Cached'
  BY <1>2, <1>3, <1>4, WriteCache DEF DiskInv
<1>6. ip'[p] = Null /\ Ends(p, Null) /\ Safe(Null)
  BY <1>1 DEF SetIp, Shape, Ends, Safe
<1>7. Gets(p, Null) /\ L(p)' = "end"
  BY <1>1, <1>6, PutGets DEF Putting
<1>8. /\ (DirP(p) /\ FileP(p) /\ EntryP(p))' /\ (\A j : ~Owes(p, j))'
  BY <1>7, PlainKnowsNext DEF Plain
<1>9. Control'
  BY <1>1, <1>7, ControlKept DEF DiskInv
<1>10. Ino(i)'.nlink >= Ino(i).nlink + (-1)
  <2>1. Ino(i).nlink \in Int
    BY <1>1 DEF Shape, Image, Ino
  <2> QED
    BY <1>3, <2>1
<1>11. Cardinality(Owers(i)') <= Cardinality(Owers(i)) + (-1)
  BY <1>8, OwersStep
<1>12. FieldStep(p, i, Null, -1)
  BY <1>1, <1>3, <1>5, <1>6, <1>7, <1>8, <1>9, <1>10, <1>11 DEF FieldStep
<1> QED
  BY <1>1, <1>12, FieldInv

\* link() gives up.
LEMMA LinkBadWrite ==
    ASSUME IInv, IInv', DiskInv, NEW p \in Procs, link_bad(p)
    PROVE  DiskInv'
<1>0. PICK i : i = ip[p]
  OBVIOUS
<1> DEFINE c == [Copy(i) EXCEPT !.nlink = @ - 1]
<1>1. InCall(p) /\ pc[p] = "link_bad" /\ Others(p)
  BY StepOthers DEF link_bad, At, InCall, Putting, Step, IInv
<1>2. Shape /\ i \in Inums /\ call[p].op = "link"
  BY <1>0, <1>1, Here, InumFacts DEF Putting, IpAt, HasIp, OpAt
<1>3. /\ UNCHANGED <<durable, active, made, ofile, cwd, dp>> /\ lock' = lock /\ Ilock(i)
      /\ disk' = iupdate(disk, i, c) /\ ic' = [ic EXCEPT ![i] = c]
      /\ SetIp(p, Null) /\ PutThen(p, <<i>>, "end")
  BY <1>0 DEF link_bad, files, Ilock, ilock, ilock_iget
<1>4. /\ L(p) = "link_bad" /\ i \in Pts(p)
      /\ Copy(i).type = Ino(i).type /\ Copy(i).valid
      /\ Copy(i).nlink = Ino(i).nlink /\ Unbroken
  BY <1>0, <1>1, <1>2, <1>3, Before, LockLive
<1>5. c.valid /\ c.type = Ino(i).type /\ c.nlink = Ino(i).nlink - 1 /\ c \in CacheEntry
  <2>1. Copy(i) \in CacheEntry
    BY <1>2, CacheOps
  <2> QED
    BY <1>4, <2>1 DEF CacheEntry
<1>6. Owes(p, i)
  BY <1>0, <1>2, <1>4 DEF Owes, Linking
<1> HIDE DEF c
<1>7. LockStep(p)
  <2>1. L(p)' = "end"
    BY <1>3, WentPut DEF Putting
  <2>2. \A j \in Inums : Holds(p, j)' <=> Holds(p, j)
    BY <1>4, <2>1 DEF Holds, HoldsDp, HoldsIp
  <2>3. Stays
    <3>1. ic'[i] = c /\ \A j \in Inums \ {i} : ic'[j] = ic[j]
      BY <1>2, <1>3 DEF Shape
    <3> QED
      BY <1>5, <3>1 DEF Stays, DiskInv, Locks
  <2> QED
    BY <1>3, <2>2, <2>3, StaysKeep DEF DiskInv
<1> QED
  BY <1>0, <1>1, <1>2, <1>3, <1>4, <1>5, <1>6, <1>7, LinkDecWrite

\* unlink() has removed the entry.
LEMMA UnlinkDecWrite ==
    ASSUME IInv, IInv', DiskInv, NEW p \in Procs, unlink_dec(p)
    PROVE  DiskInv'
<1>0. PICK i : i = ip[p]
  OBVIOUS
<1> DEFINE c == [ic[i] EXCEPT !.nlink = @ - 1]
<1>1. InCall(p) /\ pc[p] = "unlink_dec" /\ Others(p) /\ Unbroken
  BY StepOthers DEF unlink_dec, At, InCall, Putting, Step, IInv
<1>2. Shape /\ i \in Inums
  BY <1>0, <1>1, Here, InumFacts DEF Putting, IpAt, HasIp
<1>3. /\ UNCHANGED <<durable, active, made, ofile, cwd, dp>> /\ lock' = Release(lock, i)
      /\ disk' = iupdate(disk, i, c) /\ ic' = [ic EXCEPT ![i] = c]
      /\ SetIp(p, Null) /\ PutThen(p, <<i>>, "end")
  BY <1>0 DEF unlink_dec, files, LinksLost
<1>4. L(p) = "unlink_dec"
  BY <1>1, Before
<1>5. \A j \in Inums : Holds(p, j) <=> j = i
  BY <1>0, <1>4 DEF Holds, HoldsDp, HoldsIp
<1>6. lock[i] = p /\ p # Nobody
  BY <1>2, <1>5, FsAssumption DEF DiskInv, Locks
<1>7. ic[i].valid /\ ic[i].type = Ino(i).type /\ ic[i].nlink = Ino(i).nlink
  BY <1>2, <1>6 DEF DiskInv, Locks, Cached
<1>8. c.valid /\ c.type = Ino(i).type /\ c.nlink = Ino(i).nlink - 1 /\ c \in CacheEntry
  <2>1. ic[i] \in CacheEntry
    BY <1>2, CacheOps
  <2> QED
    BY <1>7, <2>1 DEF CacheEntry
<1>9. Owes(p, i)
  BY <1>0, <1>4 DEF Owes
<1> HIDE DEF c
<1>10. LockStep(p)
  <2>1. L(p)' = "end"
    BY <1>3, WentPut DEF Putting
  <2>2. \A j \in Inums : ~Holds(p, j)'
    BY <2>1 DEF Holds, HoldsDp, HoldsIp
  <2>3. Stays
    <3>1. ic'[i] = c /\ \A j \in Inums \ {i} : ic'[j] = ic[j]
      BY <1>2, <1>3 DEF Shape
    <3> QED
      BY <1>8, <3>1 DEF Stays, DiskInv, Locks
  <2> QED
    BY <1>2, <1>3, <1>5, <2>2, <2>3, StaysDrop DEF DiskInv
<1> QED
  BY <1>0, <1>1, <1>2, <1>3, <1>8, <1>9, <1>10, LinkDecWrite

\* write() takes a block.
LEMMA WriteWrite ==
    ASSUME IInv, IInv', DiskInv, NEW p \in Procs, write_ip(p), disk' # disk
    PROVE  DiskInv'
<1>0. PICK i : i = ofile[p].ip
  OBVIOUS
<1>1. /\ InCall(p) /\ L(p) = "write_ip" /\ Others(p) /\ Shape
      /\ i \in Inums /\ i \in Pts(p) /\ Ino(i).type # "free" /\ Copy(i).valid
      /\ Copy(i).type = Ino(i).type /\ Copy(i).nlink = Ino(i).nlink
      /\ UNCHANGED <<durable, active, made, ref, lock, ofile, cwd, call, todo, ip, dp>>
  BY <1>0, WriteHas
<1>2. /\ disk' = balloc(disk, i) /\ disk.bitmap # DBlocks /\ Unbroken
      /\ ic' = Locked(i) /\ Goto(p, "end")
  BY <1>0, <1>1 DEF write_ip, NoBlocks
<1>3. /\ Fields(i) /\ Ino(i)'.nlink = Ino(i).nlink /\ Owned(disk')
      /\ \A j \in Inums \ {i} : Ino(j)' = Ino(j)
  <2>1. disk \in Image /\ Owned(disk)
    BY <1>1 DEF Shape, DiskInv, OnDisk, Tree
  <2>2. /\ \A j \in Inums \ {i} : disk'.inode[j] = disk.inode[j]
        /\ disk'.inode[i].type = disk.inode[i].type
        /\ disk'.inode[i].nlink = disk.inode[i].nlink
        /\ disk'.inode[i].ents = disk.inode[i].ents
        /\ \E b \in DBlocks \ disk.bitmap :
                /\ disk'.inode[i].addrs = disk.inode[i].addrs \cup {b}
                /\ disk'.bitmap = disk.bitmap \cup {b}
    BY <1>1, <1>2, <2>1, BallocIs
  <2>3. Owned(disk')
    BY <1>1, <2>1, <2>2, OwnedMore
  <2> QED
    BY <2>2, <2>3 DEF Fields, Ino
<1>4. WriteCopy(i)
  <2>1. ic \in Cache
    BY <1>1, CacheOps
  <2>2. ic'[i] = Copy(i) /\ \A j \in Inums \ {i} : ic'[j] = ic[j]
    BY <1>1, <1>2, <2>1 DEF Cache, Locked
  <2> QED
    BY <1>1, <1>3, <2>2 DEF WriteCopy, Fields
<1>5. Cached' /\ Stays
  <2>1. Ino(i)'.type # "free"
    BY <1>1, <1>3 DEF Fields
  <2> QED
    BY <1>1, <1>3, <1>4, <2>1, WriteCache DEF DiskInv
<1>6. Ends(p, Null) /\ Safe(Null)
  BY <1>1 DEF Ends, Safe
<1>7. Gets(p, Null) /\ L(p)' = "end"
  BY <1>1, <1>2, <1>6, GoGets DEF Putting
<1>8. /\ (DirP(p) /\ FileP(p) /\ EntryP(p))' /\ (\A j : ~Owes(p, j))'
  BY <1>7, PlainKnowsNext DEF Plain
<1>9. Control'
  BY <1>1, <1>2, <1>7, ControlKept DEF DiskInv
<1>10. Ino(i)'.nlink >= Ino(i).nlink + 0
  <2>1. Ino(i).nlink \in Int
    BY <1>1 DEF Shape, Image, Ino
  <2> QED
    BY <1>3, <2>1
<1>11. Cardinality(Owers(i)') <= Cardinality(Owers(i)) + 0
  BY <1>1, <1>8, OwersStep
<1>12. LockStep(p)
  <2>1. \A j \in Inums : Holds(p, j)' <=> Holds(p, j)
    BY <1>1, <1>7 DEF Holds, HoldsDp, HoldsIp
  <2> QED
    BY <1>1, <1>5, <2>1, StaysKeep DEF DiskInv
<1>13. FieldStep(p, i, Null, 0)
  BY <1>1, <1>3, <1>5, <1>6, <1>7, <1>8, <1>9, <1>10, <1>11, <1>12 DEF FieldStep
<1> QED
  BY <1>1, <1>13, FieldInv

-----------------------------------------------------------------------------
(* link() writes its entry *)

\* The name is that of no dot, since a directory has both.
LEMMA NewName ==
    ASSUME IInv, DiskInv, ParentsKept, NEW p \in Procs,
           pc[p] \in {"link_dir", "create_dp"}, dirlookup(dp[p], name(p)) = Null
    PROVE  name(p) \in Names
<1>1. /\ dp[p] \in Inums /\ dp[p] \notin Making /\ name(p) \in Entries
      /\ Ino(dp[p]).type = "T_DIR" /\ dirlookup(dp[p], name(p)) = Ino(dp[p]).ents[name(p)]
  BY InDirLive
<1>2. Ino(dp[p]).ents["."] # Null /\ Ino(dp[p]).ents[".."] # Null
  BY <1>1, InumFacts DEF DiskInv, OnDisk, Tree, Dotted, Ino
<1> QED
  BY <1>1, <1>2 DEF Entries

\* An image with one more entry, for something that is not a directory.
Entered(d, x, b, e, i) ==
    /\ d \in Image /\ x \in Image /\ b \in Inums /\ e \in Names /\ i \in Inums
    /\ d.inode[b].type = "T_DIR" /\ d.inode[i].type # "T_DIR"
    /\ x.bitmap = d.bitmap
    /\ \A j \in Inums \ {b} : x.inode[j] = d.inode[j]
    /\ x.inode[b].type = "T_DIR" /\ x.inode[b].addrs = d.inode[b].addrs
    /\ d.inode[b].ents[e] = Null /\ x.inode[b].ents[e] = i
    /\ \A f \in Entries \ {e} : x.inode[b].ents[f] = d.inode[b].ents[f]

\* It is a tree as before, in which i has one name more.
LEMMA EnteredTree ==
    ASSUME NEW d, NEW x, NEW b, NEW e, NEW i, Entered(d, x, b, e, i), NEW New, Tree(d, New)
    PROVE  /\ Tree(x, New)
           /\ NamesOf(x, i) \subseteq NamesOf(d, i) \cup {<<b, e>>}
           /\ \A j \in Inums : j # i => NamesOf(x, j) \subseteq NamesOf(d, j)
           /\ \A j \in Inums : Subdirs(x, j) \subseteq Subdirs(d, j)
<1>1. /\ b \in Inums /\ e \in Names /\ e \in Entries /\ e # "." /\ e # ".." /\ i \in Inums
      /\ i # b /\ Names \subseteq Entries /\ "." \in Entries /\ ".." \in Entries
  BY FsAssumption DEF Entered, Entries
<1>2. \A j \in Inums : x.inode[j].type = d.inode[j].type /\ x.inode[j].addrs = d.inode[j].addrs
  BY DEF Entered
<1>3. \A j \in Inums, f \in Entries :
        x.inode[j].ents[f] = d.inode[j].ents[f] \/ (j = b /\ f = e /\ x.inode[j].ents[f] = i)
  BY DEF Entered
<1>4. FreeEmpty(x) /\ DirsOnly(x)
  BY DEF Entered, Tree, FreeEmpty, DirsOnly
<1>5. Dotted(x, New)
  BY <1>1, <1>2, <1>3 DEF Dotted, Tree
<1>6. DotDot(x)
  <2> SUFFICES ASSUME NEW j \in Inums, NEW k \in Inums, NEW f \in Names,
                      x.inode[j].ents[f] = k, x.inode[k].type = "T_DIR"
               PROVE  x.inode[k].ents[".."] = j
    BY DEF DotDot
  <2>1. k # i
    BY <1>2 DEF Entered
  <2>2. d.inode[j].ents[f] = k
    BY <1>1, <1>3, <2>1
  <2>3. d.inode[k].ents[".."] = j
    BY <1>2, <2>2 DEF Tree, DotDot
  <2> QED
    BY <1>1, <1>3, <2>3
<1>7. NoCycle(x)
  <2> SUFFICES ASSUME NEW C \in SUBSET Inums, C # {}
               PROVE  \E c \in C : \A f \in Names : x.inode[c].ents[f] \notin C
    BY DEF NoCycle
  <2>1. CASE i \in C
    <3>1. d.inode[i].ents = NoEntries /\ x.inode[i] = d.inode[i]
      BY <1>1 DEF Tree, DirsOnly, Entered
    <3>2. \A f \in Names : x.inode[i].ents[f] = Null
      BY <1>1, <3>1 DEF NoEntries
    <3> QED
      BY <2>1, <3>2, InumFacts
  <2>2. CASE i \notin C
    <3>1. PICK c \in C : \A f \in Names : d.inode[c].ents[f] \notin C
      BY DEF Tree, NoCycle
    <3> QED
      BY <1>1, <1>3, <2>2, <3>1
  <2> QED
    BY <2>1, <2>2
<1>8. Owned(x)
  BY <1>2, OwnedSame DEF Tree, Entered
<1>9. x.inode[ROOTINO].type = "T_DIR"
  BY <1>2, InumFacts DEF Tree
<1>10. ASSUME NEW j \in Inums, NEW y \in NamesOf(x, j)
       PROVE  y \in NamesOf(d, j) \/ (j = i /\ y = <<b, e>>)
  <2>1. PICK k \in Inums, f \in Names : y = <<k, f>>
    BY DEF NamesOf
  <2>2. x.inode[k].ents[f] = j
    BY <2>1 DEF NamesOf
  <2>3. d.inode[k].ents[f] = j \/ (k = b /\ f = e /\ j = i)
    BY <1>1, <1>3, <2>2
  <2> QED
    BY <2>1, <2>3 DEF NamesOf
<1>11. ASSUME NEW j \in Inums, NEW f \in Subdirs(x, j)
       PROVE  f \in Subdirs(d, j)
  <2>1. f \in Names /\ IsDir(x, x.inode[j].ents[f])
    BY DEF Subdirs
  <2>2. x.inode[j].ents[f] \in Inums
    BY <1>1, <2>1, InumFacts DEF Entered, Image, IsDir
  <2>3. x.inode[j].ents[f] # i
    BY <1>2, <2>1 DEF Entered, IsDir
  <2>4. d.inode[j].ents[f] = x.inode[j].ents[f]
    BY <1>1, <1>3, <2>1, <2>3
  <2> QED
    BY <1>2, <2>1, <2>2, <2>4 DEF Subdirs, IsDir
<1>12. Tree(x, New)
  BY <1>4, <1>5, <1>6, <1>7, <1>8, <1>9 DEF Tree
<1> QED
  BY <1>1, <1>10, <1>11, <1>12

\* The counts of an inode that neither gains a name nor loses a link.
LEMMA LessLinks ==
    ASSUME IInv, IInv', OnDisk, NEW j \in Inums,
           NamesOf(disk', j) \subseteq NamesOf(disk, j),
           Subdirs(disk', j) \subseteq Subdirs(disk, j),
           Cardinality(Owers(j)') <= Cardinality(Owers(j)) + 0,
           Ino(j)'.nlink = Ino(j).nlink
    PROVE  Covered(disk, j, Cardinality(Owers(j)))'
<1>1. /\ Cardinality(NamesOf(disk', j)) <= Cardinality(NamesOf(disk, j)) + 0
      /\ Cardinality(Subdirs(disk', j)) <= Cardinality(Subdirs(disk, j)) + 0
  BY NamesFinite, Sizes
<1>2. Ino(j).nlink \in Int
  BY DEF IInv, Shape, Image, Ino
<1>3. Ino(j)'.nlink >= Ino(j).nlink + 0 + 0 + 0
  BY <1>2
<1>4. Delta(j, 0, 0, 0)
  BY <1>1, <1>3 DEF Delta
<1> QED
  BY <1>4, CoverStep

\* link() writes its entry.
LEMMA LinkDirWrite ==
    ASSUME IInv, IInv', DiskInv, ParentsKept, NEW p \in Procs, link_dir(p),
           dirlookup(dp[p], name(p)) = Null
    PROVE  DiskInv'
<1>0. PICK i, b, e : i = ip[p] /\ b = dp[p] /\ e = name(p)
  OBVIOUS
<1>1. pc[p] = "link_dir" /\ Others(p)
  BY StepOthers DEF link_dir, At, Step, IInv
<1>2. /\ InCall(p) /\ Shape /\ L(p) = "link_dir" /\ b \in Inums /\ b \in Pts(p)
      /\ Ino(b).type = "T_DIR" /\ Ino(b).ents[e] = Null /\ (Ilock(b) => Unbroken)
      /\ Copy(b).valid /\ Copy(b).type = "T_DIR" /\ Copy(b).nlink = Ino(b).nlink
  BY <1>0, <1>1, InDirLive
<1>3. e \in Names /\ e \in Entries
  BY <1>0, <1>1, NewName DEF Entries
<1>4. i \in Inums /\ call[p].op = "link" /\ i \in Pts(p)
  BY <1>0, <1>1, <1>2, Here, Before, InumFacts DEF Putting, IpAt, HasIp, OpAt
<1>5. Linking(p) /\ Ino(i).type # "T_DIR" /\ Ino(i).type # "free" /\ Owes(p, i)
      /\ \A j : Owes(p, j) => j = i
  <2>1. Linking(p)
    BY <1>2, <1>4 DEF Linking
  <2>2. Ino(ip[p]).type # "T_DIR"
    BY <2>1 DEF DiskInv, CallsSound, FileP
  <2> QED
    BY <1>0, <1>2, <1>4, <2>1, <2>2, LockLive DEF Owes
<1>6. /\ disk' = SetEntry(disk, b, e, i) /\ ic' = Locked(b)
      /\ SetIp(p, Null) /\ SetDp(p, Null) /\ PutThen(p, <<b, i>>, "end")
      /\ UNCHANGED <<durable, active, made, lock, ofile, cwd>> /\ Ilock(b)
  BY <1>0 DEF link_dir, files, Ilock, ilock, ilock_iget
<1>7. Entered(disk, disk', b, e, i)
  <2>1. disk \in Image /\ disk' \in Image
    BY DEF IInv, Shape
  <2>2. /\ disk'.bitmap = disk.bitmap
        /\ \A j \in Inums \ {b} : disk'.inode[j] = disk.inode[j]
        /\ disk'.inode[b].type = disk.inode[b].type
        /\ disk'.inode[b].addrs = disk.inode[b].addrs
        /\ disk'.inode[b].ents[e] = i
        /\ \A f \in Entries \ {e} : disk'.inode[b].ents[f] = disk.inode[b].ents[f]
    BY <1>2, <1>3, <1>6, <2>1, SetEntryIs
  <2> QED
    BY <1>2, <1>3, <1>4, <1>5, <2>1, <2>2 DEF Entered, Ino
<1>8. /\ \A j \in Inums : Ino(j)'.type = Ino(j).type /\ Ino(j)'.nlink = Ino(j).nlink
      /\ \A j \in Inums \ {b} : Ino(j)' = Ino(j)
  <2>1. disk'.inode[b].nlink = disk.inode[b].nlink
    BY <1>2, <1>3, <1>6, SetEntryIs DEF Shape
  <2> QED
    BY <1>7, <2>1 DEF Entered, Ino
<1>9. /\ Tree(disk', Making)
      /\ NamesOf(disk', i) \subseteq NamesOf(disk, i) \cup {<<b, e>>}
      /\ \A j \in Inums : j # i => NamesOf(disk', j) \subseteq NamesOf(disk, j)
      /\ \A j \in Inums : Subdirs(disk', j) \subseteq Subdirs(disk, j)
  BY <1>7, EnteredTree DEF DiskInv, OnDisk
<1>10. /\ ip'[p] = Null /\ dp'[p] = Null /\ L(p)' = "end"
       /\ Pts(p)' \subseteq Pts(p) \cup {Null}
  <2>1. ip'[p] = Null /\ dp'[p] = Null
    BY <1>2, <1>6 DEF SetIp, SetDp, Shape
  <2>2. /\ L(p)' = "end"
        /\ Pts(p)' \subseteq {cwd'[p], ofile'[p].ip, ip'[p], dp'[p], b, i, Null}
    BY <1>6, WentPutTwo DEF Putting
  <2>3. cwd[p] \in Pts(p) /\ ofile[p].ip \in Pts(p)
    BY <1>2, Before
  <2> QED
    BY <1>2, <1>4, <1>6, <2>1, <2>2, <2>3
<1>11. Making' = Making /\ Tree(disk, Making)'
  <2>1. Making' = Making
    BY <1>1, <1>2, <1>10, MakingKept DEF MakesSame
  <2> QED
    BY <1>9, <2>1
<1>12. Cached' /\ Stays
  <2>1. ic \in Cache
    BY <1>2, CacheOps
  <2>2. ic'[b] = Copy(b) /\ \A j \in Inums \ {b} : ic'[j] = ic[j]
    BY <1>2, <1>6, <2>1 DEF Cache, Locked
  <2>3. WriteCopy(b)
    BY <1>2, <1>8, <2>2 DEF WriteCopy
  <2> QED
    BY <1>2, <1>8, <2>3, WriteCache DEF DiskInv
<1>13. LockStep(p)
  <2>1. \A j \in Inums : Holds(p, j)' <=> Holds(p, j)
    BY <1>2, <1>10 DEF Holds, HoldsDp, HoldsIp
  <2> QED
    BY <1>6, <1>12, <2>1, StaysKeep DEF DiskInv
<1>14. Kept(p) /\ NewKept(p) /\ EntsKept(p)
  <2>1. Kept(p)
    BY <1>8, LocalsType, InumFacts DEF Kept
  <2>2. NewKept(p)
    <3> SUFFICES ASSUME NEW q \in Procs \ {p}, L(q) = "create_new"
                 PROVE  Ino(ip[q])' = Ino(ip[q]) /\ ip[q] \notin Pts(p)'
      BY DEF NewKept
    <3>1. ip[q] \in Inums /\ ip[q] # Null /\ ip[q] \notin Pts(p)
      BY NotNew DEF DiskInv
    <3>2. ip'[q] = ip[q]
      BY <1>1, OthersSame DEF Same
    <3> QED
      BY <1>2, <1>8, <1>10, <3>1, <3>2 DEF Ino
  <2>3. EntsKept(p)
    BY <1>6, <1>8 DEF EntsKept, Ilock, ilock, ilock_iget
  <2> QED
    BY <2>1, <2>2, <2>3
<1>15. OwnP(p)' /\ (\A j : ~Owes(p, j))'
  <2>1. Pts(p) \subseteq Pointer /\ LiveP(p)
    BY LocalsType DEF DiskInv, CallsSound
  <2>2. LiveP(p)'
    BY <1>8, <1>10, <2>1, InumFacts DEF LiveP
  <2>3. /\ (DirP(p) /\ FileP(p) /\ EntryP(p))' /\ (\A j : ~Owes(p, j))' /\ NewP(p)'
    BY <1>10, PlainKnowsNext DEF Plain
  <2> QED
    BY <2>2, <2>3 DEF OwnP
<1>16. Control'
  BY <1>1, <1>2, <1>6, <1>10, ControlKept DEF DiskInv
<1>17. Written(p)
  BY <1>1, <1>6, <1>11, <1>12, <1>13, <1>14, <1>15, <1>16 DEF Written
<1>18. Counts'
  <2>1. ASSUME NEW j \in Inums
        PROVE  Covered(disk, j, Cardinality(Owers(j)))'
    <3>1. CASE j # i
      <4>1. Cardinality(Owers(j)') <= Cardinality(Owers(j)) + 0
        BY <1>1, <1>15, OwersStep
      <4> QED
        BY <1>8, <1>9, <3>1, <4>1, LessLinks DEF DiskInv
    <3>2. CASE j = i
      <4>1. Cardinality(Owers(j)') <= Cardinality(Owers(j)) + (-1)
        BY <1>1, <1>5, <1>15, <3>2, OwersStep
      <4>2. /\ Cardinality(NamesOf(disk', j)) <= Cardinality(NamesOf(disk, j)) + 1
            /\ Cardinality(Subdirs(disk', j)) <= Cardinality(Subdirs(disk, j)) + 0
        BY <1>9, <3>2, NamesFinite, Sizes
      <4>3. Ino(j).nlink \in Int /\ Ino(j)'.nlink = Ino(j).nlink
        BY <1>2, <1>8 DEF Shape, Image, Ino
      <4>4. Ino(j)'.nlink >= Ino(j).nlink + 1 + 0 + (-1)
        BY <4>3
      <4>5. Delta(j, 1, 0, -1)
        BY <4>1, <4>2, <4>4 DEF Delta
      <4> QED
        BY <4>5, CoverStep DEF DiskInv
    <3> QED
      BY <3>1, <3>2
  <2> QED
    BY <2>1 DEF Counts
<1> QED
  BY <1>17, <1>18, WriteInv

-----------------------------------------------------------------------------
(* unlink() removes its entry *)

\* An image with one entry less.
Removed(d, x, b, e, i) ==
    /\ d \in Image /\ x \in Image /\ b \in Inums /\ e \in Names /\ i \in Inums
    /\ d.inode[b].type = "T_DIR" /\ x.bitmap = d.bitmap
    /\ \A j \in Inums \ {b} : x.inode[j] = d.inode[j]
    /\ x.inode[b].type = "T_DIR" /\ x.inode[b].addrs = d.inode[b].addrs
    /\ d.inode[b].ents[e] = i /\ x.inode[b].ents[e] = Null
    /\ \A f \in Entries \ {e} : x.inode[b].ents[f] = d.inode[b].ents[f]

\* It is a tree as before, in which i has one name less.
LEMMA RemovedTree ==
    ASSUME NEW d, NEW x, NEW b, NEW e, NEW i, Removed(d, x, b, e, i), NEW New, Tree(d, New)
    PROVE  /\ Tree(x, New)
           /\ <<b, e>> \in NamesOf(d, i) /\ NamesOf(x, i) \subseteq NamesOf(d, i) \ {<<b, e>>}
           /\ \A j \in Inums : NamesOf(x, j) \subseteq NamesOf(d, j)
           /\ \A j \in Inums : Subdirs(x, j) \subseteq Subdirs(d, j)
           /\ d.inode[i].type = "T_DIR" =>
                e \in Subdirs(d, b) /\ Subdirs(x, b) \subseteq Subdirs(d, b) \ {e}
<1>1. /\ b \in Inums /\ e \in Names /\ e \in Entries /\ e # "." /\ e # ".." /\ i \in Inums
      /\ Names \subseteq Entries /\ "." \in Entries /\ ".." \in Entries /\ i # Null
  BY FsAssumption, InumFacts DEF Removed, Entries
<1>2. \A j \in Inums : x.inode[j].type = d.inode[j].type /\ x.inode[j].addrs = d.inode[j].addrs
  BY DEF Removed
<1>3. \A j \in Inums, f \in Entries :
        IF j = b /\ f = e THEN x.inode[j].ents[f] = Null
        ELSE x.inode[j].ents[f] = d.inode[j].ents[f]
  BY DEF Removed
<1>4. FreeEmpty(x) /\ DirsOnly(x)
  BY DEF Removed, Tree, FreeEmpty, DirsOnly
<1>5. Dotted(x, New)
  BY <1>1, <1>2, <1>3 DEF Dotted, Tree
<1>6. DotDot(x)
  <2> SUFFICES ASSUME NEW j \in Inums, NEW k \in Inums, NEW f \in Names,
                      x.inode[j].ents[f] = k, x.inode[k].type = "T_DIR"
               PROVE  x.inode[k].ents[".."] = j
    BY DEF DotDot
  <2>1. k # Null
    BY InumFacts
  <2>2. d.inode[j].ents[f] = k
    BY <1>1, <1>3, <2>1
  <2>3. d.inode[k].ents[".."] = j
    BY <1>2, <2>2 DEF Tree, DotDot
  <2> QED
    BY <1>1, <1>3, <2>3
<1>7. NoCycle(x)
  <2> SUFFICES ASSUME NEW C \in SUBSET Inums, C # {}
               PROVE  \E c \in C : \A f \in Names : x.inode[c].ents[f] \notin C
    BY DEF NoCycle
  <2>1. PICK c \in C : \A f \in Names : d.inode[c].ents[f] \notin C
    BY DEF Tree, NoCycle
  <2>2. Null \notin C
    BY InumFacts
  <2> QED
    BY <1>1, <1>3, <2>1, <2>2
<1>8. Owned(x)
  BY <1>2, OwnedSame DEF Tree, Removed
<1>9. x.inode[ROOTINO].type = "T_DIR"
  BY <1>2, InumFacts DEF Tree
<1>10. ASSUME NEW j \in Inums, NEW y \in NamesOf(x, j)
       PROVE  y \in NamesOf(d, j) /\ y # <<b, e>>
  <2>1. PICK k \in Inums, f \in Names : y = <<k, f>>
    BY DEF NamesOf
  <2>2. x.inode[k].ents[f] = j /\ j # Null
    BY <2>1, InumFacts DEF NamesOf
  <2>3. d.inode[k].ents[f] = j /\ ~(k = b /\ f = e)
    BY <1>1, <1>3, <2>2
  <2> QED
    BY <2>1, <2>3 DEF NamesOf
<1>11. ASSUME NEW j \in Inums, NEW f \in Subdirs(x, j)
       PROVE  f \in Subdirs(d, j) /\ ~(j = b /\ f = e)
  <2>1. f \in Names /\ IsDir(x, x.inode[j].ents[f]) /\ x.inode[j].ents[f] # Null
    BY DEF Subdirs, IsDir
  <2>2. x.inode[j].ents[f] \in Inums
    BY <1>1, <2>1, InumFacts DEF Removed, Image, IsDir
  <2>3. d.inode[j].ents[f] = x.inode[j].ents[f] /\ ~(j = b /\ f = e)
    BY <1>1, <1>3, <2>1
  <2> QED
    BY <1>2, <2>1, <2>2, <2>3 DEF Subdirs, IsDir
<1>12. Tree(x, New)
  BY <1>4, <1>5, <1>6, <1>7, <1>8, <1>9 DEF Tree
<1>13. <<b, e>> \in NamesOf(d, i)
  BY <1>1 DEF NamesOf, Removed
<1>14. d.inode[i].type = "T_DIR" => e \in Subdirs(d, b)
  BY <1>1 DEF Subdirs, Removed, IsDir
<1>15. NamesOf(x, i) \subseteq NamesOf(d, i) \ {<<b, e>>}
  BY <1>1, <1>10
<1>16. Subdirs(x, b) \subseteq Subdirs(d, b) \ {e}
  BY <1>1, <1>11
<1>17. \A j \in Inums : NamesOf(x, j) \subseteq NamesOf(d, j)
                        /\ Subdirs(x, j) \subseteq Subdirs(d, j)
  BY <1>10, <1>11
<1> QED
  BY <1>12, <1>13, <1>14, <1>15, <1>16, <1>17

\* unlink() removes its entry and, with a directory, a link of the parent.
LEMMA UnlinkIpWrite ==
    ASSUME IInv, IInv', DiskInv, NEW p \in Procs, unlink_ip(p),
           ~(Copy(ip[p]).type = "T_DIR" /\ ~isdirempty(ip[p]))
    PROVE  DiskInv'
<1>0. PICK i, b, e : i = ip[p] /\ b = dp[p] /\ e = name(p)
  OBVIOUS
<1> DEFINE lost == IF Ino(i).type = "T_DIR" THEN 1 ELSE 0
           cb == [ic[b] EXCEPT !.nlink = IF Copy(i).type = "T_DIR" THEN @ - 1 ELSE @]
           y == SetEntry(disk, b, e, Null)
<1>1. /\ InCall(p) /\ L(p) = "unlink_ip" /\ Others(p) /\ Shape /\ i \in Inums
      /\ b \in Inums /\ i \in Pts(p) /\ b \in Pts(p) /\ e \in Names /\ e \in Entries
      /\ Ino(b).ents[e] = i /\ Ino(b).type = "T_DIR" /\ lock[b] = p /\ ic[b].valid
      /\ lock[i] = Nobody /\ i # b /\ Ino(i).type # "free" /\ Copy(i).valid
      /\ Copy(i).type = Ino(i).type /\ Copy(i).nlink = Ino(i).nlink
      /\ Unbroken /\ call[p].op = "unlink"
      /\ UNCHANGED <<durable, active, made, ref, cwd, ofile, call, todo>>
  BY <1>0, UnlinkHas DEF Entries
<1>2. /\ disk' = iupdate(y, b, cb)
      /\ ic' = [Locked(i) EXCEPT ![b] = cb]
      /\ lock' = Release(Hold(p, i), b) /\ UNCHANGED ip
      /\ SetDp(p, Null) /\ PutThen(p, <<b>>, "unlink_dec")
  BY <1>0 DEF unlink_ip
<1>3. cb.valid /\ cb.type = "T_DIR" /\ cb.nlink = Ino(b).nlink - lost
  <2>1. ic[b] \in CacheEntry /\ Ino(b).nlink \in Int
    BY <1>1, CacheOps DEF Shape, Image, Ino
  <2>2. ic[b].type = "T_DIR" /\ ic[b].nlink = Ino(b).nlink
    BY <1>1 DEF DiskInv, Cached
  <2> QED
    BY <1>1, <2>1, <2>2 DEF CacheEntry
<1>4. Removed(disk, disk', b, e, i) /\ disk'.inode[b].nlink = cb.nlink
  <2>0. disk \in Image /\ disk' \in Image /\ Null \in Pointer
    BY InumFacts DEF IInv, Shape
  <2>1. y \in Image
    BY <1>1, <2>0, ImageOps
  <2>2. /\ y.bitmap = disk.bitmap
        /\ \A j \in Inums \ {b} : y.inode[j] = disk.inode[j]
        /\ y.inode[b].addrs = disk.inode[b].addrs
        /\ y.inode[b].ents[e] = Null
        /\ \A f \in Entries \ {e} : y.inode[b].ents[f] = disk.inode[b].ents[f]
    BY <1>1, <2>0, SetEntryIs
  <2> HIDE DEF y, cb
  <2>3. /\ disk'.bitmap = y.bitmap /\ \A j \in Inums \ {b} : disk'.inode[j] = y.inode[j]
        /\ disk'.inode[b].type = cb.type /\ disk'.inode[b].nlink = cb.nlink
        /\ disk'.inode[b].ents = y.inode[b].ents /\ disk'.inode[b].addrs = y.inode[b].addrs
    BY <1>1, <1>2, <2>1, IupdateIs
  <2> QED
    BY <1>1, <1>3, <2>0, <2>2, <2>3 DEF Removed, Ino
<1> HIDE DEF cb, y
<1>5. /\ \A j \in Inums : Ino(j)'.type = Ino(j).type
      /\ \A j \in Inums \ {b} : Ino(j)' = Ino(j)
      /\ Ino(b)'.nlink = Ino(b).nlink - lost
  BY <1>1, <1>3, <1>4 DEF Removed, Ino
<1>6. /\ Tree(disk', Making)
      /\ <<b, e>> \in NamesOf(disk, i)
      /\ NamesOf(disk', i) \subseteq NamesOf(disk, i) \ {<<b, e>>}
      /\ \A j \in Inums : NamesOf(disk', j) \subseteq NamesOf(disk, j)
      /\ \A j \in Inums : Subdirs(disk', j) \subseteq Subdirs(disk, j)
      /\ disk.inode[i].type = "T_DIR" =>
            e \in Subdirs(disk, b) /\ Subdirs(disk', b) \subseteq Subdirs(disk, b) \ {e}
  BY <1>4, RemovedTree DEF DiskInv, OnDisk
<1>7. Gets(p, Null) /\ L(p)' = "unlink_dec" /\ ip'[p] = i
  <2>1. dp'[p] = Null
    BY <1>1, <1>2 DEF SetDp, Shape
  <2>2. Ends(p, Null)
    BY <1>1, <1>2, <2>1 DEF Ends
  <2> QED
    BY <1>0, <1>1, <1>2, <2>2, PutGets DEF Putting
<1>8. Making' = Making /\ Tree(disk, Making)'
  <2>1. Making' = Making
    BY <1>1, <1>7, MakingKept DEF MakesSame
  <2> QED
    BY <1>6, <2>1
<1>9. Cached' /\ Stays /\ ic'[i].valid
  <2>1. ic \in Cache
    BY <1>1, CacheOps
  <2>2. /\ Locked(i) \in Cache /\ Locked(i)[i] = Copy(i)
        /\ \A j \in Inums \ {i} : Locked(i)[j] = ic[j]
    BY <1>1, <2>1, CacheOps DEF Locked, Cache
  <2>3. ic'[b] = cb /\ \A j \in Inums \ {b} : ic'[j] = Locked(i)[j]
    BY <1>1, <1>2, <2>2 DEF Cache
  <2>4. WriteCopy(b)
    BY <1>1, <1>3, <1>5, <2>2, <2>3 DEF WriteCopy
  <2> QED
    BY <1>1, <1>5, <2>2, <2>3, <2>4, WriteCache DEF DiskInv
<1>10. LockStep(p)
  <2>1. \A j \in Inums : Holds(p, j) <=> j = b
    BY <1>0, <1>1 DEF Holds, HoldsDp, HoldsIp
  <2>2. \A j \in Inums : Holds(p, j)' <=> j = i
    BY <1>7 DEF Holds, HoldsDp, HoldsIp
  <2> QED
    BY <1>1, <1>2, <1>9, <2>1, <2>2, StaysSwap DEF DiskInv
<1>11. Kept(p) /\ NewKept(p) /\ EntsKept(p)
  <2>1. Kept(p)
    BY <1>5, LocalsType, InumFacts DEF Kept
  <2>2. NewKept(p)
    <3> SUFFICES ASSUME NEW q \in Procs \ {p}, L(q) = "create_new"
                 PROVE  Ino(ip[q])' = Ino(ip[q]) /\ ip[q] \notin Pts(p)'
      BY DEF NewKept
    <3>1. ip[q] \in Inums /\ ip[q] # Null /\ ip[q] \notin Pts(p)
      BY NotNew DEF DiskInv
    <3>2. ip'[q] = ip[q]
      BY <1>1, OthersSame DEF Same
    <3> QED
      BY <1>1, <1>5, <1>7, <3>1, <3>2 DEF Ino, Gets
  <2>3. EntsKept(p)
    BY <1>1, <1>5 DEF EntsKept
  <2> QED
    BY <2>1, <2>2, <2>3
<1>12. OwnP(p)'
  <2>1. Pts(p) \subseteq Pointer /\ LiveP(p)
    BY LocalsType DEF DiskInv, CallsSound
  <2>2. LiveP(p)'
    BY <1>5, <1>7, <2>1, InumFacts DEF LiveP, Gets
  <2>3. NewP(p)' /\ DirP(p)' /\ FileP(p)' /\ EntryP(p)'
    BY <1>7 DEF NewP, DirP, FileP, EntryP, InDir, Linking
  <2> QED
    BY <2>2, <2>3 DEF OwnP
<1>13. Control'
  BY <1>1, <1>7, ControlKept DEF DiskInv
<1>14. Written(p)
  BY <1>1, <1>8, <1>9, <1>10, <1>11, <1>12, <1>13 DEF Written
<1>15. Counts'
  <2>1. ASSUME NEW j \in Inums
        PROVE  Covered(disk, j, Cardinality(Owers(j)))'
    <3>0. Ino(j).nlink \in Int
      BY <1>1 DEF Shape, Image, Ino
    <3>1. Cardinality(Owers(j)') <= Cardinality(Owers(j)) + (IF j = i THEN 1 ELSE 0)
      <4>1. j # i => ~Owes(p, j)'
        BY <1>7 DEF Owes
      <4> QED
        BY <1>1, <4>1, OwersStep
    <3>2. CASE j = i
      <4>1. /\ Cardinality(NamesOf(disk', j)) <= Cardinality(NamesOf(disk, j)) + (-1)
            /\ Cardinality(Subdirs(disk', j)) <= Cardinality(Subdirs(disk, j)) + 0
        BY <1>6, <3>2, NamesFinite, Sizes
      <4>2. Ino(j)'.nlink >= Ino(j).nlink + (-1) + 0 + 1
        BY <1>1, <1>5, <3>0, <3>2
      <4>3. Delta(j, -1, 0, 1)
        BY <3>1, <3>2, <4>1, <4>2 DEF Delta
      <4> QED
        BY <4>3, CoverStep DEF DiskInv
    <3>3. CASE j = b
      <4>1. /\ Cardinality(NamesOf(disk', j)) <= Cardinality(NamesOf(disk, j)) + 0
            /\ Cardinality(Subdirs(disk', j)) <= Cardinality(Subdirs(disk, j)) + (-lost)
        <5>1. Cardinality(NamesOf(disk', j)) <= Cardinality(NamesOf(disk, j)) + 0
          BY <1>6, NamesFinite, Sizes
        <5>2. lost = 1 => e \in Subdirs(disk, j)
                          /\ Subdirs(disk', j) \subseteq Subdirs(disk, j) \ {e}
          BY <1>6, <3>3 DEF Ino
        <5>3. lost = 1 => Cardinality(Subdirs(disk', j)) <= Cardinality(Subdirs(disk, j)) + (-1)
          BY <5>2, NamesFinite, Sizes
        <5>4. Cardinality(Subdirs(disk', j)) <= Cardinality(Subdirs(disk, j)) + 0
          BY <1>6, NamesFinite, Sizes
        <5> QED
          BY <5>1, <5>3, <5>4
      <4>2. Ino(j)'.nlink >= Ino(j).nlink + 0 + (-lost) + 0
        BY <1>5, <3>0, <3>3
      <4>3. Cardinality(Owers(j)') <= Cardinality(Owers(j)) + 0
        BY <1>1, <3>1, <3>3
      <4>4. -lost \in Int
        OBVIOUS
      <4>5. PICK k \in Int : k = -lost
        BY <4>4
      <4> HIDE DEF lost
      <4>6. Delta(j, 0, k, 0)
        BY <4>1, <4>2, <4>3, <4>5 DEF Delta
      <4> QED
        BY <4>6, CoverStep DEF DiskInv
    <3>4. CASE j # i /\ j # b
      <4>1. Cardinality(Owers(j)') <= Cardinality(Owers(j)) + 0
        BY <3>1, <3>4
      <4> QED
        BY <1>5, <1>6, <3>4, <4>1, LessLinks DEF DiskInv
    <3> QED
      BY <3>2, <3>3, <3>4
  <2> QED
    BY <2>1 DEF Counts
<1> QED
  BY <1>14, <1>15, WriteInv

-----------------------------------------------------------------------------
(* ialloc() and the end of an inode *)

\* An image in which an inode without names has lost its entries.
Bare(d, x, i) ==
    /\ d \in Image /\ x \in Image /\ i \in Inums /\ i # ROOTINO
    /\ \A j \in Inums \ {i} : x.inode[j] = d.inode[j]
    /\ x.inode[i].ents = NoEntries /\ NamesOf(d, i) = {} /\ Owned(x)
    /\ x.inode[i].type = "free" => x.inode[i] = FreeInode

\* It is a tree as before, and nothing has more links.
LEMMA BareTree ==
    ASSUME NEW d, NEW x, NEW i, Bare(d, x, i), NEW Old, Tree(d, Old), NEW New,
           Old \subseteq New \cup {i}, x.inode[i].type = "T_DIR" => i \in New
    PROVE  /\ Tree(x, New)
           /\ \A j \in Inums : NamesOf(x, j) \subseteq NamesOf(d, j)
           /\ \A j \in Inums : Subdirs(x, j) \subseteq Subdirs(d, j)
<1>1. /\ i \in Inums /\ Names \subseteq Entries /\ "." \in Entries /\ ".." \in Entries
      /\ \A j \in Inums \ {i} : x.inode[j] = d.inode[j]
      /\ \A e \in Entries : x.inode[i].ents[e] = Null
  BY DEF Bare, Entries, NoEntries
<1>2. \A j \in Inums : j # Null
  BY InumFacts
<1>3. \A j \in Inums, e \in Names : d.inode[j].ents[e] # i
  <2> SUFFICES ASSUME NEW j \in Inums, NEW e \in Names, d.inode[j].ents[e] = i PROVE FALSE
    OBVIOUS
  <2>1. <<j, e>> \in NamesOf(d, i)
    BY DEF NamesOf
  <2> QED
    BY <2>1 DEF Bare
<1>4. \A j \in Inums, e \in Names :
        x.inode[j].ents[e] # Null => j # i /\ x.inode[j].ents[e] = d.inode[j].ents[e]
  BY <1>1
<1>5. FreeEmpty(x) /\ DirsOnly(x) /\ Dotted(x, New)
  BY <1>1 DEF Tree, FreeEmpty, DirsOnly, Dotted, Bare
<1>6. DotDot(x)
  <2> SUFFICES ASSUME NEW j \in Inums, NEW k \in Inums, NEW f \in Names,
                      x.inode[j].ents[f] = k, x.inode[k].type = "T_DIR"
               PROVE  x.inode[k].ents[".."] = j
    BY DEF DotDot
  <2>1. d.inode[j].ents[f] = k /\ k # i
    BY <1>2, <1>3, <1>4
  <2> QED
    BY <1>1, <2>1 DEF Tree, DotDot
<1>7. NoCycle(x)
  <2> SUFFICES ASSUME NEW C \in SUBSET Inums, C # {}
               PROVE  \E c \in C : \A f \in Names : x.inode[c].ents[f] \notin C
    BY DEF NoCycle
  <2>1. PICK c \in C : \A f \in Names : d.inode[c].ents[f] \notin C
    BY DEF Tree, NoCycle
  <2> QED
    BY <1>2, <1>4, <2>1
<1>8. x.inode[ROOTINO].type = "T_DIR"
  BY <1>1, InumFacts DEF Tree, Bare
<1>9. ASSUME NEW j \in Inums, NEW y \in NamesOf(x, j) PROVE y \in NamesOf(d, j)
  <2>1. PICK k \in Inums, f \in Names : y = <<k, f>>
    BY DEF NamesOf
  <2>2. x.inode[k].ents[f] = j
    BY <2>1 DEF NamesOf
  <2>3. d.inode[k].ents[f] = j
    BY <1>2, <1>4, <2>2
  <2> QED
    BY <2>1, <2>3 DEF NamesOf
<1>10. ASSUME NEW j \in Inums, NEW f \in Subdirs(x, j) PROVE f \in Subdirs(d, j)
  <2>1. f \in Names /\ x.inode[j].ents[f] # Null /\ x.inode[x.inode[j].ents[f]].type = "T_DIR"
    BY DEF Subdirs, IsDir
  <2>2. d.inode[j].ents[f] = x.inode[j].ents[f] /\ d.inode[j].ents[f] # i
    BY <1>3, <1>4, <2>1
  <2>3. x.inode[j].ents[f] \in Inums
    BY <1>1, <2>1, InumFacts DEF Bare, Image
  <2> QED
    BY <1>1, <2>1, <2>2, <2>3 DEF Subdirs, IsDir
<1>11. Tree(x, New)
  BY <1>5, <1>6, <1>7, <1>8 DEF Tree, Bare
<1> QED
  BY <1>9, <1>10, <1>11

\* Nobody refers to a free inode, and it has no links.
LEMMA FreeIs ==
    ASSUME IInv, DiskInv, NEW i \in Inums, Ino(i).type = "free"
    PROVE  /\ Ino(i) = FreeInode /\ Ino(i).nlink = 0 /\ Ino(i).addrs = {}
           /\ ~ic[i].valid /\ lock[i] = Nobody /\ i # ROOTINO /\ NamesOf(disk, i) = {}
           /\ \A q \in Procs : i \notin Pts(q)
<1>1. Ino(i) = FreeInode
  BY DEF DiskInv, OnDisk, Tree, FreeEmpty, Ino
<1>2. Ino(i).nlink = 0 /\ Ino(i).addrs = {}
  BY <1>1 DEF FreeInode
<1>3. NamesOf(disk, i) = {} /\ i # ROOTINO
  BY <1>2, NoLinks DEF DiskInv
<1>4. ~ic[i].valid /\ lock[i] = Nobody
  BY DEF DiskInv, Cached, Locks
<1>5. \A q \in Procs : i \notin Pts(q)
  BY InumFacts DEF DiskInv, CallsSound, LiveP
<1> QED
  BY <1>1, <1>2, <1>3, <1>4, <1>5

\* create() allocates its inode.
LEMMA CreateDpWrite ==
    ASSUME IInv, IInv', DiskInv, ParentsKept, NEW p \in Procs, create_dp(p),
           dirlookup(dp[p], name(p)) = Null, FreeInums # {}
    PROVE  DiskInv'
<1>0. PICK i, b, t : i = Min(FreeInums) /\ b = dp[p] /\ t = call[p].type
  OBVIOUS
<1>1. pc[p] = "create_dp" /\ Others(p) /\ panic = "no"
  BY StepOthers DEF create_dp, At, Step, IInv
<1>2. /\ InCall(p) /\ Shape /\ L(p) = "create_dp" /\ b \in Inums /\ b \in Pts(p)
      /\ Ino(b).type = "T_DIR" /\ ref[b] # 0 /\ lock[b] = Nobody
  BY <1>0, <1>1, InDirLive DEF create_dp, ilock_iget
<1>3. i \in Inums /\ Ino(i).type = "free"
  <2>1. FreeInums \in SUBSET Nat /\ FreeInums # {}
    BY InumFacts DEF FreeInums
  <2>2. i \in FreeInums
    BY <1>0, <2>1, MinIn
  <2> QED
    BY <2>2 DEF FreeInums, Ino
<1>4. /\ Ino(i) = FreeInode /\ Ino(i).nlink = 0 /\ Ino(i).addrs = {}
      /\ ~ic[i].valid /\ lock[i] = Nobody /\ i # ROOTINO /\ NamesOf(disk, i) = {}
      /\ \A q \in Procs : i \notin Pts(q)
  BY <1>3, FreeIs
<1>5. call[p] \in Calls /\ call[p].op = "create" /\ t \in Types \ {"free"}
  <2>1. call[p] \in Calls /\ call[p].op = "create"
    BY <1>1, <1>2, Here DEF OpAt, InCall
  <2> QED
    BY <1>0, <2>1, FsAssumption
<1>6. /\ disk' = [disk EXCEPT !.inode[i] = [FreeInode EXCEPT !.type = t]]
      /\ lock' = Hold(p, b) /\ ic' = Recycled(Locked(b), i)
      /\ SetIp(p, i) /\ Goto(p, "create_new")
      /\ UNCHANGED <<dp, durable, active, made, cwd, ofile, call, todo>> /\ Ilock(b)
  BY <1>0 DEF create_dp, files, Ilock, ilock_iget
<1>7. /\ disk'.bitmap = disk.bitmap
      /\ \A j \in Inums \ {i} : disk'.inode[j] = disk.inode[j]
      /\ disk'.inode[i].type = t /\ disk'.inode[i].nlink = 0
      /\ disk'.inode[i].ents = NoEntries /\ disk'.inode[i].addrs = {}
  <2> DEFINE v == [FreeInode EXCEPT !.type = t]
  <2>1. v.type = t /\ v.nlink = 0 /\ v.ents = NoEntries /\ v.addrs = {}
    BY DEF FreeInode
  <2> HIDE DEF v
  <2>2. /\ disk.inode \in [Inums -> Inode]
        /\ disk = [inode |-> disk.inode, bitmap |-> disk.bitmap]
    BY <1>2 DEF Shape, Image, Inode
  <2>3. disk' = [disk EXCEPT !.inode[i] = v]
    BY <1>6 DEF v
  <2>4. disk' = [inode |-> [disk.inode EXCEPT ![i] = v], bitmap |-> disk.bitmap]
    BY <2>2, <2>3
  <2>5. disk'.inode = [disk.inode EXCEPT ![i] = v] /\ disk'.bitmap = disk.bitmap
    BY <2>4
  <2> QED
    BY <1>3, <2>1, <2>2, <2>5
<1>8. /\ \A j \in Inums \ {i} : Ino(j)' = Ino(j)
      /\ \A j \in Inums : Ino(j)'.nlink = Ino(j).nlink
      /\ Ino(i)'.type = t /\ Ino(i)'.nlink = 0 /\ Ino(i)'.ents = NoEntries
  BY <1>4, <1>7 DEF Ino
<1>9. Gets(p, i) /\ L(p)' = "create_new" /\ ip'[p] = i /\ dp'[p] = b
  <2>1. ip'[p] = i /\ dp'[p] = b
    BY <1>0, <1>2, <1>6 DEF SetIp, Shape
  <2>2. Ends(p, i)
    BY <1>0, <1>6, <2>1 DEF Ends
  <2> QED
    BY <1>2, <1>6, <2>1, <2>2, GoGets DEF Putting
<1>10. Making \subseteq Making' /\ i \in Making'
  <2>1. ASSUME NEW q \in Procs, L(q) = "create_new"
        PROVE  L(q)' = "create_new" /\ ip'[q] = ip[q]
    BY <1>1, <1>2, <2>1, OthersSame DEF Same
  <2> QED
    BY <1>3, <1>9, <2>1 DEF Making
<1>11. /\ Tree(disk', Making')
       /\ \A j \in Inums : NamesOf(disk', j) \subseteq NamesOf(disk, j)
       /\ \A j \in Inums : Subdirs(disk', j) \subseteq Subdirs(disk, j)
  <2>1. Owned(disk')
    <3>1. \A j \in Inums : disk'.inode[j].addrs = disk.inode[j].addrs
      BY <1>4, <1>7 DEF Ino
    <3> QED
      BY <1>7, <3>1, OwnedSame DEF DiskInv, OnDisk, Tree
  <2>2. Bare(disk, disk', i)
    BY <1>3, <1>4, <1>5, <1>7, <2>1 DEF Bare, IInv, Shape
  <2> QED
    BY <1>10, <2>2, BareTree DEF DiskInv, OnDisk
<1>12. CopyStep /\ ic'[b].valid /\ ~ic'[i].valid
  <2>1. CopyStep /\ ic'[b].valid
    BY <1>2, <1>3, <1>6, RecycledCopy
  <2> QED
    BY <1>3, <1>4, <2>1 DEF CopyStep, Copy
<1>13. Cached'
  <2> SUFFICES ASSUME NEW j \in Inums, ic'[j].valid
               PROVE  /\ Ino(j)'.type # "free"
                      /\ ic'[j].type = Ino(j)'.type /\ ic'[j].nlink = Ino(j)'.nlink
    BY DEF Cached, Ino
  <2>1. j # i /\ Ino(j)' = Ino(j)
    BY <1>8, <1>12
  <2>2. ic[j].valid =>
        Ino(j).type # "free" /\ ic[j].type = Ino(j).type /\ ic[j].nlink = Ino(j).nlink
    BY DEF DiskInv, Cached
  <2>3. \/ ic'[j] = ic[j]
        \/ ic'[j] = Copy(j) /\ Ino(j).type # "free"
    BY <1>12 DEF CopyStep
  <2> QED
    BY <2>1, <2>2, <2>3 DEF Copy, Ino
<1>14. LockStep(p)
  <2>1. \A j \in Inums : ~Holds(p, j)
    BY <1>2 DEF Holds, HoldsDp, HoldsIp
  <2>2. \A j \in Inums : Holds(p, j)' <=> j = b
    BY <1>9 DEF Holds, HoldsDp, HoldsIp
  <2> QED
    BY <1>2, <1>6, <1>12, <2>1, <2>2, TakeLock DEF DiskInv
<1>15. Kept(p) /\ NewKept(p) /\ EntsKept(p)
  <2>1. Kept(p)
    BY <1>4, <1>8, LocalsType, InumFacts DEF Kept
  <2>2. NewKept(p)
    <3> SUFFICES ASSUME NEW q \in Procs \ {p}, L(q) = "create_new"
                 PROVE  Ino(ip[q])' = Ino(ip[q]) /\ ip[q] \notin Pts(p)'
      BY DEF NewKept
    <3>1. ip[q] \in Inums /\ ip[q] # Null /\ ip[q] \notin Pts(p)
      BY NotNew DEF DiskInv
    <3>2. ip'[q] = ip[q] /\ ip[q] # i
      BY <1>1, <1>4, OthersSame, Locals DEF Same
    <3> QED
      BY <1>8, <1>9, <3>1, <3>2 DEF Ino, Gets
  <2>3. EntsKept(p)
    BY <1>4, <1>8 DEF EntsKept
  <2> QED
    BY <2>1, <2>2, <2>3
<1>16. OwnP(p)' /\ \A j : ~Owes(p, j)'
  <2>1. Pts(p) \subseteq Pointer /\ LiveP(p) /\ i \notin Pts(p)
    BY <1>4, LocalsType DEF DiskInv, CallsSound
  <2>2. LiveP(p)'
    BY <1>5, <1>8, <1>9, <2>1, InumFacts DEF LiveP, Gets
  <2>3. NewP(p)'
    <3>1. \A q \in Procs \ {p} : i \notin Pts(q)'
      BY <1>1, <1>4, OthersSame DEF Same
    <3>2. i # b /\ call'[p].type = t
      BY <1>0, <1>2, <1>3, <1>6
    <3> QED
      BY <1>8, <1>9, <3>1, <3>2 DEF NewP, Ino
  <2>4. DirP(p)'
    BY <1>2, <1>3, <1>8, <1>9 DEF DirP, Ino
  <2>5. FileP(p)' /\ \A j : ~Owes(p, j)'
    BY <1>9 DEF FileP, Linking, Owes
  <2>6. EntryP(p)'
    <3>1. name(p)' = name(p) /\ name(p) \in Names
      BY <1>1, <1>6, NewName DEF name
    <3> QED
      BY <1>9, <3>1 DEF EntryP
  <2> QED
    BY <2>2, <2>3, <2>4, <2>5, <2>6 DEF OwnP
<1>17. Control'
  <2>1. Unbroken
    BY <1>2, <1>6, LockLive
  <2> QED
    BY <1>1, <1>2, <1>6, <1>9, <2>1, ControlKept DEF DiskInv
<1>18. Written(p)
  BY <1>1, <1>6, <1>11, <1>13, <1>14, <1>15, <1>16, <1>17 DEF Written
<1>19. Counts'
  <2>1. ASSUME NEW j \in Inums
        PROVE  Covered(disk, j, Cardinality(Owers(j)))'
    <3>1. Cardinality(Owers(j)') <= Cardinality(Owers(j)) + 0
      BY <1>1, <1>16, OwersStep
    <3> QED
      BY <1>8, <1>11, <3>1, LessLinks DEF DiskInv
  <2> QED
    BY <2>1 DEF Counts
<1> QED
  BY <1>18, <1>19, WriteInv

\* itrunc().
LEMMA ItruncIs ==
    ASSUME NEW d \in Image, NEW i \in Inums, NEW x, x = itrunc(d, i)
    PROVE  /\ x.bitmap = d.bitmap \ d.inode[i].addrs
           /\ \A j \in Inums \ {i} : x.inode[j] = d.inode[j]
           /\ x.inode[i].ents = NoEntries /\ x.inode[i].addrs = {}
<1>1. d.inode[i] \in Inode /\ d.inode \in [Inums -> Inode]
  BY DEF Image, Inode
<1> DEFINE v == [d.inode[i] EXCEPT !.addrs = {}, !.ents = NoEntries]
<1>2. x = [inode |-> [d.inode EXCEPT ![i] = v], bitmap |-> d.bitmap \ d.inode[i].addrs]
  BY <1>1 DEF itrunc
<1>3. v.ents = NoEntries /\ v.addrs = {}
  BY <1>1 DEF Inode
<1> HIDE DEF v
<1>4. x.bitmap = d.bitmap \ d.inode[i].addrs /\ x.inode = [d.inode EXCEPT ![i] = v]
  BY <1>2
<1> QED
  BY <1>1, <1>3, <1>4

\* The inode whose last reference goes, when it has no links.
LEMMA LastPut ==
    ASSUME IInv, DiskInv, NEW p \in Procs, iput(p), NEW i, i = Head(put[p]), Dropped(i)
    PROVE  /\ i \in Inums /\ i # ROOTINO /\ lock[i] = Nobody /\ Ino(i).nlink = 0
           /\ NamesOf(disk, i) = {} /\ i # ip[p] /\ i # dp[p]
           /\ i \notin Pts(p)' /\ Pts(p)' \subseteq Pts(p) \cup {Null}
           /\ \A q \in Procs \ {p} : i \notin Pts(q)
<1>1. /\ pc[p] = "iput" /\ pc'[p] = "unref" /\ lock[i] = Nobody
      /\ UNCHANGED <<cwd, ofile, ip, dp, put, then>>
  BY DEF iput, At, IInv, Shape, files, locals
<1>2. /\ put[p] \in Seq(Inums) /\ put[p] # <<>>
  BY <1>1 DEF IInv, Shape, RowInv, Row, Putting
<1>3. i \in Inums /\ Nth(put[p], 1) = i
  BY <1>2 DEF Nth
<1>4. Points(p, "put1") = i /\ i \in Pts(p)
  BY <1>1, <1>3, Locals DEF Points
<1>5. ref[i] = 1 /\ ic[i].valid /\ ic[i].nlink = 0
  BY DEF Dropped
<1>6. \A q \in Procs \ {p} : i \notin Pts(q)
  BY <1>3, <1>4, <1>5, PtsReferenced
<1>7. \A k \in Places : Points(p, k) = i => k = "put1"
  BY <1>3, <1>4, <1>5, Referenced DEF IInv, Places
<1>8. Ino(i).nlink = 0
  BY <1>3, <1>5 DEF DiskInv, Cached
<1>9. NamesOf(disk, i) = {} /\ i # ROOTINO
  BY <1>3, <1>8, NoLinks DEF DiskInv
<1>10. /\ (IF CwdGivenUp(p) THEN Null ELSE cwd[p]) # i /\ ofile[p].ip # i /\ ip[p] # i
       /\ dp[p] # i /\ Nth(put[p], 2) # i
  BY <1>7 DEF Points, Places
<1>11. CwdGivenUp(p)' = CwdGivenUp(p)
  BY <1>1 DEF CwdGivenUp
<1>12. i \notin Pts(p)' /\ Pts(p)' \subseteq Pts(p) \cup {Null}
  <2>1. Pts(p)' = {IF CwdGivenUp(p) THEN Null ELSE cwd[p], ofile[p].ip, ip[p], dp[p],
                   Null, Nth(put[p], 2)}
    BY <1>1, <1>11, PtsNext
  <2> QED
    BY <1>3, <1>10, <2>1, PtsIs, InumFacts
<1> QED
  BY <1>1, <1>3, <1>6, <1>8, <1>9, <1>10, <1>12

\* iput() frees it.
LEMMA IputWrite ==
    ASSUME IInv, IInv', DiskInv, NEW p \in Procs, iput(p), Dropped(Head(put[p]))
    PROVE  DiskInv'
<1>0. PICK i : i = Head(put[p])
  OBVIOUS
<1>1. /\ pc[p] = "iput" /\ Others(p) /\ Unbroken /\ pc'[p] = "unref"
      /\ disk' = iupdate(itrunc(disk, i), i, NoCopy) /\ ic' = [ic EXCEPT ![i] = NoCopy]
      /\ UNCHANGED <<durable, active, made, ref, lock, cwd, ofile, call, todo, ip,
                     dp, put, then>>
  BY <1>0, StepOthers DEF iput, At, Step, IInv, Shape, files, locals
<1>2. /\ i \in Inums /\ i # ROOTINO /\ lock[i] = Nobody /\ Ino(i).nlink = 0
      /\ NamesOf(disk, i) = {} /\ i # ip[p] /\ i # dp[p]
      /\ i \notin Pts(p)' /\ Pts(p)' \subseteq Pts(p) \cup {Null}
      /\ \A q \in Procs \ {p} : i \notin Pts(q)
  BY <1>0, LastPut
<1>3. L(p)' = L(p)
  BY <1>1 DEF L, Loc, Putting
<1>4. /\ disk'.bitmap = disk.bitmap \ disk.inode[i].addrs
      /\ \A j \in Inums \ {i} : disk'.inode[j] = disk.inode[j]
      /\ disk'.inode[i].type = "free" /\ disk'.inode[i].nlink = 0
      /\ disk'.inode[i].ents = NoEntries /\ disk'.inode[i].addrs = {}
  <2> DEFINE y == itrunc(disk, i)
  <2>0. disk \in Image /\ NoCopy.type = "free" /\ NoCopy.nlink = 0
    BY DEF IInv, Shape, NoCopy
  <2>1. y \in Image
    BY <1>2, <2>0, ImageOps
  <2>2. /\ y.bitmap = disk.bitmap \ disk.inode[i].addrs
        /\ \A j \in Inums \ {i} : y.inode[j] = disk.inode[j]
        /\ y.inode[i].ents = NoEntries /\ y.inode[i].addrs = {}
    BY <1>2, <2>0, ItruncIs
  <2>3. disk' = iupdate(y, i, NoCopy)
    BY <1>1
  <2> HIDE DEF y
  <2>4. /\ disk'.bitmap = y.bitmap /\ \A j \in Inums \ {i} : disk'.inode[j] = y.inode[j]
        /\ disk'.inode[i].type = NoCopy.type /\ disk'.inode[i].nlink = NoCopy.nlink
        /\ disk'.inode[i].ents = y.inode[i].ents /\ disk'.inode[i].addrs = y.inode[i].addrs
    BY <1>2, <2>1, <2>3, IupdateIs
  <2> QED
    BY <2>0, <2>2, <2>4
<1>5. /\ \A j \in Inums \ {i} : Ino(j)' = Ino(j)
      /\ \A j \in Inums : Ino(j)'.nlink = Ino(j).nlink
  BY <1>2, <1>4 DEF Ino
<1>6. Making' = Making
  BY <1>1, <1>3, MakingKept DEF MakesSame
<1>7. /\ Tree(disk', Making')
      /\ \A j \in Inums : NamesOf(disk', j) \subseteq NamesOf(disk, j)
      /\ \A j \in Inums : Subdirs(disk', j) \subseteq Subdirs(disk, j)
  <2>1. Owned(disk')
    BY <1>2, <1>4, OwnedLess DEF DiskInv, OnDisk, Tree
  <2>2. disk'.inode[i] = FreeInode
    <3>1. disk'.inode[i] \in Inode
      BY <1>2 DEF IInv, Shape, Image, Inode
    <3> QED
      BY <1>4, <3>1 DEF Inode, FreeInode
  <2>3. Bare(disk, disk', i)
    BY <1>2, <1>4, <2>1, <2>2 DEF Bare, IInv, Shape
  <2> QED
    BY <1>4, <1>6, <2>3, BareTree DEF DiskInv, OnDisk
<1>8. Cached' /\ Stays
  <2>1. ic \in Cache
    BY <1>2, CacheOps DEF IInv
  <2>2. ~ic'[i].valid /\ \A j \in Inums \ {i} : ic'[j] = ic[j]
    BY <1>1, <1>2, <2>1 DEF Cache, NoCopy
  <2>3. Cached'
    BY <1>5, <2>2 DEF DiskInv, Cached, Ino
  <2>4. Stays
    BY <1>2, <2>2 DEF DiskInv, Locks, Stays
  <2> QED
    BY <2>3, <2>4
<1>9. LockStep(p)
  <2>1. \A j \in Inums : Holds(p, j)' <=> Holds(p, j)
    BY <1>1, <1>3 DEF Holds
  <2> QED
    BY <1>1, <1>8, <2>1, StaysKeep DEF DiskInv
<1>10. Kept(p) /\ NewKept(p) /\ EntsKept(p)
  <2>1. Kept(p)
    BY <1>2, <1>5, LocalsType, InumFacts DEF Kept
  <2>2. NewKept(p)
    <3> SUFFICES ASSUME NEW q \in Procs \ {p}, L(q) = "create_new"
                 PROVE  Ino(ip[q])' = Ino(ip[q]) /\ ip[q] \notin Pts(p)'
      BY DEF NewKept
    <3>1. ip[q] \in Inums /\ ip[q] # Null /\ ip[q] \notin Pts(p)
      BY NotNew DEF DiskInv
    <3>2. ip'[q] = ip[q] /\ ip[q] # i
      BY <1>1, <1>2, Locals
    <3> QED
      BY <1>2, <1>5, <3>1, <3>2 DEF Ino
  <2>3. EntsKept(p)
    BY <1>2, <1>5 DEF EntsKept
  <2> QED
    BY <2>1, <2>2, <2>3
<1>11. Linking(p)' = Linking(p)
  BY <1>1, <1>3 DEF Linking
<1>12. OwnP(p)'
  <2>1. /\ Pts(p) \subseteq Pointer /\ LiveP(p) /\ NewP(p) /\ DirP(p) /\ FileP(p)
        /\ EntryP(p)
        /\ L(p) \in HoldsDp \cup InDir => dp[p] \in Inums
        /\ L(p) \in HoldsIp \cup {"create_new"} \/ Linking(p) => ip[p] \in Inums
    BY LocalsType DEF DiskInv, CallsSound
  <2>2. LiveP(p)'
    BY <1>2, <1>5, <2>1, InumFacts DEF LiveP
  <2>3. /\ L(p) \in HoldsDp \cup InDir => Ino(dp[p])' = Ino(dp[p])
        /\ L(p) = "create_new" \/ Linking(p) => Ino(ip[p])' = Ino(ip[p])
    BY <1>1, <1>2, <1>5, <2>1 DEF Ino
  <2>4. NewP(p)'
    <3>1. \A q \in Procs \ {p} : Pts(q)' = Pts(q)
      BY <1>1, OthersSame DEF Same
    <3> QED
      BY <1>1, <1>3, <2>1, <2>3, <3>1 DEF NewP
  <2>5. DirP(p)' /\ FileP(p)'
    BY <1>3, <1>11, <2>1, <2>3 DEF DirP, FileP
  <2>6. EntryP(p)'
    BY <1>1, <1>3, <2>1, <2>3 DEF EntryP, name, Putting, HoldsDp, InDir
  <2> QED
    BY <2>2, <2>4, <2>5, <2>6 DEF OwnP
<1>13. Control'
  BY <1>1, <1>3, ControlKept DEF DiskInv
<1>14. Written(p)
  BY <1>1, <1>7, <1>8, <1>9, <1>10, <1>12, <1>13 DEF Written
<1>15. Counts'
  <2>1. ASSUME NEW j \in Inums
        PROVE  Covered(disk, j, Cardinality(Owers(j)))'
    <3>1. Owes(p, j)' => Owes(p, j)
      BY <1>1, <1>3, <1>11 DEF Owes
    <3>2. Cardinality(Owers(j)') <= Cardinality(Owers(j)) + 0
      BY <1>1, <3>1, OwersStep
    <3> QED
      BY <1>5, <1>7, <3>2, LessLinks DEF DiskInv
  <2> QED
    BY <2>1 DEF Counts
<1> QED
  BY <1>14, <1>15, WriteInv

-----------------------------------------------------------------------------
(* create() finishes its inode *)

\* The links of the new inode and of its directory, and the entry.
IsLinked(d, x, b, e, i, ci, cb) ==
    /\ x \in Image /\ x.bitmap = d.bitmap
    /\ \A j \in Inums \ {i, b} : x.inode[j] = d.inode[j]
    /\ x.inode[i].type = ci.type /\ x.inode[i].nlink = ci.nlink
    /\ x.inode[i].ents = d.inode[i].ents /\ x.inode[i].addrs = d.inode[i].addrs
    /\ x.inode[b].type = cb.type /\ x.inode[b].nlink = cb.nlink
    /\ x.inode[b].addrs = d.inode[b].addrs /\ x.inode[b].ents[e] = i
    /\ \A f \in Entries \ {e} : x.inode[b].ents[f] = d.inode[b].ents[f]

\* create() writes them so.
LEMMA LinkedIs ==
    ASSUME NEW d \in Image, NEW i \in Inums, NEW b \in Inums, i # b, NEW e \in Names,
           NEW ci \in CacheEntry, NEW cb \in CacheEntry, NEW x,
           x = SetEntry(iupdate(iupdate(d, i, ci), b, cb), b, e, i)
    PROVE  IsLinked(d, x, b, e, i, ci, cb)
<1> DEFINE y == iupdate(d, i, ci)
           z == iupdate(y, b, cb)
<1>0. e \in Entries /\ i \in Pointer
  BY InumFacts DEF Entries
<1>1. y \in Image
  BY ImageOps
<1>2. /\ y.bitmap = d.bitmap /\ \A j \in Inums \ {i} : y.inode[j] = d.inode[j]
      /\ y.inode[i].type = ci.type /\ y.inode[i].nlink = ci.nlink
      /\ y.inode[i].ents = d.inode[i].ents /\ y.inode[i].addrs = d.inode[i].addrs
  BY IupdateIs
<1>3. x = SetEntry(z, b, e, i)
  OBVIOUS
<1> HIDE DEF y
<1>4. z \in Image
  BY <1>1, ImageOps
<1>5. /\ z.bitmap = y.bitmap /\ \A j \in Inums \ {b} : z.inode[j] = y.inode[j]
      /\ z.inode[b].type = cb.type /\ z.inode[b].nlink = cb.nlink
      /\ z.inode[b].ents = y.inode[b].ents /\ z.inode[b].addrs = y.inode[b].addrs
  BY <1>1, IupdateIs
<1> HIDE DEF z
<1>6. x \in Image
  BY <1>0, <1>3, <1>4, ImageOps
<1>7. /\ x.bitmap = z.bitmap /\ \A j \in Inums \ {b} : x.inode[j] = z.inode[j]
      /\ x.inode[b].type = z.inode[b].type /\ x.inode[b].nlink = z.inode[b].nlink
      /\ x.inode[b].addrs = z.inode[b].addrs
      /\ x.inode[b].ents[e] = i
      /\ \A f \in Entries \ {e} : x.inode[b].ents[f] = z.inode[b].ents[f]
  BY <1>0, <1>3, <1>4, SetEntryIs
<1> QED
  BY <1>2, <1>5, <1>6, <1>7 DEF IsLinked

\* The dots of a new directory, and the block they are in.
HasDots(d, x, b, i) ==
    /\ \A j \in Inums \ {i} : x.inode[j] = d.inode[j]
    /\ x.inode[i].type = d.inode[i].type /\ x.inode[i].nlink = d.inode[i].nlink
    /\ x.inode[i].ents["."] = i /\ x.inode[i].ents[".."] = b
    /\ \A f \in Names : x.inode[i].ents[f] = d.inode[i].ents[f]
    /\ \E k \in DBlocks \ d.bitmap :
        /\ x.inode[i].addrs = d.inode[i].addrs \cup {k}
        /\ x.bitmap = d.bitmap \cup {k}

\* create() writes them so.
LEMMA DotsIs ==
    ASSUME NEW d \in Image, NEW i \in Inums, NEW b \in Inums, d.bitmap # DBlocks, NEW x,
           x = balloc(SetEntry(SetEntry(d, i, ".", i), i, "..", b), i)
    PROVE  HasDots(d, x, b, i)
<1> DEFINE y == SetEntry(d, i, ".", i)
           z == SetEntry(y, i, "..", b)
<1>0. /\ "." \in Entries /\ ".." \in Entries /\ i \in Pointer /\ b \in Pointer
      /\ \A f \in Names : f \in Entries /\ f # "." /\ f # ".."
  BY InumFacts, FsAssumption DEF Entries
<1>1. y \in Image
  BY <1>0, ImageOps
<1>2. /\ y.bitmap = d.bitmap /\ \A j \in Inums \ {i} : y.inode[j] = d.inode[j]
      /\ y.inode[i].type = d.inode[i].type /\ y.inode[i].nlink = d.inode[i].nlink
      /\ y.inode[i].addrs = d.inode[i].addrs
      /\ y.inode[i].ents["."] = i
      /\ \A f \in Entries \ {"."} : y.inode[i].ents[f] = d.inode[i].ents[f]
  BY <1>0, SetEntryIs
<1>3. x = balloc(z, i)
  OBVIOUS
<1> HIDE DEF y
<1>4. z \in Image
  BY <1>0, <1>1, ImageOps
<1>5. /\ z.bitmap = y.bitmap /\ \A j \in Inums \ {i} : z.inode[j] = y.inode[j]
      /\ z.inode[i].type = y.inode[i].type /\ z.inode[i].nlink = y.inode[i].nlink
      /\ z.inode[i].addrs = y.inode[i].addrs
      /\ z.inode[i].ents[".."] = b
      /\ \A f \in Entries \ {".."} : z.inode[i].ents[f] = y.inode[i].ents[f]
  BY <1>0, <1>1, SetEntryIs
<1> HIDE DEF z
<1>6. /\ \A j \in Inums \ {i} : x.inode[j] = z.inode[j]
      /\ x.inode[i].type = z.inode[i].type /\ x.inode[i].nlink = z.inode[i].nlink
      /\ x.inode[i].ents = z.inode[i].ents
      /\ \E k \in DBlocks \ z.bitmap :
            /\ x.inode[i].addrs = z.inode[i].addrs \cup {k}
            /\ x.bitmap = z.bitmap \cup {k}
  BY <1>2, <1>3, <1>4, <1>5, BallocIs
<1> QED
  BY <1>0, <1>2, <1>5, <1>6 DEF HasDots

\* An image with one more inode that has a name.
Created(d, x, b, e, i) ==
    /\ d \in Image /\ x \in Image /\ b \in Inums /\ e \in Names /\ i \in Inums
    /\ i # b /\ i # ROOTINO /\ NamesOf(d, i) = {} /\ d.inode[b].type = "T_DIR"
    /\ \A j \in Inums \ {i, b} : x.inode[j] = d.inode[j]
    /\ x.inode[b].type = "T_DIR" /\ x.inode[b].ents[e] = i
    /\ \A f \in Entries \ {e} : x.inode[b].ents[f] = d.inode[b].ents[f]
    /\ x.inode[i].type # "free" /\ Owned(x)
    /\ \A f \in Names : x.inode[i].ents[f] = Null
    /\ IF x.inode[i].type = "T_DIR"
       THEN x.inode[i].ents["."] = i /\ x.inode[i].ents[".."] = b
       ELSE x.inode[i].ents = NoEntries

\* It is a tree as before, in which i has a name.
LEMMA CreatedTree ==
    ASSUME NEW d, NEW x, NEW b, NEW e, NEW i, Created(d, x, b, e, i),
           NEW Old, Tree(d, Old), NEW New, Old \subseteq New \cup {i}
    PROVE  /\ Tree(x, New)
           /\ NamesOf(x, i) \subseteq NamesOf(d, i) \cup {<<b, e>>} /\ Subdirs(x, i) = {}
           /\ \A j \in Inums : j # i => NamesOf(x, j) \subseteq NamesOf(d, j)
           /\ \A j \in Inums : j # b => Subdirs(x, j) \subseteq Subdirs(d, j)
           /\ Subdirs(x, b) \subseteq Subdirs(d, b) \cup {e}
           /\ x.inode[i].type # "T_DIR" => Subdirs(x, b) \subseteq Subdirs(d, b)
<1>1. /\ b \in Inums /\ e \in Names /\ e \in Entries /\ e # "." /\ e # ".." /\ i \in Inums
      /\ i # b /\ Names \subseteq Entries /\ "." \in Entries /\ ".." \in Entries
      /\ \A j \in Inums : j # Null
  BY FsAssumption, InumFacts DEF Created, Entries
<1>2. \A j \in Inums : j # i => x.inode[j].type = d.inode[j].type
  BY DEF Created
<1>3. \A j \in Inums, f \in Names :
        \/ x.inode[j].ents[f] = Null
        \/ j # i /\ x.inode[j].ents[f] = d.inode[j].ents[f]
        \/ j = b /\ f = e /\ x.inode[j].ents[f] = i
  BY <1>1 DEF Created
<1>4. \A j \in Inums, f \in Names : d.inode[j].ents[f] # i
  <2> SUFFICES ASSUME NEW j \in Inums, NEW f \in Names, d.inode[j].ents[f] = i PROVE FALSE
    OBVIOUS
  <2>1. <<j, f>> \in NamesOf(d, i)
    BY DEF NamesOf
  <2> QED
    BY <2>1 DEF Created
<1>5. FreeEmpty(x)
  BY <1>1 DEF Created, Tree, FreeEmpty
<1>6. DirsOnly(x)
  BY <1>1 DEF Created, Tree, DirsOnly
<1>7. Dotted(x, New)
  BY <1>1 DEF Created, Tree, Dotted
<1>8. DotDot(x)
  <2> SUFFICES ASSUME NEW j \in Inums, NEW k \in Inums, NEW f \in Names,
                      x.inode[j].ents[f] = k, x.inode[k].type = "T_DIR"
               PROVE  x.inode[k].ents[".."] = j
    BY DEF DotDot
  <2>1. CASE k = i
    <3>1. j = b
      BY <1>1, <1>3, <1>4, <2>1
    <3> QED
      BY <2>1, <3>1 DEF Created
  <2>2. CASE k # i
    <3>1. d.inode[j].ents[f] = k
      BY <1>1, <1>3, <2>2
    <3>2. d.inode[k].ents[".."] = j
      BY <1>2, <2>2, <3>1 DEF Tree, DotDot
    <3>3. x.inode[k].ents[".."] = d.inode[k].ents[".."]
      BY <1>1, <2>2 DEF Created
    <3> QED
      BY <3>2, <3>3
  <2> QED
    BY <2>1, <2>2
<1>9. NoCycle(x)
  <2> SUFFICES ASSUME NEW C \in SUBSET Inums, C # {}
               PROVE  \E c \in C : \A f \in Names : x.inode[c].ents[f] \notin C
    BY DEF NoCycle
  <2>1. CASE i \in C
    BY <1>1, <2>1 DEF Created
  <2>2. CASE i \notin C
    <3>1. PICK c \in C : \A f \in Names : d.inode[c].ents[f] \notin C
      BY DEF Tree, NoCycle
    <3> QED
      BY <1>1, <1>3, <2>2, <3>1
  <2> QED
    BY <2>1, <2>2
<1>10. x.inode[ROOTINO].type = "T_DIR"
  BY <1>2, InumFacts DEF Tree, Created
<1>11. ASSUME NEW j \in Inums, NEW y \in NamesOf(x, j)
       PROVE  y \in NamesOf(d, j) \/ (j = i /\ y = <<b, e>>)
  <2>1. PICK k \in Inums, f \in Names : y = <<k, f>>
    BY DEF NamesOf
  <2>2. x.inode[k].ents[f] = j
    BY <2>1 DEF NamesOf
  <2>3. d.inode[k].ents[f] = j \/ (k = b /\ f = e /\ j = i)
    BY <1>1, <1>3, <2>2
  <2> QED
    BY <2>1, <2>3 DEF NamesOf
<1>12. ASSUME NEW j \in Inums, NEW f \in Subdirs(x, j)
       PROVE  /\ j # i
              /\ f \in Subdirs(d, j) \/ (j = b /\ f = e /\ x.inode[i].type = "T_DIR")
  <2>1. f \in Names /\ x.inode[j].ents[f] # Null /\ x.inode[x.inode[j].ents[f]].type = "T_DIR"
    BY DEF Subdirs, IsDir
  <2>2. x.inode[j].ents[f] \in Inums
    BY <1>1, <2>1, InumFacts DEF Created, Image
  <2>3. j # i
    BY <2>1 DEF Created
  <2>4. CASE x.inode[j].ents[f] = i
    BY <1>3, <1>4, <2>1, <2>3, <2>4
  <2>5. CASE x.inode[j].ents[f] # i
    <3>1. d.inode[j].ents[f] = x.inode[j].ents[f]
      BY <1>3, <2>1, <2>5
    <3> QED
      BY <1>2, <2>1, <2>2, <2>3, <2>5, <3>1 DEF Subdirs, IsDir
  <2> QED
    BY <2>3, <2>4, <2>5
<1>13. Tree(x, New)
  BY <1>5, <1>6, <1>7, <1>8, <1>9, <1>10 DEF Tree, Created
<1>14. Subdirs(x, i) = {}
  BY <1>1, <1>12
<1>15. /\ NamesOf(x, i) \subseteq NamesOf(d, i) \cup {<<b, e>>}
       /\ \A j \in Inums : j # i => NamesOf(x, j) \subseteq NamesOf(d, j)
  BY <1>1, <1>11
<1>16. /\ \A j \in Inums : j # b => Subdirs(x, j) \subseteq Subdirs(d, j)
       /\ Subdirs(x, b) \subseteq Subdirs(d, b) \cup {e}
       /\ x.inode[i].type # "T_DIR" => Subdirs(x, b) \subseteq Subdirs(d, b)
  BY <1>1, <1>12
<1> QED
  BY <1>13, <1>14, <1>15, <1>16

\* What create() knows when it has allocated its inode.
LEMMA CreateHas ==
    ASSUME IInv, DiskInv, NEW p \in Procs, create_new(p),
           NEW i, NEW b, NEW e, NEW t,
           i = ip[p] /\ b = dp[p] /\ e = name(p) /\ t = call[p].type
    PROVE  /\ InCall(p) /\ L(p) = "create_new" /\ Others(p) /\ Shape /\ i \in Inums
           /\ b \in Inums /\ i \in Pts(p) /\ b \in Pts(p) /\ e \in Names
           /\ Ino(i).type = t /\ t # "free" /\ Ino(i).nlink = 0 /\ Ino(i).ents = NoEntries
           /\ i # b /\ i # ROOTINO /\ NamesOf(disk, i) = {}
           /\ Ino(b).type = "T_DIR" /\ ic[b].valid /\ ic[b].type = "T_DIR"
           /\ ic[b].nlink = Ino(b).nlink /\ lock[i] = Nobody /\ lock[b] = p
           /\ Copy(i).valid /\ Copy(i).type = t
           /\ \A q \in Procs \ {p} : i \notin Pts(q)
           /\ UNCHANGED <<durable, active, made, ref, cwd, ofile, call, todo, ip>>
<1>1. /\ pc[p] = "create_new" /\ Others(p) /\ lock[i] = Nobody
      /\ UNCHANGED <<durable, active, made, ref, cwd, ofile, call, todo, ip>>
  BY StepOthers DEF create_new, At, Step, IInv, files
<1>2. InCall(p) /\ Shape
  BY <1>1 DEF InCall, Putting, IInv
<1>3. L(p) = "create_new" /\ i \in Pts(p) /\ b \in Pts(p)
  BY <1>1, <1>2, Before
<1>4. i \in Inums /\ b \in Inums
  BY <1>3, LocalsType DEF HoldsDp
<1>5. /\ Ino(i).type = t /\ Ino(i).nlink = 0 /\ Ino(i).ents = NoEntries
      /\ i # b /\ \A q \in Procs \ {p} : i \notin Pts(q)
  BY <1>3 DEF DiskInv, CallsSound, NewP
<1>6. Ino(b).type = "T_DIR" /\ e \in Names
  BY <1>3 DEF DiskInv, CallsSound, DirP, InDir, EntryP
<1>7. lock[b] = p
  BY <1>3, <1>4 DEF DiskInv, Locks, Holds, HoldsDp
<1>8. ic[b].valid
  BY <1>4, <1>7, FsAssumption DEF DiskInv, Locks
<1>9. ic[b].type = "T_DIR" /\ ic[b].nlink = Ino(b).nlink
  BY <1>4, <1>6, <1>8 DEF DiskInv, Cached
<1>10. t # "free" /\ Copy(i).valid /\ Copy(i).type = t
  BY <1>3, <1>4, <1>5, LockLive
<1>11. i # ROOTINO /\ NamesOf(disk, i) = {}
  BY <1>4, <1>5, NoLinks DEF DiskInv
<1> QED
  BY <1>1, <1>2, <1>3, <1>4, <1>5, <1>6, <1>7, <1>8, <1>9, <1>10, <1>11

\* The image that create() leaves.
LEMMA CreateImage ==
    ASSUME IInv, IInv', DiskInv, NEW p \in Procs, create_new(p),
           ~(call[p].type = "T_DIR" /\ NoBlocks),
           NEW i, NEW b, NEW e, NEW t,
           i = ip[p] /\ b = dp[p] /\ e = name(p) /\ t = call[p].type
    PROVE  /\ Created(disk, disk', b, e, i)
           /\ Ino(i)'.type = t /\ Ino(i)'.nlink = 1
           /\ Ino(b)'.nlink = Ino(b).nlink + (IF t = "T_DIR" THEN 1 ELSE 0)
           /\ ic'[i].valid /\ ic'[i].type = t /\ ic'[i].nlink = 1
           /\ ic'[b].valid /\ ic'[b].type = "T_DIR" /\ ic'[b].nlink = Ino(b)'.nlink
           /\ \A j \in Inums \ {i, b} : ic'[j] = ic[j]
<1> DEFINE ci == [Copy(i) EXCEPT !.nlink = 1]
           cb == [ic[b] EXCEPT !.nlink = IF t = "T_DIR" THEN @ + 1 ELSE @]
           y == SetEntry(iupdate(iupdate(disk, i, ci), b, cb), b, e, i)
<1>1. /\ Shape /\ i \in Inums /\ b \in Inums /\ e \in Names
      /\ Ino(i).type = t /\ t # "free" /\ Ino(i).ents = NoEntries
      /\ i # b /\ i # ROOTINO /\ NamesOf(disk, i) = {}
      /\ Ino(b).type = "T_DIR" /\ ic[b].valid /\ ic[b].type = "T_DIR"
      /\ ic[b].nlink = Ino(b).nlink /\ Copy(i).valid /\ Copy(i).type = t
  BY CreateHas
<1>2. /\ disk' = IF t = "T_DIR"
                 THEN balloc(SetEntry(SetEntry(y, i, ".", i), i, "..", b), i) ELSE y
      /\ ic' = [ic EXCEPT ![i] = ci, ![b] = cb]
  BY DEF create_new
<1>3. /\ ci \in CacheEntry /\ ci.valid /\ ci.type = t /\ ci.nlink = 1
      /\ cb \in CacheEntry /\ cb.valid /\ cb.type = "T_DIR"
      /\ cb.nlink = Ino(b).nlink + (IF t = "T_DIR" THEN 1 ELSE 0)
  <2>1. Copy(i) \in CacheEntry /\ ic[b] \in CacheEntry /\ Ino(b).nlink \in Int
    BY <1>1, CacheOps DEF Shape, Image, Ino
  <2> QED
    BY <1>1, <2>1 DEF CacheEntry
<1> HIDE DEF ci, cb
<1>4. disk \in Image /\ disk' \in Image
  BY DEF IInv, Shape
<1>5. /\ y \in Image /\ y.bitmap = disk.bitmap
      /\ \A j \in Inums \ {i, b} : y.inode[j] = disk.inode[j]
      /\ y.inode[i].type = ci.type /\ y.inode[i].nlink = ci.nlink
      /\ y.inode[i].ents = disk.inode[i].ents /\ y.inode[i].addrs = disk.inode[i].addrs
      /\ y.inode[b].type = cb.type /\ y.inode[b].nlink = cb.nlink
      /\ y.inode[b].addrs = disk.inode[b].addrs /\ y.inode[b].ents[e] = i
      /\ \A f \in Entries \ {e} : y.inode[b].ents[f] = disk.inode[b].ents[f]
  <2>1. PICK x : x = SetEntry(iupdate(iupdate(disk, i, ci), b, cb), b, e, i)
    OBVIOUS
  <2>2. IsLinked(disk, x, b, e, i, ci, cb)
    BY <1>1, <1>3, <1>4, <2>1, LinkedIs
  <2> QED
    BY <2>1, <2>2 DEF IsLinked
<1> HIDE DEF y
<1>6. Owned(y)
  <2>1. \A j \in Inums : y.inode[j].addrs = disk.inode[j].addrs
    BY <1>5
  <2> QED
    BY <1>5, <2>1, OwnedSame DEF DiskInv, OnDisk, Tree
<1>7. y.inode[i].ents = NoEntries /\ \A f \in Names : y.inode[i].ents[f] = Null
  BY <1>1, <1>5 DEF Ino, NoEntries, Entries
<1>8. /\ \A j \in Inums \ {i} : disk'.inode[j] = y.inode[j]
      /\ disk'.inode[i].type = y.inode[i].type /\ disk'.inode[i].nlink = y.inode[i].nlink
      /\ \A f \in Names : disk'.inode[i].ents[f] = Null
      /\ IF t = "T_DIR"
         THEN disk'.inode[i].ents["."] = i /\ disk'.inode[i].ents[".."] = b
         ELSE disk'.inode[i].ents = NoEntries
      /\ Owned(disk')
  <2>1. CASE t # "T_DIR"
    BY <1>2, <1>6, <1>7, <2>1
  <2>2. CASE t = "T_DIR"
    <3>1. y.bitmap # DBlocks
      BY <1>5, <2>2 DEF NoBlocks
    <3>2. disk' = balloc(SetEntry(SetEntry(y, i, ".", i), i, "..", b), i)
      BY <1>2, <2>2
    <3>0. HasDots(y, disk', b, i)
      BY <1>1, <1>5, <3>1, <3>2, DotsIs
    <3>3. /\ \A j \in Inums \ {i} : disk'.inode[j] = y.inode[j]
          /\ disk'.inode[i].type = y.inode[i].type
          /\ disk'.inode[i].nlink = y.inode[i].nlink
          /\ disk'.inode[i].ents["."] = i /\ disk'.inode[i].ents[".."] = b
          /\ \A f \in Names : disk'.inode[i].ents[f] = y.inode[i].ents[f]
          /\ \E k \in DBlocks \ y.bitmap :
                /\ disk'.inode[i].addrs = y.inode[i].addrs \cup {k}
                /\ disk'.bitmap = y.bitmap \cup {k}
      BY <3>0 DEF HasDots
    <3>4. Owned(disk')
      <4>1. PICK k \in DBlocks \ y.bitmap :
                /\ disk'.inode[i].addrs = y.inode[i].addrs \cup {k}
                /\ disk'.bitmap = y.bitmap \cup {k}
        BY <3>3
      <4>2. \A j \in Inums \ {i} : disk'.inode[j].addrs = y.inode[j].addrs
        BY <3>3
      <4> QED
        BY <1>1, <1>6, <4>1, <4>2, OwnedMore
    <3> QED
      BY <1>7, <2>2, <3>3, <3>4
  <2> QED
    BY <2>1, <2>2
<1>9. Created(disk, disk', b, e, i)
  BY <1>1, <1>3, <1>4, <1>5, <1>8 DEF Created, Ino
<1>10. /\ Ino(i)'.type = t /\ Ino(i)'.nlink = 1 /\ Ino(b)'.nlink = cb.nlink
  BY <1>1, <1>3, <1>5, <1>8 DEF Ino
<1>11. ic'[i] = ci /\ ic'[b] = cb /\ \A j \in Inums \ {i, b} : ic'[j] = ic[j]
  <2>1. ic \in Cache
    BY <1>1, CacheOps
  <2> QED
    BY <1>1, <1>2, <2>1 DEF Cache
<1> QED
  BY <1>3, <1>9, <1>10, <1>11

\* create() finishes its inode.
LEMMA CreateNewWrite ==
    ASSUME IInv, IInv', DiskInv, NEW p \in Procs, create_new(p)
    PROVE  DiskInv'
<1>0. PICK i, b, e, t : i = ip[p] /\ b = dp[p] /\ e = name(p) /\ t = call[p].type
  OBVIOUS
<1>1. /\ InCall(p) /\ L(p) = "create_new" /\ Others(p) /\ Shape /\ i \in Inums
      /\ b \in Inums /\ i \in Pts(p) /\ b \in Pts(p) /\ e \in Names
      /\ Ino(i).type = t /\ t # "free" /\ Ino(i).nlink = 0
      /\ i # b /\ i # ROOTINO /\ NamesOf(disk, i) = {}
      /\ Ino(b).type = "T_DIR" /\ ic[b].valid /\ lock[i] = Nobody /\ lock[b] = p
      /\ Copy(i).valid /\ Copy(i).type = t
      /\ \A q \in Procs \ {p} : i \notin Pts(q)
      /\ UNCHANGED <<durable, active, made, ref, cwd, ofile, call, todo, ip>>
  BY <1>0, CreateHas
<1>2. CASE t = "T_DIR" /\ NoBlocks
  <2>1. panic' = "exhausted" /\ UNCHANGED <<disk, ic, lock, dp, pc, put, then>>
    BY <1>0, <1>2 DEF create_new
  <2> QED
    BY <1>1, <2>1, StopQuiet
<1>3. CASE ~(t = "T_DIR" /\ NoBlocks)
  <2> DEFINE more == IF t = "T_DIR" THEN 1 ELSE 0
  <2>1. /\ Unbroken /\ lock' = Release(Hold(p, i), b)
        /\ SetDp(p, Null) /\ PutThen(p, <<b>>, "got")
    BY <1>0, <1>1, <1>3 DEF create_new
  <2>2. /\ Created(disk, disk', b, e, i)
        /\ Ino(i)'.type = t /\ Ino(i)'.nlink = 1
        /\ Ino(b)'.nlink = Ino(b).nlink + more
        /\ ic'[i].valid /\ ic'[i].type = t /\ ic'[i].nlink = 1
        /\ ic'[b].valid /\ ic'[b].type = "T_DIR" /\ ic'[b].nlink = Ino(b)'.nlink
        /\ \A j \in Inums \ {i, b} : ic'[j] = ic[j]
    BY <1>0, <1>3, CreateImage
  <2>3. /\ \A j \in Inums : Ino(j)'.type = Ino(j).type
        /\ \A j \in Inums \ {i, b} : Ino(j)' = Ino(j)
    BY <1>1, <2>2 DEF Created, Ino
  <2>4. Gets(p, Null) /\ L(p)' = "got" /\ ip'[p] = i
    <3>1. dp'[p] = Null
      BY <1>1, <2>1 DEF SetDp, Shape
    <3>2. Ends(p, Null)
      BY <1>1, <3>1 DEF Ends
    <3> QED
      BY <1>0, <1>1, <2>1, <3>2, PutGets DEF Putting
  <2>5. Making \subseteq Making' \cup {i}
    <3>1. ASSUME NEW q \in Procs, L(q) = "create_new", ip[q] # i
          PROVE  L(q)' = "create_new" /\ ip'[q] = ip[q]
      BY <1>0, <1>1, <3>1, OthersSame DEF Same
    <3> QED
      BY <3>1 DEF Making
  <2>6. /\ Tree(disk', Making')
        /\ NamesOf(disk', i) \subseteq NamesOf(disk, i) \cup {<<b, e>>}
        /\ Subdirs(disk', i) = {}
        /\ \A j \in Inums : j # i => NamesOf(disk', j) \subseteq NamesOf(disk, j)
        /\ \A j \in Inums : j # b => Subdirs(disk', j) \subseteq Subdirs(disk, j)
        /\ Subdirs(disk', b) \subseteq Subdirs(disk, b) \cup {e}
        /\ t # "T_DIR" => Subdirs(disk', b) \subseteq Subdirs(disk, b)
    BY <2>2, <2>5, CreatedTree DEF DiskInv, OnDisk, Ino
  <2>7. Cached' /\ Stays
    <3>1. Cached'
      BY <1>1, <2>2, <2>3 DEF DiskInv, Cached, Ino
    <3>2. Stays
      BY <1>1, <2>2 DEF DiskInv, Locks, Stays
    <3> QED
      BY <3>1, <3>2
  <2>8. LockStep(p)
    <3>1. \A j \in Inums : Holds(p, j) <=> j = b
      BY <1>0, <1>1 DEF Holds, HoldsDp, HoldsIp
    <3>2. \A j \in Inums : Holds(p, j)' <=> j = i
      BY <2>4 DEF Holds, HoldsDp, HoldsIp
    <3> QED
      BY <1>1, <2>1, <2>2, <2>7, <3>1, <3>2, StaysSwap DEF DiskInv
  <2>9. Kept(p) /\ NewKept(p) /\ EntsKept(p)
    <3>1. Kept(p)
      BY <2>3, LocalsType, InumFacts DEF Kept
    <3>2. NewKept(p)
      <4> SUFFICES ASSUME NEW q \in Procs \ {p}, L(q) = "create_new"
                   PROVE  Ino(ip[q])' = Ino(ip[q]) /\ ip[q] \notin Pts(p)'
        BY DEF NewKept
      <4>1. ip[q] \in Inums /\ ip[q] # Null /\ ip[q] \notin Pts(p)
        BY NotNew DEF DiskInv
      <4>2. ip'[q] = ip[q]
        BY <1>1, OthersSame DEF Same
      <4> QED
        BY <1>1, <2>3, <2>4, <4>1, <4>2 DEF Ino, Gets
    <3>3. EntsKept(p)
      BY <1>1, <2>3 DEF EntsKept
    <3> QED
      BY <3>1, <3>2, <3>3
  <2>10. OwnP(p)' /\ (\A j : ~Owes(p, j))'
    <3>1. Pts(p) \subseteq Pointer /\ LiveP(p)
      BY LocalsType DEF DiskInv, CallsSound
    <3>2. LiveP(p)'
      BY <2>3, <2>4, <3>1, InumFacts DEF LiveP, Gets
    <3>3. /\ (DirP(p) /\ FileP(p) /\ EntryP(p))' /\ (\A j : ~Owes(p, j))' /\ NewP(p)'
      BY <2>4, PlainKnowsNext DEF Plain
    <3> QED
      BY <3>2, <3>3 DEF OwnP
  <2>11. Control'
    BY <1>1, <2>1, <2>4, ControlKept DEF DiskInv
  <2>12. Written(p)
    BY <1>1, <2>6, <2>7, <2>8, <2>9, <2>10, <2>11 DEF Written
  <2>13. Counts'
    <3>1. ASSUME NEW j \in Inums
          PROVE  Covered(disk, j, Cardinality(Owers(j)))'
      <4>0. Ino(j).nlink \in Int
        BY <1>1 DEF Shape, Image, Ino
      <4>1. Cardinality(Owers(j)') <= Cardinality(Owers(j)) + 0
        BY <1>1, <2>10, OwersStep
      <4>2. CASE j = i
        <5>1. Cardinality(NamesOf(disk', j)) <= Cardinality(NamesOf(disk, j)) + 1
          BY <2>6, <4>2, NamesFinite, Sizes
        <5>2. Cardinality(Subdirs(disk', j)) <= Cardinality(Subdirs(disk, j)) + 0
          BY <1>1, <2>6, <4>2, NamesFinite, Sizes
        <5>3. Ino(j)'.nlink >= Ino(j).nlink + 1 + 0 + 0
          BY <1>1, <2>2, <4>2
        <5>4. Delta(j, 1, 0, 0)
          BY <4>1, <5>1, <5>2, <5>3 DEF Delta
        <5> QED
          BY <5>4, CoverStep DEF DiskInv
      <4>3. CASE j = b
        <5>1. Cardinality(NamesOf(disk', j)) <= Cardinality(NamesOf(disk, j)) + 0
          BY <1>1, <2>6, <4>3, NamesFinite, Sizes
        <5>2. PICK k \in Int : k = more
          OBVIOUS
        <5>3. Cardinality(Subdirs(disk', j)) <= Cardinality(Subdirs(disk, j)) + k
          BY <2>6, <4>3, <5>2, NamesFinite, Sizes
        <5>4. Ino(j)'.nlink >= Ino(j).nlink + 0 + k + 0
          BY <2>2, <4>0, <4>3, <5>2
        <5>5. Delta(j, 0, k, 0)
          BY <4>1, <5>1, <5>3, <5>4 DEF Delta
        <5> QED
          BY <5>5, CoverStep DEF DiskInv
      <4>4. CASE j # i /\ j # b
        BY <2>3, <2>6, <4>1, <4>4, LessLinks DEF DiskInv
      <4> QED
        BY <4>2, <4>3, <4>4
    <3> QED
      BY <3>1 DEF Counts
  <2> QED
    BY <2>12, <2>13, WriteInv
<1> QED
  BY <1>2, <1>3

-----------------------------------------------------------------------------
(* Boot *)

\* Memory after boot, and an image that is in order.
BootedOn ==
    /\ Booted /\ lock = Each(Nobody) /\ disk = durable /\ Durable
    /\ active = {} /\ made \in 0 .. MaxCalls /\ panic = "no"

\* Memory after boot fits any image that is in order.
LEMMA BootDisk == BootedOn => DiskInv
<1> SUFFICES ASSUME BootedOn PROVE DiskInv
  OBVIOUS
<1>1. ASSUME NEW p \in Procs
      PROVE  /\ pc[p] = "idle" /\ put[p] = <<>> /\ ip[p] = Null
             /\ dp[p] = Null /\ ofile[p].ip = Null /\ cwd[p] = ROOTINO /\ L(p) = "idle"
  BY DEF BootedOn, Booted, All, NoFile, L, Loc, Putting
<1>2. ASSUME NEW p \in Procs PROVE Pts(p) \subseteq {ROOTINO, Null}
  BY <1>1, PtsIs DEF Nth
<1>3. ASSUME NEW p \in Procs
      PROVE  /\ DirP(p) /\ FileP(p) /\ EntryP(p) /\ L(p) # "create_new"
             /\ (\A i : ~Owes(p, i)) /\ NewP(p) /\ \A i : ~Holds(p, i)
  BY <1>1, PlainKnows DEF Plain
<1>4. Tree(disk, {}) /\ \A i \in Inums : Covered(disk, i, 0)
  BY DEF BootedOn, Durable
<1>5. Cached
  BY DEF BootedOn, Booted, Cached, Each, NoCopy
<1>6. Locks
  BY <1>3, FsAssumption DEF BootedOn, Locks, Each
<1>7. CallsSound
  <2>1. ASSUME NEW p \in Procs PROVE LiveP(p)
    BY <1>2, <1>4 DEF LiveP, Tree, Ino
  <2> QED
    BY <1>3, <2>1 DEF CallsSound
<1>8. OnDisk
  <2>1. Making = {} /\ \A i : Owers(i) = {}
    BY <1>3 DEF Making, Owers
  <2>2. Cardinality({}) = 0
    BY FS_EmptySet
  <2>3. Tree(disk, Making)
    BY <1>4, <2>1
  <2>4. Counts
    BY <1>4, <2>1, <2>2 DEF Counts
  <2> QED
    BY <2>3, <2>4 DEF OnDisk
<1>9. Control
  BY <1>1 DEF BootedOn, Control
<1> QED
  BY <1>5, <1>6, <1>7, <1>8, <1>9 DEF DiskInv, BootedOn

\* The inodes of the image that mkfs writes.
LEMMA MkfsIs ==
    ASSUME NEW d, d = MkfsImage
    PROVE  /\ ROOTINO + 1 \in Inums /\ d.inode[ROOTINO].type = "T_DIR"
           /\ d.inode[ROOTINO].nlink = 1 /\ d.inode[ROOTINO + 1].type = "T_FILE"
           /\ d.inode[ROOTINO + 1].nlink = 1 /\ d.inode[ROOTINO + 1].ents = NoEntries
           /\ \A i \in Inums \ {ROOTINO, ROOTINO + 1} : d.inode[i] = FreeInode
           /\ d.inode[ROOTINO].ents["."] = ROOTINO
           /\ d.inode[ROOTINO].ents[".."] = ROOTINO
           /\ d.inode[ROOTINO].ents[Program] = ROOTINO + 1
           /\ \A e \in Names \ {Program} : d.inode[ROOTINO].ents[e] = Null
           /\ Owned(d)
<1> DEFINE b == Min(DBlocks)
           c == Min(DBlocks \ {b})
           root == [NoEntries EXCEPT !["."] = ROOTINO, ![".."] = ROOTINO,
                                     ![Program] = ROOTINO + 1]
<1>1. b # c
  <2>0. DBlocks \in SUBSET Nat /\ DBlocks # {}
    BY FsAssumption, FS_EmptySet
  <2>1. DBlocks # {b}
    BY FsAssumption, FS_Singleton
  <2>2. DBlocks \ {b} # {} /\ DBlocks \ {b} \in SUBSET Nat
    BY <2>0, <2>1
  <2> QED
    BY <2>2, MinIn
<1>2. /\ Program \in Entries /\ "." \in Entries /\ ".." \in Entries /\ Program # "."
      /\ Program # ".." /\ Program \in Names
      /\ \A e \in Names : e \in Entries /\ e # "." /\ e # ".."
  BY FsAssumption DEF Entries
<1>3. /\ ROOTINO \in Inums /\ ROOTINO + 1 \in Inums /\ ROOTINO + 1 # ROOTINO
  BY FsAssumption DEF ROOTINO, Inums
<1>4. /\ root["."] = ROOTINO /\ root[".."] = ROOTINO /\ root[Program] = ROOTINO + 1
      /\ \A e \in Names \ {Program} : root[e] = Null
  BY <1>2 DEF NoEntries
<1> HIDE DEF b, c, root
<1>5. d = [inode |-> [i \in Inums |->
            CASE i = ROOTINO -> [type |-> "T_DIR", nlink |-> 1,
                                 ents |-> root, addrs |-> {b}]
              [] i = ROOTINO + 1 -> [type |-> "T_FILE", nlink |-> 1,
                                     ents |-> NoEntries, addrs |-> {c}]
              [] OTHER -> FreeInode],
        bitmap |-> {b, c}]
  BY DEF MkfsImage, b, c, root
<1>6. /\ d.bitmap = {b, c}
      /\ d.inode[ROOTINO] = [type |-> "T_DIR", nlink |-> 1, ents |-> root, addrs |-> {b}]
      /\ d.inode[ROOTINO + 1] = [type |-> "T_FILE", nlink |-> 1, ents |-> NoEntries,
                                 addrs |-> {c}]
      /\ \A i \in Inums \ {ROOTINO, ROOTINO + 1} : d.inode[i] = FreeInode
  BY <1>3, <1>5
<1>7. Owned(d)
  <2>1. /\ d.inode[ROOTINO].addrs = {b} /\ d.inode[ROOTINO + 1].addrs = {c}
        /\ \A i \in Inums \ {ROOTINO, ROOTINO + 1} : d.inode[i].addrs = {}
    BY <1>6 DEF FreeInode
  <2>2. \A i, j \in Inums : i # j => d.inode[i].addrs \cap d.inode[j].addrs = {}
    BY <1>1, <2>1
  <2>3. ASSUME NEW y PROVE y \in d.bitmap <=> \E i \in Inums : y \in d.inode[i].addrs
    BY <1>3, <1>6, <2>1
  <2>4. d.bitmap = UNION {d.inode[i].addrs : i \in Inums}
    BY <2>3
  <2> QED
    BY <2>2, <2>4 DEF Owned
<1> QED
  BY <1>3, <1>4, <1>6, <1>7

\* The image that mkfs writes is in order.
LEMMA MkfsDurable ==
    ASSUME durable = MkfsImage
    PROVE  Durable
<1>0. PICK d : d = MkfsImage
  OBVIOUS
<1>1. /\ ROOTINO + 1 \in Inums /\ d.inode[ROOTINO].type = "T_DIR"
      /\ d.inode[ROOTINO].nlink = 1 /\ d.inode[ROOTINO + 1].type = "T_FILE"
      /\ d.inode[ROOTINO + 1].nlink = 1 /\ d.inode[ROOTINO + 1].ents = NoEntries
      /\ \A i \in Inums \ {ROOTINO, ROOTINO + 1} : d.inode[i] = FreeInode
      /\ d.inode[ROOTINO].ents["."] = ROOTINO
      /\ d.inode[ROOTINO].ents[".."] = ROOTINO
      /\ d.inode[ROOTINO].ents[Program] = ROOTINO + 1
      /\ \A e \in Names \ {Program} : d.inode[ROOTINO].ents[e] = Null
      /\ Owned(d)
  BY <1>0, MkfsIs
<1>2. /\ ROOTINO \in Inums /\ ROOTINO + 1 # ROOTINO /\ \A i \in Inums : i # Null
      /\ Program \in Names
  BY InumFacts, FsAssumption DEF ROOTINO
<1>3. /\ FreeInode.type = "free" /\ FreeInode.nlink = 0 /\ FreeInode.ents = NoEntries
      /\ \A e \in Names : NoEntries[e] = Null
  BY DEF FreeInode, NoEntries, Entries
<1>4. \A i \in Inums : /\ i = ROOTINO => d.inode[i].type = "T_DIR"
                       /\ i = ROOTINO + 1 => d.inode[i].type = "T_FILE"
                       /\ i \notin {ROOTINO, ROOTINO + 1} => d.inode[i].type = "free"
                       /\ i # ROOTINO => d.inode[i].ents = NoEntries
  BY <1>1, <1>2, <1>3
<1>5. \A i \in Inums, e \in Names :
        d.inode[i].ents[e] = IF i = ROOTINO /\ e = Program THEN ROOTINO + 1 ELSE Null
  BY <1>1, <1>3, <1>4
<1>6. FreeEmpty(d) /\ DirsOnly(d) /\ Dotted(d, {})
  <2>1. FreeEmpty(d)
    BY <1>1, <1>2, <1>4 DEF FreeEmpty
  <2>2. DirsOnly(d)
    BY <1>1, <1>2, <1>4 DEF DirsOnly
  <2>3. Dotted(d, {})
    BY <1>1, <1>2, <1>4 DEF Dotted
  <2> QED
    BY <2>1, <2>2, <2>3
<1>7. DotDot(d)
  BY <1>1, <1>2, <1>4, <1>5 DEF DotDot
<1>8. NoCycle(d)
  <2> SUFFICES ASSUME NEW C \in SUBSET Inums, C # {}
               PROVE  \E c \in C : \A f \in Names : d.inode[c].ents[f] \notin C
    BY DEF NoCycle
  <2>1. CASE ROOTINO + 1 \in C
    BY <1>2, <1>5, <2>1
  <2>2. CASE ROOTINO + 1 \notin C
    BY <1>2, <1>5, <2>2
  <2> QED
    BY <2>1, <2>2
<1>9. Tree(d, {})
  BY <1>1, <1>6, <1>7, <1>8 DEF Tree
<1>10. ASSUME NEW i \in Inums PROVE Covered(d, i, 0)
  <2>1. Subdirs(d, i) = {}
    BY <1>1, <1>5 DEF Subdirs, IsDir
  <2>2. NamesOf(d, i) \subseteq IF i = ROOTINO + 1 THEN {<<ROOTINO, Program>>} ELSE {}
    <3>1. ASSUME NEW y \in NamesOf(d, i)
          PROVE  i = ROOTINO + 1 /\ y = <<ROOTINO, Program>>
      <4>1. PICK k \in Inums, f \in Names : y = <<k, f>>
        BY DEF NamesOf
      <4>2. d.inode[k].ents[f] = i
        BY <4>1 DEF NamesOf
      <4> QED
        BY <1>2, <1>5, <4>1, <4>2
    <3> QED
      BY <3>1
  <2>3. Cardinality({}) = 0 /\ Cardinality({<<ROOTINO, Program>>}) = 1
        /\ IsFiniteSet({}) /\ IsFiniteSet({<<ROOTINO, Program>>})
    BY FS_EmptySet, FS_Singleton
  <2>4. Cardinality(NamesOf(d, i)) <= IF i = ROOTINO + 1 THEN 1 ELSE 0
    BY <2>2, <2>3, FS_Subset
  <2>5. Cardinality(NamesOf(d, i)) \in Nat
    BY NamesFinite
  <2>6. d.inode[i].nlink = IF i \in {ROOTINO, ROOTINO + 1} THEN 1 ELSE 0
    BY <1>1, <1>3
  <2> QED
    BY <1>2, <2>1, <2>3, <2>4, <2>5, <2>6 DEF Covered
<1>11. d = durable
  BY <1>0
<1> QED
  BY <1>9, <1>10, <1>11 DEF Durable

\* Every step keeps the invariant, as long as nobody follows the ".." of a
\* removed directory.
LEMMA NextDisk ==
    ASSUME IInv, DiskInv, ParentsKept, [Next]_vars
    PROVE  DiskInv'
<1>0. IInv'
  BY NextInv
<1>1. ASSUME NEW p \in Procs, Step(p) PROVE DiskInv'
  <2>1. CASE end_op(p)
    BY <2>1, EndQuiet
  <2>2. CASE iput(p)
    BY <1>0, <2>2, IputQuiet, IputWrite
  <2>3. CASE unref(p)
    BY <2>3, UnrefQuiet
  <2>4. CASE namei(p) \/ nameiparent(p) \/ NoParent(p) \/ iunlockput_dp(p)
    BY <2>4, NameiQuiet, NameiparentQuiet, NoParentQuiet, IunlockputQuiet
  <2>5. CASE link_inc(p)
    BY <1>0, <2>5, LinkIncQuiet, LinkIncWrite
  <2>6. CASE link_dir(p)
    BY <1>0, <2>6, LinkDirQuiet, LinkDirWrite
  <2>7. CASE link_bad(p)
    BY <1>0, <2>7, LinkBadWrite
  <2>8. CASE unlink_dp(p)
    BY <2>8, UnlinkDpQuiet
  <2>9. CASE unlink_ip(p)
    BY <1>0, <2>9, UnlinkFullQuiet, UnlinkIpWrite
  <2>10. CASE unlink_dec(p)
    BY <1>0, <2>10, UnlinkDecWrite
  <2>11. CASE create_dp(p)
    BY <1>0, <2>11, CreateDpQuiet, CreateDpWrite
  <2>12. CASE create_old(p) \/ open_ip(p)
    BY <2>12, OpenQuiet
  <2>13. CASE create_new(p)
    BY <1>0, <2>13, CreateNewWrite
  <2>14. CASE got(p) \/ chdir_ip(p) \/ chdir_set(p)
    BY <2>14, GotEndQuiet, ChdirQuiet, ChdirSetQuiet
  <2>15. CASE write_ip(p)
    BY <1>0, <2>15, WriteQuiet, WriteWrite
  <2> QED
    BY <1>1, <2>1, <2>2, <2>3, <2>4, <2>5, <2>6, <2>7, <2>8, <2>9, <2>10, <2>11, <2>12,
       <2>13, <2>14, <2>15 DEF Step
<1>2. ASSUME NEW p \in Procs, NEW c \in Calls, Begin(p, c) PROVE DiskInv'
  BY <1>2, BeginQuiet
<1>3. CASE Crash
  <2>1. (BootedOn => DiskInv)'
    BY BootDisk, PTL
  <2>2. Booted'
    BY <1>3 DEF Crash, Booted, IInv, Shape, Image, Each, All, BootRef, NoCopy, NoFile,
                NoCall, Null, ROOTINO, Inums, Entries, Pointer, Types
  <2>3. Durable'
    BY <1>3 DEF Crash, DiskInv, Durable, Tree, FreeEmpty, DirsOnly, Dotted, DotDot, NoCycle,
        Owned, Covered, NamesOf, Subdirs, IsDir
  <2>4. BootedOn'
    BY <1>3, <2>2, <2>3 DEF Crash, BootedOn, DiskInv, Control, Each
  <2> QED
    BY <2>1, <2>4
<1>4. CASE UNCHANGED vars
  BY <1>4, StopQuiet DEF vars, log, icache, files, locals, DiskInv, Control
<1> QED
  BY <1>1, <1>2, <1>3, <1>4 DEF Next

-----------------------------------------------------------------------------
(* What the cache and the continuations never are *)

\* Link counts are natural numbers.
LEMMA NlinkNat ==
    ASSUME NEW d \in Image, NEW i \in Inums, NEW n \in Nat, Covered(d, i, n)
    PROVE  d.inode[i].nlink \in Nat
<1> DEFINE a == Cardinality(NamesOf(d, i))
           b == Cardinality(Subdirs(d, i))
           r == IF i = ROOTINO THEN 1 ELSE 0
           m == d.inode[i].nlink
<1>1. a \in Nat /\ b \in Nat /\ r \in Nat
  BY NamesFinite
<1>2. m \in Int
  BY DEF Image
<1>3. m >= a + b + r + n
  BY DEF Covered
<1> HIDE DEF a, b, r, m
<1>4. m >= 0
  BY <1>1, <1>2, <1>3
<1> QED
  BY <1>2, <1>4 DEF m

\* A cache entry that is recycled keeps its link count.
LEMMA RecycledNlink ==
    ASSUME NEW c \in Cache, NEW n, NEW j \in Inums
    PROVE  Recycled(c, n)[j].nlink = c[j].nlink
<1>1. c[j] \in CacheEntry
  BY DEF Cache
<1>2. CASE ref[n] = 0 /\ j = n
  <2>1. Recycled(c, n)[j] = [c[j] EXCEPT !.valid = FALSE]
    BY <1>2 DEF Recycled, Cache
  <2> QED
    BY <1>1, <2>1 DEF CacheEntry
<1>3. CASE ~(ref[n] = 0 /\ j = n)
  BY <1>3 DEF Recycled, Cache
<1> QED
  BY <1>2, <1>3

\* ilock() and iget() leave the link counts of copies or take that on disk.
LEMMA CopyNlink ==
    ASSUME Shape, NEW i, NEW n, NEW j \in Inums
    PROVE  /\ Locked(i)[j].nlink \in {ic[j].nlink, Copy(j).nlink}
           /\ Recycled(ic, n)[j].nlink = ic[j].nlink
           /\ Recycled(Locked(i), n)[j].nlink \in {ic[j].nlink, Copy(j).nlink}
<1>1. \A c \in Cache : Recycled(c, n)[j].nlink = c[j].nlink
  BY RecycledNlink
<1>2. ic \in Cache
  BY CacheOps
<1>3. Locked(i) \in Cache
  <2>1. CASE i \in Inums
    BY <2>1, CacheOps
  <2>2. CASE i \notin Inums
    <3>1. Locked(i) = ic
      BY <1>2, <2>2 DEF Locked, Cache
    <3> QED
      BY <1>2, <3>1
  <2> QED
    BY <2>1, <2>2
<1>4. Locked(i)[j] \in {ic[j], Copy(j)}
  BY <1>2 DEF Locked, Cache
<1> QED
  BY <1>1, <1>2, <1>3, <1>4

\* The shapes of the cache after a step that writes no copy.
Looked == \E i, n : ic' \in {ic, Locked(i), Recycled(ic, n), Recycled(Locked(i), n)}

\* No step leaves a copy that is no link count.
LEMMA CopiesNext ==
    ASSUME IInv, DiskInv, DiskInv', Copies, [Next]_vars
    PROVE  Copies'
<1>0. IInv' /\ Shape
  BY NextInv DEF IInv
<1>1. \A j \in Inums : Ino(j).nlink \in Nat /\ Ino(j)'.nlink \in Nat
  <2>1. ASSUME NEW j \in Inums PROVE Ino(j).nlink \in Nat
    BY OwersFinite, NlinkNat DEF IInv, Shape, DiskInv, OnDisk, Counts, Ino
  <2>2. ASSUME NEW j \in Inums PROVE Ino(j)'.nlink \in Nat
    <3>1. Cardinality(Owers(j)') \in Nat
      <4>1. Owers(j)' \subseteq Procs /\ IsFiniteSet(Procs)
        BY FsAssumption DEF Owers
      <4>2. IsFiniteSet(Owers(j)')
        BY <4>1, FS_Subset, Zenon
      <4> QED
        BY <4>2, FS_CardinalityType
    <3>2. disk' \in Image
      BY <1>0 DEF IInv, Shape
    <3>3. Covered(disk', j, Cardinality(Owers(j)'))
      BY DEF DiskInv, OnDisk, Counts, Covered
    <3> QED
      BY <3>1, <3>2, <3>3, NlinkNat DEF Ino
  <2> QED
    BY <2>1, <2>2
<1>2. \A j \in Inums : Copy(j).nlink \in Nat
  BY <1>1 DEF Copy, Copies, Ino
<1>3. SUFFICES ASSUME NEW j \in Inums, ~ic'[j].valid PROVE ic'[j].nlink \in Nat
  BY <1>1 DEF Copies, DiskInv, Cached
<1>4. CASE Looked
  <2>1. PICK i, n : ic' \in {ic, Locked(i), Recycled(ic, n), Recycled(Locked(i), n)}
    BY <1>4 DEF Looked
  <2>2. ic'[j].nlink \in {ic[j].nlink, Copy(j).nlink}
    BY <1>0, <2>1, CopyNlink
  <2> QED
    BY <1>2, <2>2 DEF Copies
<1>5. ASSUME NEW p \in Procs, Step(p) PROVE ic'[j].nlink \in Nat
  <2>0. ic \in Cache /\ NoCopy.nlink = 0
    BY <1>0, CacheOps DEF NoCopy
  <2>1. CASE end_op(p) \/ unref(p) \/ NoParent(p) \/ iunlockput_dp(p) \/ got(p) \/ chdir_set(p)
    BY <2>1 DEF end_op, unref, NoParent, iunlockput_dp, got, chdir_set, icache, Copies
  <2>2. CASE iput(p)
    BY <2>0, <2>2 DEF iput, Copies, Cache
  <2>3. CASE namei(p) \/ nameiparent(p) \/ link_dir(p) \/ unlink_dp(p)
    BY <1>4, <2>3 DEF namei, nameiparent, link_dir, unlink_dp, Looked
  <2>4. CASE create_dp(p) \/ create_old(p) \/ open_ip(p) \/ chdir_ip(p) \/ write_ip(p)
    BY <1>4, <2>4 DEF create_dp, create_old, open_ip, chdir_ip, write_ip, Looked, icache
  <2>5. CASE link_inc(p)
    <3>1. PICK i, c, n : /\ i = ip[p] /\ c = [Copy(i) EXCEPT !.nlink = @ + 1]
                         /\ n = Start(p)
      OBVIOUS
    <3>2. i \in Inums /\ Copy(i) \in CacheEntry
      <4>1. pc[p] = "link_inc"
        BY <2>5 DEF link_inc, At
      <4>2. i \in Inums
        BY <3>1, <4>1, Here, InumFacts DEF Putting, IpAt, HasIp
      <4> QED
        BY <1>0, <4>2, CacheOps
    <3>3. c \in CacheEntry /\ c.nlink = Copy(i).nlink + 1 /\ c.nlink \in Nat
      BY <1>2, <3>1, <3>2 DEF CacheEntry
    <3>4. CASE ic' = Locked(i)
      BY <1>4, <3>4 DEF Looked
    <3>5. CASE ic' = Recycled([ic EXCEPT ![i] = c], n)
      <4>1. /\ [ic EXCEPT ![i] = c] \in Cache
            /\ [ic EXCEPT ![i] = c][j] = IF j = i THEN c ELSE ic[j]
        BY <2>0, <3>2, <3>3 DEF Cache
      <4>2. ic'[j].nlink = [ic EXCEPT ![i] = c][j].nlink
        BY <3>5, <4>1, RecycledNlink
      <4> QED
        BY <3>3, <4>1, <4>2 DEF Copies
    <3> QED
      BY <2>5, <3>1, <3>4, <3>5 DEF link_inc
  <2>6. CASE link_bad(p)
    <3>1. PICK i, c : i = ip[p] /\ c = [Copy(i) EXCEPT !.nlink = @ - 1]
      OBVIOUS
    <3>2. ic' = [ic EXCEPT ![i] = c]
      BY <2>6, <3>1 DEF link_bad
    <3>3. j = i => c.valid
      <4>1. j = i => Copy(i) \in CacheEntry /\ Copy(i).valid
        BY <1>0, CacheOps DEF Copy
      <4> QED
        BY <3>1, <4>1 DEF CacheEntry
    <3> QED
      BY <1>3, <2>0, <3>2, <3>3 DEF Cache, Copies
  <2>7. CASE unlink_ip(p)
    <3>1. PICK i, b, c : /\ i = ip[p] /\ b = dp[p]
                         /\ c = [ic[b] EXCEPT !.nlink = IF Copy(i).type = "T_DIR"
                                                        THEN @ - 1 ELSE @]
      OBVIOUS
    <3>2. i \in Inums /\ b \in Inums /\ ic[b].valid
      BY <2>7, <3>1, UnlinkHas
    <3>3. CASE ic' = Locked(i)
      BY <1>4, <3>3 DEF Looked
    <3>4. CASE ic' = [Locked(i) EXCEPT ![b] = c]
      <4>1. c.valid
        <5>1. ic[b] \in CacheEntry
          BY <1>0, <3>2, CacheOps
        <5> QED
          BY <3>1, <3>2, <5>1 DEF CacheEntry
      <4>2. Locked(i) \in Cache
        BY <1>0, <3>2, CacheOps
      <4>3. j # b /\ ic'[j] = Locked(i)[j]
        BY <1>3, <3>2, <3>4, <4>1, <4>2 DEF Cache
      <4>4. ic'[j].nlink \in {ic[j].nlink, Copy(j).nlink}
        BY <1>0, <4>3, CopyNlink
      <4> QED
        BY <1>2, <4>4 DEF Copies
    <3> QED
      BY <2>7, <3>1, <3>3, <3>4 DEF unlink_ip
  <2>8. CASE unlink_dec(p)
    <3>1. PICK i, c : i = ip[p] /\ c = [ic[i] EXCEPT !.nlink = @ - LinksLost(i)]
      OBVIOUS
    <3>2. ic' = [ic EXCEPT ![i] = c]
      BY <2>8, <3>1 DEF unlink_dec
    <3>3. i \in Inums /\ ic[i].valid
      <4>1. pc[p] = "unlink_dec"
        BY <2>8 DEF unlink_dec, At
      <4>2. i \in Inums /\ L(p) = "unlink_dec"
        BY <3>1, <4>1, Here, InumFacts DEF Putting, IpAt, HasIp, L, Loc
      <4>3. lock[i] = p
        BY <3>1, <4>2 DEF DiskInv, Locks, Holds, HoldsIp
      <4> QED
        BY <4>2, <4>3, FsAssumption DEF DiskInv, Locks
    <3>4. c.valid
      <4>1. ic[i] \in CacheEntry
        BY <1>0, <3>3, CacheOps
      <4> QED
        BY <3>1, <3>3, <4>1 DEF CacheEntry
    <3> QED
      BY <1>3, <2>0, <3>2, <3>3, <3>4 DEF Cache, Copies
  <2>9. CASE create_new(p)
    <3>1. PICK i, b, e, t : i = ip[p] /\ b = dp[p] /\ e = name(p) /\ t = call[p].type
      OBVIOUS
    <3>2. CASE t = "T_DIR" /\ NoBlocks
      BY <2>9, <3>1, <3>2 DEF create_new, Copies
    <3>3. CASE ~(t = "T_DIR" /\ NoBlocks)
      <4>1. ic'[i].valid /\ ic'[b].valid /\ \A k \in Inums \ {i, b} : ic'[k] = ic[k]
        BY <1>0, <2>9, <3>1, <3>3, CreateImage
      <4> QED
        BY <1>3, <4>1 DEF Copies
    <3> QED
      BY <3>2, <3>3
  <2> QED
    BY <1>5, <2>1, <2>2, <2>3, <2>4, <2>5, <2>6, <2>7, <2>8, <2>9 DEF Step
<1>6. ASSUME NEW p \in Procs, NEW c \in Calls, Begin(p, c) PROVE ic'[j].nlink \in Nat
  BY <1>4, <1>6 DEF Begin, Looked, icache
<1>7. CASE Crash
  BY <1>7 DEF Crash, Each, NoCopy
<1>8. CASE UNCHANGED vars
  BY <1>8 DEF vars, icache, Copies
<1> QED
  BY <1>5, <1>6, <1>7, <1>8 DEF Next

\* No step goes on, after its iput()s, where a name has been found or made.
LEMMA ThensNext ==
    ASSUME IInv, Thens, [Next]_vars
    PROVE  Thens'
<1>0. Shape
  BY DEF IInv
<1> DEFINE Fine(t) == t \notin {"unlink_ip", "create_new"}
<1>1. ASSUME NEW p \in Procs, NEW s, NEW t, Fine(t), PutThen(p, s, t) PROVE Thens'
  BY <1>0, <1>1 DEF Thens, PutThen, Shape
<1>2. ASSUME NEW p, NEW l, Goto(p, l) PROVE Thens'
  BY <1>2 DEF Thens, Goto
<1>3. ASSUME then' = then PROVE Thens'
  BY <1>3 DEF Thens
<1>4. \A op : Fine(BadParent(op))
  BY DEF BadParent
<1> HIDE DEF Fine
<1>5. ASSUME NEW p \in Procs, Step(p) PROVE Thens'
  <2>0. Fine("end") /\ Fine("nameiparent") /\ Fine("iunlockput_dp") /\ Fine("unlink_dec")
        /\ Fine("create_old") /\ Fine("got") /\ Fine("chdir_set")
    BY DEF Fine
  <2>1. CASE end_op(p) \/ iput(p) \/ chdir_set(p)
    BY <1>2, <1>3, <2>1 DEF end_op, iput, chdir_set
  <2>2. CASE unref(p)
    BY <1>0, <2>2 DEF unref, Thens, Shape
  <2>3. CASE namei(p)
    <3>1. Fine(NextElem(p))
      <4>1. pc[p] = "namei" /\ call' = call
        BY <2>3 DEF namei, At
      <4>2. call[p].op \in {"link", "open", "chdir"}
        BY <4>1, Here DEF Putting, OpAt
      <4> QED
        BY <4>1, <4>2 DEF Fine, NextElem, AfterNamei
    <3> QED
      BY <1>1, <2>0, <2>3, <3>1 DEF namei, NamexFailed
  <2>4. CASE nameiparent(p)
    BY <1>1, <1>2, <1>4, <2>0, <2>4 DEF nameiparent, NamexFailed
  <2>5. CASE NoParent(p) \/ iunlockput_dp(p)
    BY <1>1, <1>4, <2>5 DEF NoParent, iunlockput_dp
  <2>6. CASE link_inc(p) \/ link_dir(p) \/ link_bad(p)
    BY <1>1, <1>2, <2>0, <2>6 DEF link_inc, link_dir, link_bad
  <2>7. CASE unlink_dp(p) \/ unlink_ip(p) \/ unlink_dec(p)
    BY <1>1, <1>2, <2>0, <2>7 DEF unlink_dp, unlink_ip, unlink_dec
  <2>8. CASE create_dp(p) \/ create_old(p) \/ create_new(p)
    BY <1>1, <1>2, <1>3, <2>0, <2>8 DEF create_dp, create_old, create_new
  <2>9. CASE open_ip(p) \/ got(p) \/ chdir_ip(p) \/ write_ip(p)
    BY <1>1, <1>2, <1>3, <2>0, <2>9 DEF open_ip, got, chdir_ip, write_ip
  <2> QED
    BY <1>5, <2>1, <2>2, <2>3, <2>4, <2>5, <2>6, <2>7, <2>8, <2>9 DEF Step
<1>6. ASSUME NEW p \in Procs, NEW c \in Calls, Begin(p, c) PROVE Thens'
  <2>1. Fine("end")
    BY DEF Fine
  <2> QED
    BY <1>1, <1>2, <1>6, <2>1 DEF Begin
<1>7. CASE Crash
  BY <1>7 DEF Crash, All, Thens
<1>8. CASE UNCHANGED vars
  BY <1>3, <1>8 DEF vars
<1> QED
  BY <1>5, <1>6, <1>7, <1>8 DEF Next

\* When no path contains "..", none is left to look up.
LEMMA TodoNext ==
    ASSUME IInv, PathsDown, TodoDown, [Next]_vars
    PROVE  TodoDown'
<1>0. Shape /\ <<>> \in Downward
  BY DEF IInv, Downward
<1>1. ASSUME todo' = todo PROVE TodoDown'
  BY <1>1 DEF TodoDown
<1>2. ASSUME NEW p \in Procs, NEW s \in Downward, todo' = [todo EXCEPT ![p] = s]
      PROVE  TodoDown'
  BY <1>0, <1>2 DEF TodoDown, Shape
<1>3. ASSUME NEW p \in Procs, pc[p] = "namei" \/ todo[p] # <<>> PROVE Tail(todo[p]) \in Downward
  <2>1. todo[p] # <<>>
    BY <1>3, Here DEF Putting, Named
  <2>2. todo[p] \in Downward
    BY DEF TodoDown
  <2> QED
    BY <2>1, <2>2 DEF Downward
<1>4. ASSUME NEW p \in Procs, Step(p) PROVE TodoDown'
  <2>1. CASE end_op(p) \/ iput(p) \/ unref(p) \/ chdir_set(p) \/ NoParent(p)
             \/ iunlockput_dp(p) \/ link_dir(p) \/ link_bad(p)
    BY <1>0, <1>1, <1>2, <2>1 DEF end_op, iput, unref, chdir_set, NoParent, iunlockput_dp,
       link_dir, link_bad, locals
  <2>2. CASE namei(p)
    BY <1>1, <1>2, <1>3, <2>2 DEF namei, At
  <2>3. CASE nameiparent(p)
    BY <1>1, <1>2, <1>3, <2>3 DEF nameiparent
  <2>4. CASE link_inc(p)
    <3>1. pc[p] = "link_inc"
      BY <2>4 DEF link_inc, At
    <3>2. call[p].new \in Downward
      BY <3>1, Here DEF Putting, OpAt, PathsDown
    <3> QED
      BY <1>1, <1>2, <2>4, <3>2 DEF link_inc
  <2>5. CASE unlink_dp(p) \/ unlink_ip(p) \/ unlink_dec(p)
    BY <1>1, <2>5 DEF unlink_dp, unlink_ip, unlink_dec
  <2>6. CASE create_dp(p) \/ create_old(p) \/ create_new(p)
    BY <1>1, <2>6 DEF create_dp, create_old, create_new
  <2>7. CASE open_ip(p) \/ got(p) \/ chdir_ip(p) \/ write_ip(p)
    BY <1>1, <2>7 DEF open_ip, got, chdir_ip, write_ip, locals
  <2> QED
    BY <1>4, <2>1, <2>2, <2>3, <2>4, <2>5, <2>6, <2>7 DEF Step
<1>5. ASSUME NEW p \in Procs, NEW c \in Calls, Begin(p, c) PROVE TodoDown'
  <2>1. c.op \notin {"write", "close"} => c.path \in Downward
    BY DEF PathsDown
  <2> QED
    BY <1>1, <1>2, <1>5, <2>1 DEF Begin
<1>6. CASE Crash
  BY <1>0, <1>6 DEF Crash, All, TodoDown
<1>7. CASE UNCHANGED vars
  BY <1>1, <1>7 DEF vars, locals
<1> QED
  BY <1>4, <1>5, <1>6, <1>7 DEF Next

-----------------------------------------------------------------------------
(* What follows *)

\* The invariant of the proofs, and its parts.
FsInvariant == IInv /\ DiskInv /\ Copies /\ Thens

\* mkfs and boot establish it.
LEMMA InitAll == Init => FsInvariant
<1> SUFFICES ASSUME Init PROVE FsInvariant
  OBVIOUS
<1>1. Booted
  BY MkfsType DEF Init, Booted
<1>2. Durable
  BY MkfsDurable DEF Init
<1>3. BootedOn
  BY <1>1, <1>2, FsAssumption DEF Init, BootedOn
<1>4. IInv /\ DiskInv
  BY <1>1, <1>3, BootInv, BootDisk
<1>5. Copies /\ Thens
  BY DEF Init, Copies, Thens, Each, All, NoCopy
<1> QED
  BY <1>4, <1>5 DEF FsInvariant

\* Every step keeps it.
LEMMA NextAll ==
    ASSUME FsInvariant, ParentsKept, [Next]_vars
    PROVE  FsInvariant'
BY NextInv, NextDisk, CopiesNext, ThensNext DEF FsInvariant

\* As long as nobody follows the ".." of a removed directory, the whole of
\* FsInvariant holds: valid copies are those of the disk, locks have the
\* holders the code means, every pointer is to an inode in use, link counts
\* cover the links and the directories form a tree, on disk and in what a
\* crash falls back to (fs.c, sysfile.c).
THEOREM FsAlways == Spec /\ []ParentsKept => []FsInvariant
<1>1. Init => FsInvariant
  BY InitAll
<1>2. FsInvariant /\ ParentsKept /\ [Next]_vars => FsInvariant'
  BY NextAll
<1> QED
  BY <1>1, <1>2, PTL DEF Spec

\* Programs that do not write ".." in their paths never follow one.
LEMMA ParentsAlwaysKept ==
    ASSUME PathsDown
    PROVE  Spec => []ParentsKept
<1>1. Init => IInv /\ TodoDown
  BY BootInv, MkfsType DEF Init, Booted, TodoDown, Downward, All
<1>2. IInv /\ TodoDown /\ [Next]_vars => (IInv /\ TodoDown)'
  BY NextInv, TodoNext
<1>3. TodoDown => ParentsKept
  <2> SUFFICES ASSUME TodoDown, NEW p \in Procs, todo[p] # <<>> PROVE Head(todo[p]) # ".."
    BY DEF ParentsKept
  <2>1. todo[p] \in Seq(Entries \ {".."})
    BY DEF TodoDown, Downward
  <2>2. Head(todo[p]) \in Entries \ {".."}
    BY <2>1
  <2> QED
    BY <2>2
<1> QED
  BY <1>1, <1>2, <1>3, PTL DEF Spec

\* The two assertions that are modelled hold: ilock() never meets a free inode
\* (fs.c "ilock: no type") and unlink() never an entry for an inode without
\* links (sysfile.c "unlink: nlink < 1").
THEOREM NoPanicAlways == Spec /\ []ParentsKept => []NoPanic
<1>1. FsInvariant => NoPanic
  BY DEF FsInvariant, DiskInv, Control, NoPanic
<1> QED
  BY <1>1, FsAlways, PTL

\* What a crash falls back to is in order.
LEMMA DurableConsistent ==
    ASSUME IInv, Durable
    PROVE  Consistent
<1>1. \A i \in Inums : durable.inode[i].nlink \in Int
  BY DEF IInv, Shape, Image
<1>2. Owned(durable) /\ FreeEmpty(durable)
  BY DEF Durable, Tree
<1>3. ASSUME NEW i \in Inums
      PROVE  /\ durable.inode[i].nlink >= Links(durable, i)
             /\ Links(durable, i) > 0 => durable.inode[i].type # "free"
             /\ durable.inode[i].type = "free" => durable.inode[i].addrs = {}
  <2> DEFINE a == Cardinality(NamesOf(durable, i))
             b == Cardinality(Subdirs(durable, i))
             r == IF i = ROOTINO THEN 1 ELSE 0
             m == durable.inode[i].nlink
  <2>1. a \in Nat /\ b \in Nat /\ r \in Nat /\ m \in Int
    BY <1>1, NamesFinite
  <2>2. Links(durable, i) = a + b + r
    BY DEF Links, NamesOf, Subdirs
  <2>3. m >= a + b + r + 0
    BY DEF Durable, Covered
  <2>4. durable.inode[i].type = "free" => m = 0 /\ durable.inode[i].addrs = {}
    BY <1>2 DEF FreeEmpty, FreeInode
  <2> HIDE DEF a, b, r, m
  <2>5. m >= a + b + r /\ (m = 0 => ~(a + b + r > 0))
    BY <2>1, <2>3
  <2> QED
    BY <2>2, <2>4, <2>5 DEF m
<1> QED
  BY <1>2, <1>3 DEF Consistent, Owned

\* Whenever power fails, what recovery finds is a file system: no entry names
\* a free inode or one with too small a link count, and every block has one
\* owner or none, as the bitmap says (log.c commit(), fs.c, sysfile.c).
THEOREM ConsistentAlways == Spec /\ []ParentsKept => []Consistent
<1>1. FsInvariant => Consistent
  BY DurableConsistent DEF FsInvariant, DiskInv
<1> QED
  BY <1>1, FsAlways, PTL

\* The images and the cache have their types.
LEMMA InvType ==
    ASSUME FsInvariant
    PROVE  TypeOK
<1>1. Shape /\ Durable /\ OnDisk /\ Locks /\ Control /\ RefCount /\ Copies
  BY DEF FsInvariant, DiskInv, IInv
<1>2. ASSUME NEW d \in Image, \A i \in Inums : d.inode[i].nlink \in Nat
      PROVE  d \in FsImage
  <2>1. \A i \in Inums : d.inode[i] \in [type : Types, nlink : Nat,
                            ents : [Entries -> Pointer], addrs : SUBSET DBlocks]
    BY <1>2 DEF Image
  <2> QED
    BY <2>1 DEF Image, FsImage
<1>3. disk \in FsImage
  <2>1. \A i \in Inums : disk.inode[i].nlink \in Nat
    BY <1>1, OwersFinite, NlinkNat DEF Shape, OnDisk, Counts
  <2> QED
    BY <1>1, <1>2, <2>1 DEF Shape
<1>4. durable \in FsImage
  <2>1. \A i \in Inums : durable.inode[i].nlink \in Nat
    BY <1>1, NlinkNat DEF Shape, Durable
  <2> QED
    BY <1>1, <1>2, <2>1 DEF Shape
<1>5. ref \in [Inums -> Nat]
  <2>1. ASSUME NEW i \in Inums PROVE ref[i] \in Nat
    BY <1>1, RefIsCard, FS_CardinalityType
  <2> QED
    BY <1>1, <2>1 DEF Shape
<1>6. ic \in [Inums -> [valid : BOOLEAN, type : Types, nlink : Nat]]
  <2>1. \A i \in Inums : ic[i] \in [valid : BOOLEAN, type : Types, nlink : Nat]
    BY <1>1 DEF Shape, Copies
  <2> QED
    BY <1>1, <2>1 DEF Shape
<1> QED
  BY <1>1, <1>3, <1>4, <1>5, <1>6 DEF TypeOK, Shape, Locks, Control

\* Types are kept; in particular no link count and no reference count falls
\* below zero (fs.c iput(), sysfile.c sys_link(), sys_unlink(), create()).
THEOREM FsTypeCorrect == Spec /\ []ParentsKept => []TypeOK
<1>1. FsInvariant => TypeOK
  BY InvType
<1> QED
  BY <1>1, FsAlways, PTL

\* A process that waits for an inode while it holds the lock of another, and
\* is none of the exceptions, waits for an entry of the one it holds.
LEMMA WaitsBelow ==
    ASSUME FsInvariant, NEW S \in SUBSET Procs, Stuck(S), NEW q \in S,
           NEW c \in Inums, lock[c] = q,
           ~(pc[q] = "iput" /\ then[q] \in {"got", "unlink_dec"}),
           ~(pc[q] = "iput" /\ then[q] = "iunlockput_dp" /\ name(q) \in {".", ".."})
    PROVE  \E e \in Names : Ino(c).ents[e] = Sought(q)
<1>1. q \in Procs /\ IInv /\ Shape /\ CallsSound /\ Locks /\ Thens
  BY DEF FsInvariant, DiskInv, IInv
<1>2. Sought(q) # Null /\ lock[Sought(q)] \in S
  BY DEF Stuck
<1>3. Holds(q, c)
  BY <1>1 DEF Locks
<1>4. EntryP(q) /\ NewP(q) /\ then[q] \notin {"unlink_ip", "create_new"}
  BY <1>1 DEF CallsSound, Thens
<1>5. pc[q] \notin {"unref", "got", "unlink_dec", "iunlockput_dp"}
  BY <1>2 DEF Sought
<1>6. L(q) = IF pc[q] = "iput" THEN then[q] ELSE pc[q]
  BY <1>5 DEF L, Loc, Putting
<1>7. L(q) \notin HoldsIp
  BY <1>5, <1>6 DEF HoldsIp
<1>8. dp[q] = c /\ L(q) \in HoldsDp
  BY <1>3, <1>7 DEF Holds
<1>9. CASE pc[q] = "unlink_ip"
  <2>1. Sought(q) = ip[q]
    BY <1>9 DEF Sought
  <2> QED
    BY <1>4, <1>6, <1>8, <1>9, <2>1 DEF EntryP
<1>10. CASE pc[q] = "create_new"
  <2>1. Sought(q) = ip[q] /\ L(q) = "create_new"
    BY <1>6, <1>10 DEF Sought
  <2>2. PICK r \in Procs : lock[ip[q]] = r
    BY <1>2, <2>1
  <2>3. ip[q] \in Inums
    BY <1>1, <2>1, LocalsType
  <2>4. Holds(r, ip[q])
    BY <1>1, <2>2, <2>3 DEF Locks
  <2>5. CASE r = q
    BY <1>4, <1>7, <2>1, <2>4, <2>5 DEF NewP, Holds
  <2>6. CASE r # q
    <3>1. ip[q] \in Pts(r)
      BY <2>4, Locals DEF Holds
    <3> QED
      BY <1>4, <2>1, <2>6, <3>1 DEF NewP
  <2> QED
    BY <2>5, <2>6
<1>11. CASE pc[q] = "iput"
  <2>1. L(q) = "iunlockput_dp" /\ then[q] = "iunlockput_dp"
    BY <1>4, <1>6, <1>8, <1>11 DEF HoldsDp
  <2>2. todo[q] # <<>> /\ put[q] = <<Ino(c).ents[name(q)]>>
    BY <1>4, <1>8, <1>11, <2>1 DEF EntryP, Putting
  <2>3. Sought(q) = Ino(c).ents[name(q)]
    BY <1>11, <2>2 DEF Sought
  <2>4. name(q) \in Names
    <3>1. todo[q] \in Seq(Entries)
      BY <1>1 DEF Shape
    <3>2. name(q) \in Entries
      BY <2>2, <3>1, PathType DEF name
    <3> QED
      BY <1>11, <2>1, <3>2 DEF Entries
  <2> QED
    BY <2>3, <2>4
<1> QED
  BY <1>5, <1>6, <1>8, <1>9, <1>10, <1>11 DEF HoldsDp

\* What a process waits for is an inode.
LEMMA SoughtType ==
    ASSUME IInv, NEW p \in Procs, Sought(p) # Null
    PROVE  Sought(p) \in Inums
<1>1. /\ Shape /\ ip[p] \in Pointer /\ dp[p] \in Pointer /\ ofile[p].ip \in Pointer
  BY LocalsType DEF IInv, Shape
<1>2. pc[p] = "iput" => Head(put[p]) \in Inums
  <2>1. put[p] \in Seq(Inums) /\ (pc[p] = "iput" => put[p] # <<>>)
    BY DEF IInv, Shape, RowInv, Row, Putting
  <2> QED
    BY <2>1
<1> QED
  BY <1>1, <1>2, InumFacts DEF Sought

\* No processes wait for each other in a circle: each holds a directory and
\* waits for an entry of it, so the circle would be one of directories.
LEMMA NeverStuck ==
    ASSUME FsInvariant
    PROVE  LookupNeverStuck
<1> SUFFICES ASSUME NEW S \in SUBSET Procs, S # {}, Stuck(S),
                    ~ \E p \in S :
                        /\ pc[p] = "iput"
                        /\ \/ then[p] \in {"got", "unlink_dec"}
                           \/ then[p] = "iunlockput_dp" /\ name(p) \in {".", ".."}
             PROVE  FALSE
  BY DEF LookupNeverStuck
<1> DEFINE C == {Sought(p) : p \in S}
<1>1. IInv /\ NoCycle(disk)
  BY DEF FsInvariant, DiskInv, OnDisk, Tree
<1>2. C \in SUBSET Inums /\ C # {}
  <2>1. ASSUME NEW p \in S PROVE Sought(p) \in Inums
    BY <1>1, SoughtType DEF Stuck
  <2> QED
    BY <2>1
<1>3. PICK c \in C : \A e \in Names : disk.inode[c].ents[e] \notin C
  BY <1>1, <1>2 DEF NoCycle
<1>4. PICK p \in S : c = Sought(p)
  BY <1>3
<1>5. PICK q \in S : lock[c] = q
  BY <1>4 DEF Stuck
<1>6. \E e \in Names : Ino(c).ents[e] = Sought(q)
  BY <1>2, <1>5, WaitsBelow
<1>7. Sought(q) \in C
  OBVIOUS
<1> QED
  BY <1>3, <1>6, <1>7 DEF Ino

\* In every deadlock of inode locks there is a create() or an unlink() that
\* puts the directory while it holds the inode, or a link() to "." or "..":
\* looking names up alone never leads to one (fs.c:150).
THEOREM LookupAlwaysFree == Spec /\ []ParentsKept => []LookupNeverStuck
<1>1. FsInvariant => LookupNeverStuck
  BY NeverStuck
<1> QED
  BY <1>1, FsAlways, PTL

\* Programs whose paths go down only, from the root or from the current
\* directory, meet none of this whatever they do and whenever power fails:
\* neither "ilock: no type" nor "unlink: nlink < 1", no broken image, no deadlock of lookups.
THEOREM DownwardSafe ==
    ASSUME PathsDown
    PROVE  Spec => [](TypeOK /\ NoPanic /\ Consistent /\ LookupNeverStuck)
<1>1. Spec => []ParentsKept
  BY ParentsAlwaysKept
<1> QED
  BY <1>1, FsTypeCorrect, NoPanicAlways, ConsistentAlways, LookupAlwaysFree, PTL
=============================================================================
