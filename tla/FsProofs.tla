------------------------------ MODULE FsProofs ------------------------------
(* The calls of fs.c, for any names, numbers of blocks and descriptors and *)
(* for every moment at which the power may fail; and the lists of list.c,  *)
(* one of which is the list of open inodes, for any lists, elements and    *)
(* tasks.                                                                  *)
EXTENDS Fs, List, FiniteSetTheorems, SequenceTheorems, WellFoundedInduction, TLAPS

(* The disk is taken apart: the block and the size of every inode (bl,     *)
(* sz), the entries in every block (blk) and the two bitmaps (ib, bb).     *)
(* Ent is what a directory has, DirsOf what the root leads to.             *)
Ent(bl, blk, i) == IF bl[i] = Nil THEN {} ELSE blk[bl[i]]

Sub(bl, blk, d) == {e.ino : e \in {e \in Ent(bl, blk, d) : e.type = "directory"}}

ClosedSet(bl, blk, S) == 0 \in S /\ \A d \in S : Sub(bl, blk, d) \subseteq S

DirsOf(bl, blk) == {i \in Inodes : \A S \in SUBSET Inodes : ClosedSet(bl, blk, S) => i \in S}

(* e is a name in directory d; i has a name or is the root. *)
Link(bl, blk, D, d, e) == d \in D /\ e \in Ent(bl, blk, d) /\ e.name \notin Dots

Named(bl, blk, D, i) == i = 0 \/ \E d, e : Link(bl, blk, D, d, e) /\ e.ino = i

(* What every moment's disk satisfies *)
CrashOk(bl, blk, ib, bb, D) ==
    /\ D = DirsOf(bl, blk)
    /\ \A i \in Inodes : Named(bl, blk, D, i) => bl[i] \in bb \union {Nil}
    /\ \A i, j \in Inodes :
          Named(bl, blk, D, i) /\ Named(bl, blk, D, j) /\ i # j /\ bl[i] = bl[j] => bl[i] = Nil
    /\ \A d, e, c, f :
          Link(bl, blk, D, d, e) /\ e.ino \notin ib /\ Link(bl, blk, D, c, f) /\ f.ino \notin ib
          => d = c /\ e = f

EntrySet == [name : Names \union Dots, ino : Inodes, type : {"regular", "directory"}]

TypedDisk(bl, blk, ib, bb, sz) ==
    /\ bl \in [Inodes -> Blocks \union {Nil}] /\ sz \in [Inodes -> Int]
    /\ blk \in [Blocks -> SUBSET EntrySet]
    /\ ib \in SUBSET Inodes /\ bb \in SUBSET Blocks
    /\ \A b \in Blocks : IsFiniteSet(blk[b])

(* Directory d has one ".", one "..", and the size it says; its name is in *)
(* the directory that ".." names, which is the root itself for the root.   *)
DirOk(bl, blk, sz, D, d) ==
    /\ bl[d] # Nil
    /\ sz[d] = Cardinality(Ent(bl, blk, d))
    /\ \E up \in D : /\ DotEntries(d, up) \subseteq Ent(bl, blk, d)
                     /\ \A e \in Ent(bl, blk, d) : e.name \in Dots => e \in DotEntries(d, up)
                     /\ d = 0 => up = 0
                     /\ d # 0 => \E e : Link(bl, blk, D, up, e) /\ e.ino = d /\ e.type = "directory"
    /\ \A e \in Ent(bl, blk, d) : IF e.name \in Dots THEN e.type = "directory" ELSE e.ino # 0

(* What the disk satisfies between two calls *)
Good(bl, blk, ib, bb, sz, D) ==
    /\ TypedDisk(bl, blk, ib, bb, sz)
    /\ D = DirsOf(bl, blk)
    /\ \A i \in Inodes : i \in ib <=> Named(bl, blk, D, i)
    /\ \A d, e, c, f :
          Link(bl, blk, D, d, e) /\ Link(bl, blk, D, c, f) /\ (e.ino = f.ino \/ (d = c /\ e.name = f.name))
          => d = c /\ e = f
    /\ \A b \in Blocks : b \in bb <=> \E i \in ib : bl[i] = b
    /\ \A i, j \in ib : i # j /\ bl[i] = bl[j] => bl[i] = Nil
    /\ \A i \in Inodes \ ib : bl[i] = Nil /\ sz[i] = 0
    /\ \A d \in D : DirOk(bl, blk, sz, D, d)
    /\ bl[0] = 0

-----------------------------------------------------------------------------
(* The memory, when the disk is as the call leaves it *)
InodeRec == [size : Int, blk : Blocks \union {Nil}]

OpenRec == [cnt : Nat, inode : InodeRec, write_deny : BOOLEAN]

WriteSet ==
    UNION { [to : {"inode"}, at : Inodes, v : InodeRec],
            [to : {"block"}, at : Blocks, v : SUBSET EntrySet],
            [to : {"ibits"}, at : {Nil}, v : SUBSET Inodes],
            [to : {"bbits"}, at : {Nil}, v : SUBSET Blocks] }

TypeOK ==
    /\ d_inode \in [Inodes -> InodeRec]
    /\ open_inodes \in [Inodes -> OpenRec]
    /\ file_table \in [Slots -> [ino : Inodes \union {Nil}, write : BOOLEAN]]
    /\ fd_table \in [Fds -> Slots \union {Nil}]
    /\ dirs \in [Inodes -> Nat]
    /\ todo \in Seq(WriteSet)
    /\ kernel = "up"

(* What block_bitmap is when the disk has bb; where mount_partition leaves *)
(* it empty, no block but the root's is ever used.                         *)
Mounted(bb) == IF mount_loads THEN bb ELSE {}

Plain(bl) == mount_loads \/ \A i \in Inodes \ {0} : bl[i] = Nil

MemOk(bl, ib, bb, sz) ==
    /\ inode_bitmap = ib /\ block_bitmap = Mounted(bb) /\ Plain(bl)
    /\ \A i \in Inodes : open_inodes[i].cnt > 0 => open_inodes[i].inode = [size |-> sz[i], blk |-> bl[i]]

Refs(i) == {s \in Slots : file_table[s].ino = i}

(* Who refers to which inode: a file is open through slots of file_table, *)
(* one descriptor to a slot; the working directory is one.                 *)
FilesOk(ib, D) ==
    /\ \A s \in Slots : file_table[s].ino \in {Nil} \union (ib \ D)
    /\ \A fd \in Fds : fd_table[fd] # Nil =>
          /\ file_table[fd_table[fd]].ino # Nil
          /\ \A gd \in Fds : fd_table[gd] = fd_table[fd] => gd = fd

CountsOk(D) ==
    /\ \A i \in Inodes \ D : open_inodes[i].cnt = Cardinality(Refs(i)) /\ dirs[i] = 0
    /\ \A i \in D : open_inodes[i].cnt >= dirs[i] + (IF i = 0 THEN 1 ELSE 0)

RefsOk(ib, D) == FilesOk(ib, D) /\ CountsOk(D) /\ cwd_inode_nr \in D

(* A disk, and the disk after a write *)
Disk(bl, blk, ib, bb, sz) == [bl |-> bl, blk |-> blk, ib |-> ib, bb |-> bb, sz |-> sz]

NowBl == [i \in Inodes |-> d_inode[i].blk]
NowSz == [i \in Inodes |-> d_inode[i].size]
Now   == Disk(NowBl, d_block, d_ibits, d_bbits, NowSz)

SetAt(f, i, v) == [f EXCEPT ![i] = v]

Apply(v, w) ==
    Disk(IF w.to = "inode" THEN SetAt(v.bl, w.at, w.v.blk) ELSE v.bl,
         IF w.to = "block" THEN SetAt(v.blk, w.at, w.v) ELSE v.blk,
         IF w.to = "ibits" THEN w.v ELSE v.ib,
         IF w.to = "bbits" THEN w.v ELSE v.bb,
         IF w.to = "inode" THEN SetAt(v.sz, w.at, w.v.size) ELSE v.sz)

(* The writes of w lead from disk v to disk u, and all the way a power     *)
(* failure leaves what CrashOk allows.                                     *)
Safe(v) == \E D : CrashOk(v.bl, v.blk, v.ib, v.bb, D)

Steps(h, w) == /\ \A k \in 1..Len(w) : h[k + 1] = Apply(h[k], w[k])
               /\ \A k \in 1..(Len(w) + 1) : Safe(h[k])

Leads(v, w, u) == \E h : Steps(h, w) /\ h[1] = v /\ h[Len(w) + 1] = u

(* The disk will be what the memory says. *)
Agrees(u, D) ==
    /\ Good(u.bl, u.blk, u.ib, u.bb, u.sz, D)
    /\ MemOk(u.bl, u.ib, u.bb, u.sz)
    /\ RefsOk(u.ib, D)

FsInv == TypeOK /\ \E u, D : Leads(Now, todo, u) /\ Agrees(u, D)

(* The ASSERT of the first sys_write or sys_mkdir has stopped the kernel:  *)
(* the disk is as the calls before have left it.                           *)
Stopped ==
    /\ kernel = "panic" /\ todo = << >>
    /\ d_inode \in [Inodes -> InodeRec]
    /\ \A i \in Inodes : open_inodes[i].cnt \in Nat /\ dirs[i] \in Nat
    /\ Plain(NowBl)
    /\ \E D : Good(NowBl, d_block, d_ibits, d_bbits, NowSz, D) /\ FilesOk(d_ibits, D) /\ CountsOk(D)

(* A start that loses inodes ends what the properties are about. *)
AllInv == lost \/ FsInv \/ Stopped

-----------------------------------------------------------------------------

-----------------------------------------------------------------------------
(* The directories of a disk: a closed set, and in every closed set. *)
LEMMA DirsClosed ==
    ASSUME NEW bl, NEW blk, NEW S \in SUBSET Inodes, ClosedSet(bl, blk, S)
    PROVE  /\ DirsOf(bl, blk) \subseteq S
           /\ ClosedSet(bl, blk, DirsOf(bl, blk))
<1>1. DirsOf(bl, blk) \subseteq S
  BY DEF DirsOf
<1>2. 0 \in DirsOf(bl, blk)
  BY DEF DirsOf, ClosedSet
<1>3. ASSUME NEW d \in DirsOf(bl, blk), NEW i \in Sub(bl, blk, d) PROVE i \in DirsOf(bl, blk)
  <2>1. ASSUME NEW T \in SUBSET Inodes, ClosedSet(bl, blk, T) PROVE i \in T
    BY <1>3, <2>1 DEF DirsOf, ClosedSet
  <2> QED
    BY <2>1, <1>1 DEF DirsOf
<1> QED
  BY <1>1, <1>2, <1>3 DEF ClosedSet

(* How the directories change when some get more: D are those of the old   *)
(* disk and E those of the new one.                                        *)
Grown(bl, blk, bl2, blk2, D, E) ==
    /\ D \subseteq E
    /\ \A d \in D : Sub(bl, blk, d) \subseteq Sub(bl2, blk2, d)
    /\ \A d \in E : Sub(bl2, blk2, d) \subseteq E
    /\ \A c \in E : c \notin D => \E p \in D : c \in Sub(bl2, blk2, p)

LEMMA DirsGrow ==
    ASSUME NEW bl, NEW blk, NEW bl2, NEW blk2, NEW D, NEW E \in SUBSET Inodes,
           D = DirsOf(bl, blk), ClosedSet(bl, blk, D), Grown(bl, blk, bl2, blk2, D, E)
    PROVE  E = DirsOf(bl2, blk2)
<1> USE DEF Grown
<1>1. ClosedSet(bl2, blk2, E)
  BY DEF ClosedSet
<1>2. DirsOf(bl2, blk2) \subseteq E
  BY <1>1 DEF DirsOf
<1>3. ASSUME NEW S \in SUBSET Inodes, ClosedSet(bl2, blk2, S) PROVE E \subseteq S
  <2> DEFINE T == S \intersect D
  <2>1. T \in SUBSET Inodes
    OBVIOUS
  <2>2. ClosedSet(bl, blk, T)
    <3>1. 0 \in T
      BY <1>3 DEF ClosedSet
    <3>2. ASSUME NEW d \in T, NEW i \in Sub(bl, blk, d) PROVE i \in T
      <4>1. i \in D
        BY <3>2 DEF ClosedSet
      <4>2. i \in S
        BY <1>3, <3>2 DEF ClosedSet
      <4> QED
        BY <4>1, <4>2
    <3> QED
      BY <3>1, <3>2 DEF ClosedSet
  <2>3. D \subseteq S
    BY <2>1, <2>2, DirsClosed
  <2> QED
    BY <2>3, <1>3 DEF ClosedSet
<1> QED
  BY <1>2, <1>3 DEF DirsOf

(* When nothing changes for them they remain. *)
SameSubs(bl, blk, bl2, blk2, D) == \A d \in D : Sub(bl2, blk2, d) = Sub(bl, blk, d)

LEMMA DirsSame ==
    ASSUME NEW bl, NEW blk, NEW bl2, NEW blk2, NEW D \in SUBSET Inodes,
           D = DirsOf(bl, blk), ClosedSet(bl, blk, D),
           SameSubs(bl, blk, bl2, blk2, D)
    PROVE  D = DirsOf(bl2, blk2)
<1>1. Grown(bl, blk, bl2, blk2, D, D)
  BY DEF ClosedSet, Grown, SameSubs
<1> QED
  BY <1>1, DirsGrow

LEMMA FsBounds ==
    /\ Inodes \subseteq Nat /\ Blocks \subseteq Nat /\ 0 \in Inodes /\ 0 \in Blocks
    /\ Nil \notin Inodes /\ Nil \notin Blocks /\ Nil \notin Slots
    /\ NInodes \in Nat /\ Slots \subseteq Nat /\ Fds \subseteq Nat
BY FsAssumption DEF Inodes, Blocks, Nil, Slots, Fds

LEMMA EntTyped ==
    ASSUME NEW bl, NEW blk, NEW ib, NEW bb, NEW sz, TypedDisk(bl, blk, ib, bb, sz), NEW i \in Inodes
    PROVE  /\ Ent(bl, blk, i) \subseteq EntrySet
           /\ IsFiniteSet(Ent(bl, blk, i))
           /\ Sub(bl, blk, i) \subseteq Inodes
<1>1. Ent(bl, blk, i) \subseteq EntrySet
  BY DEF TypedDisk, Ent
<1>2. IsFiniteSet(Ent(bl, blk, i))
  BY FS_EmptySet DEF TypedDisk, Ent
<1>3. \A e \in EntrySet : e.ino \in Inodes
  BY DEF EntrySet
<1> QED
  BY <1>1, <1>2, <1>3 DEF Sub

(* The directories of a disk of the right type *)
LEMMA DirsTyped ==
    ASSUME NEW bl, NEW blk, NEW ib, NEW bb, NEW sz, TypedDisk(bl, blk, ib, bb, sz)
    PROVE  /\ DirsOf(bl, blk) \subseteq Inodes /\ 0 \in DirsOf(bl, blk)
           /\ ClosedSet(bl, blk, DirsOf(bl, blk))
<1>1. ClosedSet(bl, blk, Inodes)
  BY EntTyped, FsBounds DEF ClosedSet
<1>2. Inodes \in SUBSET Inodes
  OBVIOUS
<1>3. ClosedSet(bl, blk, DirsOf(bl, blk))
  BY <1>1, <1>2, DirsClosed
<1> QED
  BY <1>3 DEF ClosedSet, DirsOf

LEMMA GoodFacts ==
    ASSUME NEW bl, NEW blk, NEW ib, NEW bb, NEW sz, NEW D, Good(bl, blk, ib, bb, sz, D)
    PROVE  /\ TypedDisk(bl, blk, ib, bb, sz) /\ D = DirsOf(bl, blk)
           /\ D \subseteq Inodes /\ 0 \in D /\ ClosedSet(bl, blk, D)
           /\ D \subseteq ib /\ ib \subseteq Inodes /\ bb \subseteq Blocks /\ 0 \in bb
           /\ \A d \in D : bl[d] \in bb /\ Ent(bl, blk, d) = blk[bl[d]] /\ Ent(bl, blk, d) \subseteq EntrySet
           /\ \A d, c \in D : d # c => bl[d] # bl[c]
           /\ \A d, e : Link(bl, blk, D, d, e) =>
                 /\ e.ino \in ib /\ e.ino # 0 /\ e.ino \in Inodes
                 /\ e.ino \in D <=> e.type = "directory"
<1>1. TypedDisk(bl, blk, ib, bb, sz) /\ D = DirsOf(bl, blk) /\ ib \subseteq Inodes /\ bb \subseteq Blocks
  BY DEF Good, TypedDisk
<1>2. D \subseteq Inodes /\ 0 \in D /\ ClosedSet(bl, blk, D)
  BY <1>1, DirsTyped
<1>3. \A d \in D : Ent(bl, blk, d) \subseteq EntrySet /\ bl[d] # Nil /\ Ent(bl, blk, d) = blk[bl[d]]
  BY <1>1, <1>2, EntTyped DEF Good, DirOk, Ent
<1>4. \A d, e : Link(bl, blk, D, d, e) => e.ino \in Inodes /\ e \in EntrySet
  BY <1>3 DEF Link, EntrySet
<1>5. D \subseteq ib
  BY <1>2 DEF Good, DirOk, Named
<1>6. \A d \in D : bl[d] \in bb
  <2> SUFFICES ASSUME NEW d \in D PROVE bl[d] \in bb
    OBVIOUS
  <2>1. bl[d] \in Blocks /\ d \in ib
    BY <1>1, <1>2, <1>3, <1>5 DEF TypedDisk
  <2> QED
    BY <2>1 DEF Good
<1>7. \A d, c \in D : d # c => bl[d] # bl[c]
  BY <1>3, <1>5 DEF Good
<1>8. ASSUME NEW d, NEW e, Link(bl, blk, D, d, e)
      PROVE  /\ e.ino \in ib /\ e.ino # 0 /\ e.ino \in Inodes
             /\ e.ino \in D <=> e.type = "directory"
  <2>1. e.ino \in Inodes /\ e \in EntrySet
    BY <1>8, <1>4
  <2>2. e.ino \in ib
    BY <1>8, <2>1 DEF Good, Named
  <2>3. e.ino # 0
    BY <1>8 DEF Good, DirOk, Link
  <2>4. e.type = "directory" => e.ino \in D
    BY <1>8, <1>2 DEF Link, ClosedSet, Sub
  <2>5. ASSUME e.ino \in D PROVE e.type = "directory"
    <3>1. PICK up, f : Link(bl, blk, D, up, f) /\ f.ino = e.ino /\ f.type = "directory"
      BY <2>3, <2>5 DEF Good, DirOk
    <3>2. e = f
      BY <1>8, <3>1 DEF Good
    <3> QED
      BY <3>1, <3>2
  <2> QED
    BY <2>1, <2>2, <2>3, <2>4, <2>5
<1>9. 0 \in bb
  BY <1>2, <1>6 DEF Good
<1> QED
  BY <1>1, <1>2, <1>3, <1>5, <1>6, <1>7, <1>8, <1>9

LEMMA GoodIsSafe ==
    ASSUME NEW bl, NEW blk, NEW ib, NEW bb, NEW sz, NEW D, Good(bl, blk, ib, bb, sz, D)
    PROVE  CrashOk(bl, blk, ib, bb, D)
<1>1. \A i \in Inodes : Named(bl, blk, D, i) => bl[i] \in bb \union {Nil}
  <2> SUFFICES ASSUME NEW i \in Inodes, Named(bl, blk, D, i) PROVE bl[i] \in bb \union {Nil}
    OBVIOUS
  <2>1. i \in ib /\ bl[i] \in Blocks \union {Nil}
    BY DEF Good, TypedDisk
  <2> QED
    BY <2>1 DEF Good
<1>2. \A i, j \in Inodes :
         Named(bl, blk, D, i) /\ Named(bl, blk, D, j) /\ i # j /\ bl[i] = bl[j] => bl[i] = Nil
  BY DEF Good
<1>3. \A d, e : Link(bl, blk, D, d, e) => e.ino \in ib
  BY GoodFacts
<1> QED
  BY <1>1, <1>2, <1>3 DEF CrashOk, Good

-----------------------------------------------------------------------------
(* One directory's block is written, or an entry is added to it. *)
PutBlock(blk, b, X) == SetAt(blk, b, X)

AddEntry(bl, blk, p, e) == PutBlock(blk, bl[p], Ent(bl, blk, p) \union {e})

LEMMA EntAfterPut ==
    ASSUME NEW bl, NEW blk, NEW ib, NEW bb, NEW sz, NEW D, Good(bl, blk, ib, bb, sz, D),
           NEW p \in D, NEW X, NEW blk1, blk1 = PutBlock(blk, bl[p], X)
    PROVE  \A d \in D : Ent(bl, blk1, d) = IF d = p THEN X ELSE Ent(bl, blk, d)
<1>1. /\ \A d \in D : bl[d] \in bb /\ Ent(bl, blk, d) = blk[bl[d]]
      /\ \A d, c \in D : d # c => bl[d] # bl[c]
      /\ bb \subseteq Blocks /\ blk \in [Blocks -> SUBSET EntrySet]
  BY GoodFacts DEF TypedDisk
<1>2. \A d \in D : bl[d] # Nil
  BY <1>1, FsBounds
<1> QED
  BY <1>1, <1>2 DEF Ent, PutBlock, SetAt

(* A name that p does not have yet *)
NewName(bl, blk, p, name) == name \in Names /\ \A f \in Ent(bl, blk, p) : f.name # name

LEMMA EntryTyped ==
    ASSUME NEW name \in Names, NEW i \in Inodes, NEW type \in {"regular", "directory"}, NEW e, e = Entry(name, i, type)
    PROVE  e \in EntrySet /\ e.name = name /\ e.ino = i /\ e.type = type /\ e.name \notin Dots
<1>1. Names \intersect Dots = {}
  BY FsAssumption
<1> QED
  BY <1>1 DEF Entry, EntrySet

LEMMA BlocksTyped ==
    ASSUME NEW bl, NEW blk, NEW ib, NEW bb, NEW sz, TypedDisk(bl, blk, ib, bb, sz),
           NEW b, NEW X \in SUBSET EntrySet, IsFiniteSet(X), NEW blk1, blk1 = PutBlock(blk, b, X)
    PROVE  blk1 \in [Blocks -> SUBSET EntrySet] /\ \A c \in Blocks : IsFiniteSet(blk1[c])
<1>1. blk \in [Blocks -> SUBSET EntrySet] /\ \A c \in Blocks : IsFiniteSet(blk[c])
  BY DEF TypedDisk
<1> QED
  BY <1>1 DEF PutBlock, SetAt

(* The entry that file_create and sys_mkdir add *)
LEMMA AddedFacts ==
    ASSUME NEW bl, NEW blk, NEW ib, NEW bb, NEW sz, NEW D, Good(bl, blk, ib, bb, sz, D),
           NEW p \in D, NEW e \in EntrySet, NewName(bl, blk, p, e.name), NEW blk1,
           blk1 = AddEntry(bl, blk, p, e)
    PROVE  /\ blk1 \in [Blocks -> SUBSET EntrySet] /\ \A c \in Blocks : IsFiniteSet(blk1[c])
           /\ \A d \in D : Ent(bl, blk1, d) = IF d = p THEN Ent(bl, blk, p) \union {e} ELSE Ent(bl, blk, d)
           /\ Cardinality(Ent(bl, blk1, p)) = Cardinality(Ent(bl, blk, p)) + 1
           /\ e.name \notin Dots
<1>1. TypedDisk(bl, blk, ib, bb, sz) /\ p \in Inodes
  BY GoodFacts
<1>2. Ent(bl, blk, p) \subseteq EntrySet /\ IsFiniteSet(Ent(bl, blk, p))
  BY <1>1, EntTyped
<1>3. e \notin Ent(bl, blk, p)
  BY DEF NewName
<1> DEFINE X == Ent(bl, blk, p) \union {e}
<1>4. IsFiniteSet(X) /\ Cardinality(X) = Cardinality(Ent(bl, blk, p)) + 1
  BY <1>2, <1>3, FS_AddElement
<1>5. X \in SUBSET EntrySet
  BY <1>2
<1>6. blk1 \in [Blocks -> SUBSET EntrySet] /\ \A c \in Blocks : IsFiniteSet(blk1[c])
  <2> HIDE DEF X
  <2>1. blk1 = PutBlock(blk, bl[p], X)
    BY DEF X, AddEntry
  <2> QED
    BY <1>1, <1>4, <1>5, <2>1, BlocksTyped
<1>7. \A d \in D : Ent(bl, blk1, d) = IF d = p THEN Ent(bl, blk, p) \union {e} ELSE Ent(bl, blk, d)
  <2> HIDE DEF X
  <2>1. blk1 = PutBlock(blk, bl[p], X)
    BY DEF X, AddEntry
  <2>2. \A d \in D : Ent(bl, blk1, d) = IF d = p THEN X ELSE Ent(bl, blk, d)
    BY <2>1, EntAfterPut
  <2> QED
    BY <2>2 DEF X
<1>8. e.name \notin Dots
  BY FsAssumption DEF NewName
<1> QED
  BY <1>4, <1>6, <1>7, <1>8

(* file_create's entry is on the disk, and the directories are the same. *)
LEMMA CreateFacts ==
    ASSUME NEW bl, NEW blk, NEW ib, NEW bb, NEW sz, NEW D, Good(bl, blk, ib, bb, sz, D),
           NEW p \in D, NEW e \in EntrySet, NewName(bl, blk, p, e.name), NEW blk1,
           blk1 = AddEntry(bl, blk, p, e),
           e.type = "regular"
    PROVE  /\ D = DirsOf(bl, blk1)
           /\ \A d, f : Link(bl, blk1, D, d, f) <=> Link(bl, blk, D, d, f) \/ (d = p /\ f = e)
           /\ \A j : Named(bl, blk1, D, j) <=> Named(bl, blk, D, j) \/ j = e.ino
<1>1. /\ \A d \in D : Ent(bl, blk1, d) = IF d = p THEN Ent(bl, blk, p) \union {e} ELSE Ent(bl, blk, d)
      /\ e.name \notin Dots
  BY AddedFacts
<1>2. D = DirsOf(bl, blk) /\ D \in SUBSET Inodes /\ ClosedSet(bl, blk, D)
  BY GoodFacts
<1>3. SameSubs(bl, blk, bl, blk1, D)
  BY <1>1 DEF Sub, SameSubs
<1>4. D = DirsOf(bl, blk1)
  BY <1>2, <1>3, DirsSame
<1>5. \A d, f : Link(bl, blk1, D, d, f) <=> Link(bl, blk, D, d, f) \/ (d = p /\ f = e)
  BY <1>1 DEF Link
<1> QED
  BY <1>4, <1>5 DEF Named

LEMMA CreateSafe ==
    ASSUME NEW bl, NEW blk, NEW ib, NEW bb, NEW sz, NEW D, Good(bl, blk, ib, bb, sz, D),
           NEW p \in D, NEW e \in EntrySet, NewName(bl, blk, p, e.name), NEW blk1,
           blk1 = AddEntry(bl, blk, p, e),
           e.type = "regular", e.ino \notin ib
    PROVE  CrashOk(bl, blk1, ib, bb, D)
<1>1. /\ D = DirsOf(bl, blk1)
      /\ \A d, f : Link(bl, blk1, D, d, f) <=> Link(bl, blk, D, d, f) \/ (d = p /\ f = e)
      /\ \A j : Named(bl, blk1, D, j) <=> Named(bl, blk, D, j) \/ j = e.ino
  BY CreateFacts
<1>2. e.ino \in Inodes /\ bl[e.ino] = Nil
  BY DEF Good, EntrySet
<1>3. CrashOk(bl, blk, ib, bb, D)
  BY GoodIsSafe
<1>4. \A d, f : Link(bl, blk, D, d, f) => f.ino \in ib
  BY GoodFacts
<1> QED
  BY <1>1, <1>2, <1>3, <1>4 DEF CrashOk

Grow(sz, p) == [sz EXCEPT ![p] = sz[p] + 1]

LEMMA CreateGood ==
    ASSUME NEW bl, NEW blk, NEW ib, NEW bb, NEW sz, NEW D, Good(bl, blk, ib, bb, sz, D),
           NEW p \in D, NEW e \in EntrySet, NewName(bl, blk, p, e.name), NEW blk1,
           blk1 = AddEntry(bl, blk, p, e),
           e.type = "regular", e.ino \notin ib, NEW sz1, sz1 = Grow(sz, p)
    PROVE  Good(bl, blk1, ib \union {e.ino}, bb, sz1, D)
<1>1. /\ D = DirsOf(bl, blk1)
      /\ \A d, f : Link(bl, blk1, D, d, f) <=> Link(bl, blk, D, d, f) \/ (d = p /\ f = e)
      /\ \A j : Named(bl, blk1, D, j) <=> Named(bl, blk, D, j) \/ j = e.ino
  BY CreateFacts
<1>2. /\ blk1 \in [Blocks -> SUBSET EntrySet] /\ \A c \in Blocks : IsFiniteSet(blk1[c])
      /\ \A d \in D : Ent(bl, blk1, d) = IF d = p THEN Ent(bl, blk, p) \union {e} ELSE Ent(bl, blk, d)
      /\ Cardinality(Ent(bl, blk1, p)) = Cardinality(Ent(bl, blk, p)) + 1
      /\ e.name \notin Dots
  BY AddedFacts
<1>3. /\ bl \in [Inodes -> Blocks \union {Nil}] /\ sz \in [Inodes -> Int]
      /\ ib \in SUBSET Inodes /\ bb \in SUBSET Blocks
  BY DEF Good, TypedDisk
<1>4. e.ino \in Inodes /\ bl[e.ino] = Nil /\ p \in Inodes /\ D \subseteq Inodes /\ D \subseteq ib /\ e.ino # 0
  BY GoodFacts DEF Good, EntrySet
<1>5. TypedDisk(bl, blk1, ib \union {e.ino}, bb, sz1)
  BY <1>2, <1>3, <1>4 DEF TypedDisk, Grow
<1>6. \A i \in Inodes : i \in ib \union {e.ino} <=> Named(bl, blk1, D, i)
  BY <1>1 DEF Good
<1>7. \A d, f, c, g : Link(bl, blk1, D, d, f) /\ Link(bl, blk1, D, c, g)
                      /\ (f.ino = g.ino \/ (d = c /\ f.name = g.name)) => d = c /\ f = g
  <2>1. \A d, f : Link(bl, blk, D, d, f) => f.ino # e.ino /\ ~(d = p /\ f.name = e.name)
    BY GoodFacts DEF NewName, Link
  <2> QED
    BY <2>1, <1>1 DEF Good
<1>8. \A b \in Blocks : b \in bb <=> \E i \in ib \union {e.ino} : bl[i] = b
  BY <1>4, FsBounds DEF Good
<1>9. \A i, j \in ib \union {e.ino} : i # j /\ bl[i] = bl[j] => bl[i] = Nil
  BY <1>4 DEF Good
<1>10. \A i \in Inodes \ (ib \union {e.ino}) : bl[i] = Nil /\ sz1[i] = 0
  BY <1>3, <1>4 DEF Good, Grow
<1>11. ASSUME NEW d \in D PROVE DirOk(bl, blk1, sz1, D, d)
  <2>1. DirOk(bl, blk, sz, D, d)
    BY DEF Good
  <2>2. sz1[d] = Cardinality(Ent(bl, blk1, d))
    BY <2>1, <1>2, <1>3, <1>4 DEF DirOk, Grow
  <2>3. PICK up \in D : /\ DotEntries(d, up) \subseteq Ent(bl, blk, d)
                        /\ \A f \in Ent(bl, blk, d) : f.name \in Dots => f \in DotEntries(d, up)
                        /\ d = 0 => up = 0
                        /\ d # 0 => \E f : Link(bl, blk, D, up, f) /\ f.ino = d /\ f.type = "directory"
    BY <2>1 DEF DirOk
  <2>4. /\ DotEntries(d, up) \subseteq Ent(bl, blk1, d)
        /\ d # 0 => \E f : Link(bl, blk1, D, up, f) /\ f.ino = d /\ f.type = "directory"
    BY <2>3, <1>1, <1>2
  <2>5. \A f \in Ent(bl, blk1, d) : IF f.name \in Dots THEN f.type = "directory" ELSE f.ino # 0
    BY <2>1, <1>2, <1>4 DEF DirOk
  <2>6. \A f \in Ent(bl, blk1, d) : f.name \in Dots => f \in DotEntries(d, up)
    BY <2>3, <1>2, <1>4
  <2> QED
    BY <2>1, <2>2, <2>3, <2>4, <2>5, <2>6 DEF DirOk
<1> QED
  BY <1>1, <1>5, <1>6, <1>7, <1>8, <1>9, <1>10, <1>11 DEF Good

-----------------------------------------------------------------------------
(* sys_write: the block's bit, then the inode of the file. *)
LEMMA SetTyped ==
    ASSUME NEW S, NEW T, NEW f \in [S -> T], NEW i, NEW v \in T
    PROVE  SetAt(f, i, v) \in [S -> T]
BY DEF SetAt

LEMMA MoreBlocksSafe ==
    ASSUME NEW bl, NEW blk, NEW ib, NEW bb, NEW D, CrashOk(bl, blk, ib, bb, D), NEW X
    PROVE  CrashOk(bl, blk, ib, bb \union X, D)
BY DEF CrashOk

(* What a directory has does not depend on the inodes that are none. *)
SameEnts(bl, blk, bl2, blk2, D) == \A d \in D : Ent(bl2, blk2, d) = Ent(bl, blk, d)

LEMMA EntsSame ==
    ASSUME NEW bl, NEW blk, NEW bl2, NEW blk2, NEW D \in SUBSET Inodes,
           D = DirsOf(bl, blk), ClosedSet(bl, blk, D), SameEnts(bl, blk, bl2, blk2, D)
    PROVE  /\ D = DirsOf(bl2, blk2)
           /\ \A d, e : Link(bl2, blk2, D, d, e) <=> Link(bl, blk, D, d, e)
           /\ \A j : Named(bl2, blk2, D, j) <=> Named(bl, blk, D, j)
<1>1. SameSubs(bl, blk, bl2, blk2, D)
  BY DEF SameSubs, SameEnts, Sub
<1>2. D = DirsOf(bl2, blk2)
  BY <1>1, DirsSame
<1>3. \A d, e : Link(bl2, blk2, D, d, e) <=> Link(bl, blk, D, d, e)
  BY DEF Link, SameEnts
<1> QED
  BY <1>2, <1>3 DEF Named

LEMMA WriteGood ==
    ASSUME NEW bl, NEW blk, NEW ib, NEW bb, NEW sz, NEW D, Good(bl, blk, ib, bb, sz, D),
           NEW i \in ib, i \notin D, bl[i] = Nil, NEW b \in Blocks, b \notin bb,
           NEW bl1, bl1 = SetAt(bl, i, b), NEW sz1, sz1 = SetAt(sz, i, 1)
    PROVE  Good(bl1, blk, ib, bb \union {b}, sz1, D)
<1>1. /\ bl \in [Inodes -> Blocks \union {Nil}] /\ sz \in [Inodes -> Int]
      /\ ib \in SUBSET Inodes /\ bb \in SUBSET Blocks /\ i \in Inodes
      /\ D = DirsOf(bl, blk) /\ D \in SUBSET Inodes /\ ClosedSet(bl, blk, D) /\ 0 \in D
  BY GoodFacts DEF TypedDisk
<1>2. \A j \in Inodes : bl1[j] = (IF j = i THEN b ELSE bl[j]) /\ sz1[j] = IF j = i THEN 1 ELSE sz[j]
  BY <1>1 DEF SetAt
<1>3. TypedDisk(bl1, blk, ib, bb \union {b}, sz1)
  BY <1>1 DEF TypedDisk, Good, SetAt
<1>4. SameEnts(bl, blk, bl1, blk, D)
  BY <1>1, <1>2 DEF SameEnts, Ent
<1>5. /\ D = DirsOf(bl1, blk)
      /\ \A d, e : Link(bl1, blk, D, d, e) <=> Link(bl, blk, D, d, e)
      /\ \A j : Named(bl1, blk, D, j) <=> Named(bl, blk, D, j)
  BY <1>1, <1>4, EntsSame
<1>6. \A j \in Inodes : j \in ib <=> Named(bl1, blk, D, j)
  BY <1>5 DEF Good
<1>7. \A d, f, c, g : Link(bl1, blk, D, d, f) /\ Link(bl1, blk, D, c, g)
                      /\ (f.ino = g.ino \/ (d = c /\ f.name = g.name)) => d = c /\ f = g
  BY <1>5 DEF Good
<1>8. \A c \in Blocks : c \in bb \union {b} <=> \E j \in ib : bl1[j] = c
  <2> SUFFICES ASSUME NEW c \in Blocks PROVE c \in bb \union {b} <=> \E j \in ib : bl1[j] = c
    OBVIOUS
  <2>1. c \in bb <=> \E j \in ib : bl[j] = c
    BY DEF Good
  <2>2. c # Nil
    BY FsBounds
  <2> QED
    BY <1>1, <1>2, <2>1, <2>2
<1>9. \A j, k \in ib : j # k /\ bl1[j] = bl1[k] => bl1[j] = Nil
  <2>1. \A j \in ib : bl[j] # b
    BY DEF Good
  <2> QED
    BY <1>1, <1>2, <2>1 DEF Good
<1>10. \A j \in Inodes \ ib : bl1[j] = Nil /\ sz1[j] = 0
  BY <1>2 DEF Good
<1>11. ASSUME NEW d \in D PROVE DirOk(bl1, blk, sz1, D, d)
  <2>1. DirOk(bl, blk, sz, D, d)
    BY DEF Good
  <2>2. bl1[d] = bl[d] /\ sz1[d] = sz[d] /\ Ent(bl1, blk, d) = Ent(bl, blk, d)
    BY <1>1, <1>2, <1>4 DEF SameEnts
  <2> QED
    BY <2>1, <2>2, <1>5 DEF DirOk
<1>12. bl1[0] = 0
  BY <1>1, <1>2 DEF Good
<1> QED
  BY <1>3, <1>5, <1>6, <1>7, <1>8, <1>9, <1>10, <1>11, <1>12 DEF Good

-----------------------------------------------------------------------------
(* sys_unlink: the entry goes, then the block's bit, the inode's bit and   *)
(* the inode.                                                              *)
DropEntry(bl, blk, p, e) == PutBlock(blk, bl[p], Ent(bl, blk, p) \ {e})

LEMMA RemoveFacts ==
    ASSUME NEW bl, NEW blk, NEW ib, NEW bb, NEW sz, NEW D, Good(bl, blk, ib, bb, sz, D),
           NEW p, NEW e, Link(bl, blk, D, p, e), e.type = "regular",
           NEW blk1, blk1 = DropEntry(bl, blk, p, e)
    PROVE  /\ blk1 \in [Blocks -> SUBSET EntrySet] /\ \A c \in Blocks : IsFiniteSet(blk1[c])
           /\ \A d \in D : Ent(bl, blk1, d) = IF d = p THEN Ent(bl, blk, p) \ {e} ELSE Ent(bl, blk, d)
           /\ Cardinality(Ent(bl, blk1, p)) = Cardinality(Ent(bl, blk, p)) - 1
           /\ D = DirsOf(bl, blk1)
           /\ \A d, f : Link(bl, blk1, D, d, f) <=> Link(bl, blk, D, d, f) /\ f.ino # e.ino
           /\ \A j : Named(bl, blk1, D, j) <=> Named(bl, blk, D, j) /\ j # e.ino
<1>1. /\ TypedDisk(bl, blk, ib, bb, sz) /\ p \in D /\ p \in Inodes /\ e \in Ent(bl, blk, p) /\ e.name \notin Dots
      /\ D = DirsOf(bl, blk) /\ D \in SUBSET Inodes /\ ClosedSet(bl, blk, D) /\ e.ino # 0
  BY GoodFacts DEF Link
<1>2. Ent(bl, blk, p) \subseteq EntrySet /\ IsFiniteSet(Ent(bl, blk, p))
  BY <1>1, EntTyped
<1> DEFINE X == Ent(bl, blk, p) \ {e}
<1>3. IsFiniteSet(X) /\ Cardinality(X) = Cardinality(Ent(bl, blk, p)) - 1 /\ X \in SUBSET EntrySet
  BY <1>1, <1>2, FS_RemoveElement
<1>4. blk1 = PutBlock(blk, bl[p], X)
  BY DEF DropEntry
<1> HIDE DEF X
<1>5. blk1 \in [Blocks -> SUBSET EntrySet] /\ \A c \in Blocks : IsFiniteSet(blk1[c])
  BY <1>1, <1>3, <1>4, BlocksTyped
<1>6. \A d \in D : Ent(bl, blk1, d) = IF d = p THEN X ELSE Ent(bl, blk, d)
  BY <1>1, <1>4, EntAfterPut
<1>7. SameSubs(bl, blk, bl, blk1, D)
  BY <1>6 DEF Sub, SameSubs, X
<1>8. D = DirsOf(bl, blk1)
  BY <1>1, <1>7, DirsSame
<1>9. \A d, f : Link(bl, blk, D, d, f) => (f.ino = e.ino <=> d = p /\ f = e)
  BY DEF Good
<1>10. \A d, f : Link(bl, blk1, D, d, f) <=> Link(bl, blk, D, d, f) /\ f.ino # e.ino
  BY <1>6, <1>9, <1>1 DEF Link, X
<1>11. \A j : Named(bl, blk1, D, j) <=> Named(bl, blk, D, j) /\ j # e.ino
  BY <1>10, <1>1 DEF Named
<1>12. Cardinality(Ent(bl, blk1, p)) = Cardinality(Ent(bl, blk, p)) - 1
  BY <1>1, <1>3, <1>6
<1> QED
  BY <1>5, <1>6, <1>8, <1>10, <1>11, <1>12 DEF X

(* Whatever of the block's and the inode's bit is gone, nothing with a     *)
(* name has lost its own.                                                  *)
LEMMA RemoveSafe ==
    ASSUME NEW bl, NEW blk, NEW ib, NEW bb, NEW sz, NEW D, Good(bl, blk, ib, bb, sz, D),
           NEW p, NEW e, Link(bl, blk, D, p, e), e.type = "regular",
           NEW blk1, blk1 = DropEntry(bl, blk, p, e), NEW ib1, NEW bb1,
           ib \ {e.ino} \subseteq ib1, bb \ {bl[e.ino]} \subseteq bb1
    PROVE  CrashOk(bl, blk1, ib1, bb1, D)
<1>1. /\ D = DirsOf(bl, blk1)
      /\ \A d, f : Link(bl, blk1, D, d, f) <=> Link(bl, blk, D, d, f) /\ f.ino # e.ino
      /\ \A j : Named(bl, blk1, D, j) <=> Named(bl, blk, D, j) /\ j # e.ino
  BY RemoveFacts
<1>2. CrashOk(bl, blk, ib, bb, D)
  BY GoodIsSafe
<1>3. \A d, f : Link(bl, blk, D, d, f) => f.ino \in ib /\ f.ino \in Inodes
  BY GoodFacts
<1>4. e.ino \in Inodes /\ Named(bl, blk, D, e.ino)
  BY <1>3 DEF Named
<1>5. \A j \in Inodes : Named(bl, blk1, D, j) => bl[j] \in bb1 \union {Nil}
  <2> SUFFICES ASSUME NEW j \in Inodes, Named(bl, blk, D, j), j # e.ino PROVE bl[j] \in bb1 \union {Nil}
    BY <1>1
  <2>1. bl[j] \in bb \union {Nil} /\ (bl[j] = bl[e.ino] => bl[j] = Nil)
    BY <1>2, <1>4 DEF CrashOk
  <2> QED
    BY <2>1
<1>6. \A d, f : Link(bl, blk1, D, d, f) => f.ino \in ib1
  BY <1>1, <1>3
<1>7. \A i, j \in Inodes :
         Named(bl, blk1, D, i) /\ Named(bl, blk1, D, j) /\ i # j /\ bl[i] = bl[j] => bl[i] = Nil
  BY <1>1, <1>2 DEF CrashOk
<1> QED
  BY <1>1, <1>5, <1>6, <1>7 DEF CrashOk

Shrink(sz, p) == [sz EXCEPT ![p] = sz[p] - 1]

LEMMA RemoveGood ==
    ASSUME NEW bl, NEW blk, NEW ib, NEW bb, NEW sz, NEW D, Good(bl, blk, ib, bb, sz, D),
           NEW p, NEW e, Link(bl, blk, D, p, e), e.type = "regular",
           NEW blk1, blk1 = DropEntry(bl, blk, p, e),
           NEW bl1, bl1 = SetAt(bl, e.ino, Nil), NEW sz1, sz1 = SetAt(Shrink(sz, p), e.ino, 0)
    PROVE  /\ Good(bl1, blk1, ib \ {e.ino}, bb \ {bl[e.ino]}, sz1, D)
           /\ CrashOk(bl1, blk1, ib \ {e.ino}, bb \ {bl[e.ino]}, D)
<1>1. /\ blk1 \in [Blocks -> SUBSET EntrySet] /\ \A c \in Blocks : IsFiniteSet(blk1[c])
      /\ \A d \in D : Ent(bl, blk1, d) = IF d = p THEN Ent(bl, blk, p) \ {e} ELSE Ent(bl, blk, d)
      /\ Cardinality(Ent(bl, blk1, p)) = Cardinality(Ent(bl, blk, p)) - 1
      /\ D = DirsOf(bl, blk1)
      /\ \A d, f : Link(bl, blk1, D, d, f) <=> Link(bl, blk, D, d, f) /\ f.ino # e.ino
      /\ \A j : Named(bl, blk1, D, j) <=> Named(bl, blk, D, j) /\ j # e.ino
  BY RemoveFacts
<1>2. /\ bl \in [Inodes -> Blocks \union {Nil}] /\ sz \in [Inodes -> Int]
      /\ ib \in SUBSET Inodes /\ bb \in SUBSET Blocks /\ p \in D
      /\ D = DirsOf(bl, blk) /\ D \in SUBSET Inodes /\ ClosedSet(bl, blk, D) /\ 0 \in D
      /\ e.ino \notin D /\ e.ino \in Inodes /\ e.ino \in ib /\ e.ino # 0 /\ e.ino # p
  <2>1. e.type # "directory"
    OBVIOUS
  <2> QED
    BY <2>1, GoodFacts DEF TypedDisk, Link
<1>3. \A j \in Inodes : /\ bl1[j] = IF j = e.ino THEN Nil ELSE bl[j]
                        /\ sz1[j] = IF j = e.ino THEN 0 ELSE IF j = p THEN sz[p] - 1 ELSE sz[j]
  BY <1>2 DEF SetAt, Shrink
<1>4. TypedDisk(bl1, blk1, ib \ {e.ino}, bb \ {bl[e.ino]}, sz1)
  <2>1. bl1 \in [Inodes -> Blocks \union {Nil}]
    BY <1>2 DEF SetAt
  <2>2. sz1 \in [Inodes -> Int]
    BY <1>2 DEF SetAt, Shrink
  <2> QED
    BY <1>1, <1>2, <2>1, <2>2 DEF TypedDisk
<1>5. ClosedSet(bl, blk1, D)
  BY <1>1, <1>2 DEF ClosedSet, Sub
<1>6. SameEnts(bl, blk1, bl1, blk1, D)
  BY <1>2, <1>3 DEF SameEnts, Ent
<1>7. /\ D = DirsOf(bl1, blk1)
      /\ \A d, f : Link(bl1, blk1, D, d, f) <=> Link(bl, blk1, D, d, f)
      /\ \A j : Named(bl1, blk1, D, j) <=> Named(bl, blk1, D, j)
  <2>1. D \in SUBSET Inodes /\ D = DirsOf(bl, blk1)
    BY <1>1, <1>2
  <2> QED
    BY ONLY <1>5, <1>6, <2>1, EntsSame
<1>8. \A j \in Inodes : j \in ib \ {e.ino} <=> Named(bl1, blk1, D, j)
  BY <1>1, <1>7 DEF Good
<1>9. \A d, f, c, g : Link(bl1, blk1, D, d, f) /\ Link(bl1, blk1, D, c, g)
                      /\ (f.ino = g.ino \/ (d = c /\ f.name = g.name)) => d = c /\ f = g
  BY <1>1, <1>7 DEF Good
<1>10. \A c \in Blocks : c \in bb \ {bl[e.ino]} <=> \E j \in ib \ {e.ino} : bl1[j] = c
  <2> SUFFICES ASSUME NEW c \in Blocks
               PROVE  c \in bb \ {bl[e.ino]} <=> \E j \in ib \ {e.ino} : bl1[j] = c
    OBVIOUS
  <2>1. c \in bb <=> \E j \in ib : bl[j] = c
    BY DEF Good
  <2>2. c # Nil
    BY FsBounds
  <2>3. \A j \in ib \ {e.ino} : bl1[j] = bl[j] /\ (bl[j] = bl[e.ino] => bl[j] = Nil)
    BY <1>2, <1>3 DEF Good
  <2> QED
    BY <2>1, <2>2, <2>3
<1>11. \A j, k \in ib \ {e.ino} : j # k /\ bl1[j] = bl1[k] => bl1[j] = Nil
  BY <1>2, <1>3 DEF Good
<1>12. \A j \in Inodes \ (ib \ {e.ino}) : bl1[j] = Nil /\ sz1[j] = 0
  <2>1. p \in ib
    BY <1>2, GoodFacts
  <2> QED
    BY <1>2, <1>3, <2>1 DEF Good
<1>13. ASSUME NEW d \in D PROVE DirOk(bl1, blk1, sz1, D, d)
  <2>1. DirOk(bl, blk, sz, D, d)
    BY DEF Good
  <2>2. bl1[d] = bl[d] /\ Ent(bl1, blk1, d) = Ent(bl, blk1, d)
    BY <1>2, <1>3, <1>6 DEF SameEnts
  <2>3. sz1[d] = Cardinality(Ent(bl, blk1, d))
    BY <1>1, <1>2, <1>3, <2>1 DEF DirOk
  <2>4. PICK up \in D : /\ DotEntries(d, up) \subseteq Ent(bl, blk, d)
                        /\ \A f \in Ent(bl, blk, d) : f.name \in Dots => f \in DotEntries(d, up)
                        /\ d = 0 => up = 0
                        /\ d # 0 => \E f : Link(bl, blk, D, up, f) /\ f.ino = d /\ f.type = "directory"
    BY <2>1 DEF DirOk
  <2>5. DotEntries(d, up) \subseteq Ent(bl, blk1, d)
    <3>1. \A f \in DotEntries(d, up) : f.type = "directory"
      BY DEF DotEntries, Entry
    <3> QED
      BY <1>1, <2>4, <3>1
  <2>6. d # 0 => \E f : Link(bl1, blk1, D, up, f) /\ f.ino = d /\ f.type = "directory"
    BY <1>1, <1>2, <1>7, <2>4
  <2>7. \A f \in Ent(bl, blk1, d) : IF f.name \in Dots THEN f.type = "directory" ELSE f.ino # 0
    BY <1>1, <2>1 DEF DirOk
  <2>8. \A f \in Ent(bl, blk1, d) : f.name \in Dots => f \in DotEntries(d, up)
    BY <1>1, <2>4
  <2> QED
    BY <2>1, <2>2, <2>3, <2>4, <2>5, <2>6, <2>7, <2>8 DEF DirOk
<1>14. bl1[0] = 0
  BY <1>2, <1>3 DEF Good
<1>15. Good(bl1, blk1, ib \ {e.ino}, bb \ {bl[e.ino]}, sz1, D)
  BY <1>4, <1>7, <1>8, <1>9, <1>10, <1>11, <1>12, <1>13, <1>14 DEF Good
<1> QED
  BY <1>15, GoodIsSafe

-----------------------------------------------------------------------------
(* sys_mkdir: a block that nobody has is written first. *)
LEMMA SpareBlockGood ==
    ASSUME NEW bl, NEW blk, NEW ib, NEW bb, NEW sz, NEW D, Good(bl, blk, ib, bb, sz, D),
           NEW b \in Blocks, b \notin bb, NEW X \in SUBSET EntrySet, IsFiniteSet(X),
           NEW blk1, blk1 = PutBlock(blk, b, X)
    PROVE  /\ Good(bl, blk1, ib, bb, sz, D)
           /\ SameEnts(bl, blk, bl, blk1, D) /\ blk1[b] = X
<1>1. /\ TypedDisk(bl, blk, ib, bb, sz) /\ blk \in [Blocks -> SUBSET EntrySet]
      /\ D = DirsOf(bl, blk) /\ D \in SUBSET Inodes /\ ClosedSet(bl, blk, D) /\ bb \subseteq Blocks
      /\ \A d \in D : bl[d] \in bb
  BY GoodFacts DEF TypedDisk
<1>2. SameEnts(bl, blk, bl, blk1, D)
  BY <1>1 DEF SameEnts, Ent, PutBlock, SetAt
<1>3. /\ D = DirsOf(bl, blk1)
      /\ \A d, e : Link(bl, blk1, D, d, e) <=> Link(bl, blk, D, d, e)
      /\ \A j : Named(bl, blk1, D, j) <=> Named(bl, blk, D, j)
  BY ONLY <1>1, <1>2, EntsSame
<1>4. blk1 \in [Blocks -> SUBSET EntrySet] /\ \A c \in Blocks : IsFiniteSet(blk1[c])
  BY <1>1, BlocksTyped
<1>5. TypedDisk(bl, blk1, ib, bb, sz)
  BY <1>1, <1>4 DEF TypedDisk
<1>6. ASSUME NEW d \in D PROVE DirOk(bl, blk1, sz, D, d)
  <2>1. DirOk(bl, blk, sz, D, d) /\ Ent(bl, blk1, d) = Ent(bl, blk, d)
    BY <1>2 DEF Good, SameEnts
  <2> QED
    BY <2>1, <1>3 DEF DirOk
<1>7. blk1[b] = X
  BY <1>1 DEF PutBlock, SetAt
<1> QED
  BY <1>2, <1>3, <1>5, <1>6, <1>7 DEF Good

Plus(D, i) == D \union {i}

Written(bl, i, b, bl1) == bl1 = bl \/ bl1 = SetAt(bl, i, b)

(* Directory e.ino is being made in p: block b has its "." and "..", and   *)
(* p's block has its name (blk1).                                          *)
MakingDir(bl, blk, ib, bb, sz, D, p, e, blk1, b) ==
    /\ Good(bl, blk, ib, bb, sz, D)
    /\ p \in D /\ e \in EntrySet /\ NewName(bl, blk, p, e.name) /\ e.type = "directory"
    /\ e.ino \notin ib
    /\ b \in Blocks /\ b \notin bb /\ blk[b] = DotEntries(e.ino, p)
    /\ blk1 = AddEntry(bl, blk, p, e)

(* A new directory e.ino in p, its inode not on the disk yet (bl1 = bl) or *)
(* with its block                                                          *)
LEMMA MakeDirFacts ==
    ASSUME NEW bl, NEW blk, NEW ib, NEW bb, NEW sz, NEW D, NEW p, NEW e, NEW blk1, NEW b,
           MakingDir(bl, blk, ib, bb, sz, D, p, e, blk1, b),
           NEW bl1, Written(bl, e.ino, b, bl1), NEW E, E = Plus(D, e.ino)
    PROVE  /\ E = DirsOf(bl1, blk1) /\ E \subseteq Inodes
           /\ \A d \in D : Ent(bl1, blk1, d) = IF d = p THEN Ent(bl, blk, p) \union {e} ELSE Ent(bl, blk, d)
           /\ Ent(bl1, blk1, e.ino) = IF bl1 = bl THEN {} ELSE DotEntries(e.ino, p)
           /\ \A d, f : Link(bl1, blk1, E, d, f) <=> Link(bl, blk, D, d, f) \/ (d = p /\ f = e)
           /\ \A j : Named(bl1, blk1, E, j) <=> Named(bl, blk, D, j) \/ j = e.ino
<1> Good(bl, blk, ib, bb, sz, D) /\ p \in D /\ e \in EntrySet /\ NewName(bl, blk, p, e.name) /\ blk1 = AddEntry(bl, blk, p, e)
    /\ e.type = "directory" /\ e.ino \notin ib
  BY DEF MakingDir
<1>0. b \in Blocks /\ b \notin bb /\ blk[b] = DotEntries(e.ino, p) /\ E = D \union {e.ino}
  BY DEF MakingDir, Plus
<1>1. /\ bl \in [Inodes -> Blocks \union {Nil}] /\ blk \in [Blocks -> SUBSET EntrySet]
      /\ D = DirsOf(bl, blk) /\ D \in SUBSET Inodes /\ ClosedSet(bl, blk, D) /\ bb \subseteq Blocks
      /\ \A d \in D : bl[d] \in bb
      /\ D \subseteq ib
  BY GoodFacts DEF TypedDisk
<1>2. e.ino \in Inodes /\ e.ino \notin D /\ bl[e.ino] = Nil /\ b # Nil
  BY <1>0, <1>1, FsBounds DEF Good, EntrySet
<1>3. /\ \A d \in D : Ent(bl, blk1, d) = IF d = p THEN Ent(bl, blk, p) \union {e} ELSE Ent(bl, blk, d)
      /\ e.name \notin Dots
  BY AddedFacts
<1>4. \A d \in D : Ent(bl1, blk1, d) = Ent(bl, blk1, d)
  BY <1>0, <1>1, <1>2 DEF SetAt, Ent, Written
<1>5. blk1[b] = DotEntries(e.ino, p)
  BY <1>0, <1>1 DEF AddEntry, PutBlock, SetAt
<1>6. bl1 # bl => bl1[e.ino] = b
  BY <1>1, <1>2 DEF SetAt, Written
<1>7. Ent(bl1, blk1, e.ino) = IF bl1 = bl THEN {} ELSE DotEntries(e.ino, p)
  BY <1>2, <1>5, <1>6 DEF Ent
<1>8. Grown(bl, blk, bl1, blk1, D, E)
  <2>1. ASSUME NEW d \in D PROVE Sub(bl, blk, d) \subseteq Sub(bl1, blk1, d) /\ Sub(bl1, blk1, d) \subseteq E
    <3>1. Sub(bl, blk, d) \subseteq D
      BY <1>1 DEF ClosedSet
    <3>2. \A f \in Ent(bl1, blk1, d) : f \in Ent(bl, blk, d) \/ f = e
      BY <1>3, <1>4
    <3>3. Ent(bl, blk, d) \subseteq Ent(bl1, blk1, d)
      BY <1>3, <1>4
    <3> QED
      BY <1>0, <3>1, <3>2, <3>3 DEF Sub
  <2>2. Sub(bl1, blk1, e.ino) \subseteq E
    <3>1. \A f \in DotEntries(e.ino, p) : f.ino \in E
      BY <1>0 DEF DotEntries, Entry
    <3> QED
      BY <3>1, <1>7 DEF Sub
  <2>3. e.ino \in Sub(bl1, blk1, p)
    <3>1. e \in Ent(bl1, blk1, p)
      BY <1>3, <1>4
    <3> QED
      BY <3>1 DEF Sub
  <2> QED
    BY <1>0, <2>1, <2>2, <2>3 DEF Grown
<1>9. E \in SUBSET Inodes
  BY <1>0, <1>1, <1>2
<1>10. E = DirsOf(bl1, blk1)
  BY ONLY <1>1, <1>8, <1>9, DirsGrow
<1>11. \A f \in DotEntries(e.ino, p) : f.name \in Dots
  BY DEF DotEntries, Entry, Dots
<1>12. \A d, f : Link(bl1, blk1, E, d, f) <=> Link(bl, blk, D, d, f) \/ (d = p /\ f = e)
  <2> SUFFICES ASSUME NEW d, NEW f
               PROVE  Link(bl1, blk1, E, d, f) <=> Link(bl, blk, D, d, f) \/ (d = p /\ f = e)
    OBVIOUS
  <2>1. CASE d \in D
    BY <1>0, <2>1, <1>3, <1>4 DEF Link
  <2>2. CASE d = e.ino
    BY <1>0, <2>2, <1>2, <1>7, <1>11 DEF Link
  <2> QED
    BY <1>0, <2>1, <2>2 DEF Link
<1>13. \A j : Named(bl1, blk1, E, j) <=> Named(bl, blk, D, j) \/ j = e.ino
  BY <1>12 DEF Named
<1> QED
  BY <1>3, <1>4, <1>7, <1>9, <1>10, <1>12, <1>13

LEMMA MakeDirSafe ==
    ASSUME NEW bl, NEW blk, NEW ib, NEW bb, NEW sz, NEW D, NEW p, NEW e, NEW blk1, NEW b,
           MakingDir(bl, blk, ib, bb, sz, D, p, e, blk1, b),
           NEW bl1, Written(bl, e.ino, b, bl1), NEW E, E = Plus(D, e.ino)
    PROVE  CrashOk(bl1, blk1, ib, bb \union {b}, E)
<1> Good(bl, blk, ib, bb, sz, D) /\ p \in D /\ e \in EntrySet /\ NewName(bl, blk, p, e.name) /\ blk1 = AddEntry(bl, blk, p, e)
    /\ e.type = "directory" /\ e.ino \notin ib
  BY DEF MakingDir
<1>0. b \in Blocks /\ b \notin bb /\ blk[b] = DotEntries(e.ino, p) /\ E = D \union {e.ino}
  BY DEF MakingDir, Plus
<1>1. /\ E = DirsOf(bl1, blk1) /\ E \subseteq Inodes
      /\ \A d, f : Link(bl1, blk1, E, d, f) <=> Link(bl, blk, D, d, f) \/ (d = p /\ f = e)
      /\ \A j : Named(bl1, blk1, E, j) <=> Named(bl, blk, D, j) \/ j = e.ino
  BY MakeDirFacts
<1>2. e.ino \in Inodes /\ bl[e.ino] = Nil /\ bl \in [Inodes -> Blocks \union {Nil}]
  BY DEF Good, EntrySet, TypedDisk
<1>3. CrashOk(bl, blk, ib, bb, D)
  BY GoodIsSafe
<1>4. \A d, f : Link(bl, blk, D, d, f) => f.ino \in ib
  BY GoodFacts
<1>5. \A j \in Inodes : j # e.ino => bl1[j] = bl[j]
  BY <1>2 DEF SetAt, Written
<1>6. bl1[e.ino] \in {Nil, b}
  BY <1>2 DEF SetAt, Written
<1>7. \A j \in Inodes : Named(bl, blk, D, j) => j \in ib /\ bl[j] \in bb \union {Nil}
  BY <1>3 DEF CrashOk, Good
<1>8. \A j \in Inodes : Named(bl1, blk1, E, j) => bl1[j] \in bb \union {b} \union {Nil}
  BY <1>1, <1>5, <1>6, <1>7
<1>9. ASSUME NEW i \in Inodes, NEW j \in Inodes, Named(bl1, blk1, E, i), Named(bl1, blk1, E, j), i # j, bl1[i] = bl1[j]
      PROVE  bl1[i] = Nil
  <2>1. CASE i # e.ino /\ j # e.ino
    BY <2>1, <1>9, <1>1, <1>3, <1>5 DEF CrashOk
  <2>2. CASE i = e.ino \/ j = e.ino
    BY <2>2, <1>0, <1>9, <1>1, <1>5, <1>6, <1>7
  <2> QED
    BY <2>1, <2>2
<1>10. \A d, f, c, g : Link(bl1, blk1, E, d, f) /\ f.ino \notin ib /\ Link(bl1, blk1, E, c, g) /\ g.ino \notin ib
                       => d = c /\ f = g
  BY <1>1, <1>4
<1> QED
  BY <1>1, <1>8, <1>9, <1>10 DEF CrashOk

LEMMA DotsTwo ==
    ASSUME NEW i, NEW p
    PROVE  IsFiniteSet(DotEntries(i, p)) /\ Cardinality(DotEntries(i, p)) = 2
<1> DEFINE x == Entry(".", i, "directory")
           y == Entry("..", p, "directory")
<1>1. x # y /\ DotEntries(i, p) = {x} \union {y}
  BY DEF DotEntries, Entry
<1> HIDE DEF x, y
<1>2. Cardinality({x}) = 1 /\ IsFiniteSet({x}) /\ y \notin {x}
  BY <1>1, FS_Singleton
<1>3. Cardinality({x} \union {y}) = Cardinality({x}) + 1 /\ IsFiniteSet({x} \union {y})
  BY <1>2, FS_AddElement
<1> QED
  BY <1>1, <1>2, <1>3

LEMMA MakeDirGood ==
    ASSUME NEW bl, NEW blk, NEW ib, NEW bb, NEW sz, NEW D, NEW p, NEW e, NEW blk1, NEW b,
           MakingDir(bl, blk, ib, bb, sz, D, p, e, blk1, b),
           NEW bl1, bl1 = SetAt(bl, e.ino, b), NEW E, E = Plus(D, e.ino),
           NEW sz1, sz1 = SetAt(Grow(sz, p), e.ino, 2)
    PROVE  Good(bl1, blk1, ib \union {e.ino}, bb \union {b}, sz1, E)
<1> Good(bl, blk, ib, bb, sz, D) /\ p \in D /\ e \in EntrySet /\ NewName(bl, blk, p, e.name) /\ blk1 = AddEntry(bl, blk, p, e)
    /\ e.type = "directory" /\ e.ino \notin ib
  BY DEF MakingDir
<1>0. b \in Blocks /\ b \notin bb /\ blk[b] = DotEntries(e.ino, p) /\ E = D \union {e.ino}
  BY DEF MakingDir, Plus
<1>1. /\ bl \in [Inodes -> Blocks \union {Nil}] /\ sz \in [Inodes -> Int]
      /\ ib \in SUBSET Inodes /\ bb \in SUBSET Blocks /\ D \subseteq Inodes /\ D \subseteq ib /\ 0 \in D
  BY GoodFacts DEF TypedDisk
<1>2. e.ino \in Inodes /\ e.ino \notin D /\ bl[e.ino] = Nil /\ b # Nil /\ e.ino # p /\ e.ino # 0
  BY <1>0, <1>1, FsBounds DEF Good, EntrySet
<1>3. \A j \in Inodes : /\ bl1[j] = IF j = e.ino THEN b ELSE bl[j]
                        /\ sz1[j] = IF j = e.ino THEN 2 ELSE IF j = p THEN sz[p] + 1 ELSE sz[j]
  BY <1>1 DEF SetAt, Grow
<1>4. bl1 # bl /\ Written(bl, e.ino, b, bl1)
  BY <1>2, <1>3 DEF Written
<1>5. /\ E = DirsOf(bl1, blk1) /\ E \subseteq Inodes
      /\ \A d \in D : Ent(bl1, blk1, d) = IF d = p THEN Ent(bl, blk, p) \union {e} ELSE Ent(bl, blk, d)
      /\ Ent(bl1, blk1, e.ino) = IF bl1 = bl THEN {} ELSE DotEntries(e.ino, p)
      /\ \A d, f : Link(bl1, blk1, E, d, f) <=> Link(bl, blk, D, d, f) \/ (d = p /\ f = e)
      /\ \A j : Named(bl1, blk1, E, j) <=> Named(bl, blk, D, j) \/ j = e.ino
  BY <1>4, MakeDirFacts
<1>6. /\ blk1 \in [Blocks -> SUBSET EntrySet] /\ \A c \in Blocks : IsFiniteSet(blk1[c])
      /\ \A d \in D : Ent(bl, blk1, d) = IF d = p THEN Ent(bl, blk, p) \union {e} ELSE Ent(bl, blk, d)
      /\ Cardinality(Ent(bl, blk1, p)) = Cardinality(Ent(bl, blk, p)) + 1
      /\ e.name \notin Dots
  BY AddedFacts
<1>7. TypedDisk(bl1, blk1, ib \union {e.ino}, bb \union {b}, sz1)
  <2>1. bl1 \in [Inodes -> Blocks \union {Nil}]
    BY <1>0, <1>1 DEF SetAt
  <2>2. sz1 \in [Inodes -> Int]
    <3>1. Grow(sz, p) \in [Inodes -> Int] /\ 2 \in Int
      BY <1>1 DEF Grow
    <3> QED
      BY <3>1, SetTyped
  <2> QED
    BY <1>0, <1>1, <1>2, <1>6, <2>1, <2>2 DEF TypedDisk
<1>8. \A i \in Inodes : i \in ib \union {e.ino} <=> Named(bl1, blk1, E, i)
  BY <1>5 DEF Good
<1>9. \A d, f, c, g : Link(bl1, blk1, E, d, f) /\ Link(bl1, blk1, E, c, g)
                      /\ (f.ino = g.ino \/ (d = c /\ f.name = g.name)) => d = c /\ f = g
  <2>1. \A d, f : Link(bl, blk, D, d, f) => f.ino # e.ino /\ ~(d = p /\ f.name = e.name)
    BY GoodFacts DEF NewName, Link
  <2> QED
    BY <2>1, <1>5 DEF Good
<1>10. \A c \in Blocks : c \in bb \union {b} <=> \E i \in ib \union {e.ino} : bl1[i] = c
  <2> SUFFICES ASSUME NEW c \in Blocks PROVE c \in bb \union {b} <=> \E i \in ib \union {e.ino} : bl1[i] = c
    OBVIOUS
  <2>1. c \in bb <=> \E j \in ib : bl[j] = c
    BY DEF Good
  <2>2. \A j \in ib : bl1[j] = bl[j]
    BY <1>1, <1>3
  <2>3. bl1[e.ino] = b
    BY <1>2, <1>3
  <2> QED
    BY <2>1, <2>2, <2>3
<1>11. \A i, j \in ib \union {e.ino} : i # j /\ bl1[i] = bl1[j] => bl1[i] = Nil
  <2>1. \A j \in ib : bl1[j] = bl[j] /\ bl[j] # b
    BY <1>0, <1>1, <1>3 DEF Good
  <2>2. bl1[e.ino] = b
    BY <1>2, <1>3
  <2> QED
    BY <2>1, <2>2 DEF Good
<1>12. \A i \in Inodes \ (ib \union {e.ino}) : bl1[i] = Nil /\ sz1[i] = 0
  BY <1>1, <1>3 DEF Good
<1>13. ASSUME NEW d \in D PROVE DirOk(bl1, blk1, sz1, E, d)
  <2>1. DirOk(bl, blk, sz, D, d)
    BY DEF Good
  <2>2. bl1[d] # Nil
    BY <1>1, <1>2, <1>3, <2>1 DEF DirOk
  <2>3. Ent(bl1, blk1, d) = Ent(bl, blk1, d)
    BY <1>5, <1>6
  <2>4. sz1[d] = Cardinality(Ent(bl1, blk1, d))
    BY <2>1, <2>3, <1>1, <1>2, <1>3, <1>6 DEF DirOk
  <2>5. PICK up \in D : /\ DotEntries(d, up) \subseteq Ent(bl, blk, d)
                        /\ \A f \in Ent(bl, blk, d) : f.name \in Dots => f \in DotEntries(d, up)
                        /\ d = 0 => up = 0
                        /\ d # 0 => \E f : Link(bl, blk, D, up, f) /\ f.ino = d /\ f.type = "directory"
    BY <2>1 DEF DirOk
  <2>6. /\ up \in E /\ DotEntries(d, up) \subseteq Ent(bl1, blk1, d)
        /\ d # 0 => \E f : Link(bl1, blk1, E, up, f) /\ f.ino = d /\ f.type = "directory"
    BY <1>0, <2>5, <1>5
  <2>7. \A f \in Ent(bl1, blk1, d) : IF f.name \in Dots THEN f.type = "directory" ELSE f.ino # 0
    BY <2>1, <1>2, <1>5, <1>6 DEF DirOk
  <2>8. \A f \in Ent(bl1, blk1, d) : f.name \in Dots => f \in DotEntries(d, up)
    BY <2>5, <1>2, <1>5, <1>6
  <2> QED
    BY <2>2, <2>4, <2>5, <2>6, <2>7, <2>8 DEF DirOk
<1>14. DirOk(bl1, blk1, sz1, E, e.ino)
  <2>1. Ent(bl1, blk1, e.ino) = DotEntries(e.ino, p)
    BY <1>4, <1>5
  <2>2. bl1[e.ino] = b /\ sz1[e.ino] = 2
    BY <1>2, <1>3
  <2>3. Cardinality(DotEntries(e.ino, p)) = 2
    BY DotsTwo
  <2>4. \A f \in DotEntries(e.ino, p) : f.name \in Dots /\ f.type = "directory"
    BY DEF DotEntries, Entry, Dots
  <2>5. p \in E /\ Link(bl1, blk1, E, p, e)
    BY <1>0, <1>5
  <2> QED
    BY <2>1, <2>2, <2>3, <2>4, <2>5, <1>2 DEF DirOk
<1>15. bl1[0] = 0
  BY <1>1, <1>2, <1>3 DEF Good
<1> QED
  BY <1>5, <1>7, <1>8, <1>9, <1>10, <1>11, <1>12, <1>13, <1>14, <1>15, <1>0 DEF Good

-----------------------------------------------------------------------------
(* Sequences of writes, one at a time *)
(* A sequence that begins with x; the rest is r. *)
Cons(y, x, r) == Len(y) = Len(r) + 1 /\ y[1] = x /\ \A k \in 1..Len(r) : y[k + 1] = r[k]

LEMMA LeadsNowhere ==
    ASSUME NEW v, Safe(v)
    PROVE  Leads(v, << >>, v)
<1> DEFINE h == [k \in {1} |-> v]
<1>1. Steps(h, << >>) /\ h[1] = v /\ h[Len(<< >>) + 1] = v
  BY DEF Steps
<1> HIDE DEF h
<1> QED
  BY <1>1 DEF Leads

LEMMA LeadsFirst ==
    ASSUME NEW v, Safe(v), NEW T, NEW x, NEW w \in Seq(T), NEW u, Leads(Apply(v, x), w, u),
           NEW y, Cons(y, x, w)
    PROVE  Leads(v, y, u)
<1> USE DEF Cons
<1>1. PICK h : Steps(h, w) /\ h[1] = Apply(v, x) /\ h[Len(w) + 1] = u
  BY DEF Leads
<1>2. Len(w) \in Nat
  OBVIOUS
<1> DEFINE g == [k \in 1..(Len(w) + 2) |-> IF k = 1 THEN v ELSE h[k - 1]]
<1>3. g[1] = v /\ \A k \in 1..(Len(w) + 1) : g[k + 1] = h[k]
  BY <1>2
<1> HIDE DEF g
<1>4. \A k \in 1..Len(y) : g[k + 1] = Apply(g[k], y[k])
  <2> SUFFICES ASSUME NEW k \in 1..Len(y) PROVE g[k + 1] = Apply(g[k], y[k])
    OBVIOUS
  <2>1. CASE k = 1
    BY <2>1, <1>1, <1>2, <1>3
  <2>2. CASE k # 1
    <3>1. k - 1 \in 1..Len(w) /\ k - 1 \in 1..(Len(w) + 1) /\ k \in 1..(Len(w) + 1) /\ (k - 1) + 1 = k
      BY <2>2, <1>2
    <3>2. h[k] = Apply(h[k - 1], w[k - 1]) /\ y[k] = w[k - 1]
      BY <3>1, <1>1 DEF Steps
    <3>3. g[k + 1] = h[k] /\ g[k] = h[k - 1]
      BY <3>1, <1>3
    <3> QED
      BY <3>2, <3>3
  <2> QED
    BY <2>1, <2>2
<1>5. \A k \in 1..(Len(y) + 1) : Safe(g[k])
  <2> SUFFICES ASSUME NEW k \in 1..(Len(y) + 1) PROVE Safe(g[k])
    OBVIOUS
  <2>1. CASE k = 1
    BY <2>1, <1>3
  <2>2. CASE k # 1
    <3>1. k - 1 \in 1..(Len(w) + 1) /\ (k - 1) + 1 = k
      BY <2>2, <1>2
    <3> QED
      BY <3>1, <1>1, <1>3 DEF Steps
  <2> QED
    BY <2>1, <2>2
<1>6. g[Len(y) + 1] = u
  BY <1>1, <1>2, <1>3
<1> QED
  BY <1>3, <1>4, <1>5, <1>6 DEF Leads, Steps

LEMMA LeadsSafe ==
    ASSUME NEW v, NEW T, NEW w \in Seq(T), NEW u, Leads(v, w, u)
    PROVE  Safe(v) /\ (w = << >> => u = v)
<1>1. PICK h : Steps(h, w) /\ h[1] = v /\ h[Len(w) + 1] = u
  BY DEF Leads
<1>2. 1 \in 1..(Len(w) + 1)
  OBVIOUS
<1> QED
  BY <1>1, <1>2 DEF Steps

LEMMA LeadsRest ==
    ASSUME NEW v, NEW T, NEW w \in Seq(T), w # << >>, NEW u, Leads(v, w, u)
    PROVE  Leads(Apply(v, Head(w)), Tail(w), u)
<1>1. PICK h : Steps(h, w) /\ h[1] = v /\ h[Len(w) + 1] = u
  BY DEF Leads
<1>2. /\ Len(w) \in Nat \ {0} /\ Len(Tail(w)) = Len(w) - 1 /\ Head(w) = w[1]
      /\ \A k \in 1..(Len(w) - 1) : Tail(w)[k] = w[k + 1]
  OBVIOUS
<1> DEFINE g == [k \in 1..Len(w) |-> h[k + 1]]
<1>3. \A k \in 1..Len(w) : g[k] = h[k + 1]
  OBVIOUS
<1> HIDE DEF g
<1>4. \A k \in 1..Len(Tail(w)) : g[k + 1] = Apply(g[k], Tail(w)[k])
  <2> SUFFICES ASSUME NEW k \in 1..(Len(w) - 1) PROVE g[k + 1] = Apply(g[k], w[k + 1])
    BY <1>2
  <2>1. k \in 1..Len(w) /\ k + 1 \in 1..Len(w)
    BY <1>2
  <2> QED
    BY <2>1, <1>1, <1>3 DEF Steps
<1>5. \A k \in 1..(Len(Tail(w)) + 1) : Safe(g[k])
  <2> SUFFICES ASSUME NEW k \in 1..Len(w) PROVE Safe(g[k])
    BY <1>2
  <2>1. k + 1 \in 1..(Len(w) + 1)
    BY <1>2
  <2> QED
    BY <2>1, <1>1, <1>3 DEF Steps
<1>6. g[1] = Apply(v, Head(w)) /\ g[Len(Tail(w)) + 1] = u
  BY <1>1, <1>2, <1>3 DEF Steps
<1> QED
  BY <1>4, <1>5, <1>6 DEF Leads, Steps

LEMMA ConsOf ==
    /\ \A a : Cons(<<a>>, a, << >>)
    /\ \A a, b : Cons(<<a, b>>, a, <<b>>)
    /\ \A a, b, c : Cons(<<a, b, c>>, a, <<b, c>>)
    /\ \A a, b, c, d : Cons(<<a, b, c, d>>, a, <<b, c, d>>)
    /\ \A a, b, c, d, e : Cons(<<a, b, c, d, e>>, a, <<b, c, d, e>>)
    /\ \A a, b, c, d, e, f : Cons(<<a, b, c, d, e, f>>, a, <<b, c, d, e, f>>)
BY DEF Cons

(* The disk after each kind of write *)
LEMMA Applied ==
    ASSUME NEW bl, NEW blk, NEW ib, NEW bb, NEW sz, NEW x
    PROVE  /\ \A b : Apply(Disk(bl, blk, ib, bb, sz), write_block(b, x)) = Disk(bl, PutBlock(blk, b, x), ib, bb, sz)
           /\ Apply(Disk(bl, blk, ib, bb, sz), sync_inode_bits(x)) = Disk(bl, blk, x, bb, sz)
           /\ Apply(Disk(bl, blk, ib, bb, sz), sync_block_bits(x)) = Disk(bl, blk, ib, x, sz)
<1>1. \A b : Apply(Disk(bl, blk, ib, bb, sz), write_block(b, x)) = Disk(bl, PutBlock(blk, b, x), ib, bb, sz)
  BY DEF Apply, Disk, write_block, PutBlock
<1>2. Apply(Disk(bl, blk, ib, bb, sz), sync_inode_bits(x)) = Disk(bl, blk, x, bb, sz)
  BY DEF Apply, Disk, sync_inode_bits
<1>3. Apply(Disk(bl, blk, ib, bb, sz), sync_block_bits(x)) = Disk(bl, blk, ib, x, sz)
  BY DEF Apply, Disk, sync_block_bits
<1> QED
  BY <1>1, <1>2, <1>3

(* i_no keeps eight bits: with at most 256 inodes, all of them. *)
Inode(s, b) == [size |-> s, blk |-> b]

LEMMA AppliedInode ==
    ASSUME NEW bl, NEW blk, NEW ib, NEW bb, NEW sz, NEW i \in Inodes, NInodes <= 256, NEW s, NEW b
    PROVE  Apply(Disk(bl, blk, ib, bb, sz), inode_sync(i, Inode(s, b))) = Disk(SetAt(bl, i, b), blk, ib, bb, SetAt(sz, i, s))
<1>1. i % 256 = i
  BY FsAssumption DEF Inodes
<1> QED
  BY <1>1 DEF Apply, Disk, inode_sync, Inode

LEMMA AppliedDelete ==
    ASSUME NEW bl, NEW blk, NEW ib, NEW bb, NEW sz, NEW i
    PROVE  Apply(Disk(bl, blk, ib, bb, sz), inode_delete(i)) = Disk(SetAt(bl, i, Nil), blk, ib, bb, SetAt(sz, i, 0))
BY DEF Apply, Disk, inode_delete, Blank

LEMMA DiskParts ==
    ASSUME NEW bl, NEW blk, NEW ib, NEW bb, NEW sz, NEW u, u = Disk(bl, blk, ib, bb, sz)
    PROVE  u.bl = bl /\ u.blk = blk /\ u.ib = ib /\ u.bb = bb /\ u.sz = sz
BY DEF Disk

-----------------------------------------------------------------------------
(* A sector reaches the disk. *)
LEMMA WriteTyped ==
    ASSUME NEW w \in WriteSet
    PROVE  /\ w.to = "inode" => w.at \in Inodes /\ w.v \in InodeRec
           /\ w.to \in {"inode", "block", "ibits", "bbits"}
BY DEF WriteSet

LEMMA WriteArrives ==
    ASSUME TypeOK, ide_write
    PROVE  Now' = Apply(Now, Head(todo)) /\ TypeOK' /\ todo # << >> /\ todo' = Tail(todo)
<1> DEFINE w == Head(todo)
<1>1. todo # << >> /\ todo \in Seq(WriteSet) /\ kernel = "up" /\ todo' = Tail(todo)
  BY DEF ide_write, TypeOK
<1>2. w \in WriteSet /\ Tail(todo) \in Seq(WriteSet)
  BY <1>1
<1>3. /\ w.to = "inode" => w.at \in Inodes /\ w.v \in InodeRec
      /\ w.to \in {"inode", "block", "ibits", "bbits"}
  BY <1>2, WriteTyped
<1>4. /\ d_inode' = IF w.to = "inode" THEN [d_inode EXCEPT ![w.at] = w.v] ELSE d_inode
      /\ d_ibits' = IF w.to = "ibits" THEN w.v ELSE d_ibits
      /\ d_bbits' = IF w.to = "bbits" THEN w.v ELSE d_bbits
      /\ d_block' = IF w.to = "block" THEN [d_block EXCEPT ![w.at] = w.v] ELSE d_block
  BY DEF ide_write
<1>5. d_inode \in [Inodes -> InodeRec]
  BY DEF TypeOK
<1> HIDE DEF w
<1>6. d_inode' \in [Inodes -> InodeRec]
  BY <1>3, <1>4, <1>5
<1>7. TypeOK'
  BY <1>1, <1>2, <1>6 DEF TypeOK, ide_write, bits, files
<1>8. NowBl' = IF w.to = "inode" THEN SetAt(NowBl, w.at, w.v.blk) ELSE NowBl
  BY <1>3, <1>4, <1>5 DEF NowBl, SetAt
<1>9. NowSz' = IF w.to = "inode" THEN SetAt(NowSz, w.at, w.v.size) ELSE NowSz
  BY <1>3, <1>4, <1>5 DEF NowSz, SetAt
<1>10. Now' = Disk(NowBl', d_block', d_ibits', d_bbits', NowSz')
  BY DEF Now, Disk
<1>11. Now' = Apply(Now, w)
  <2>1. Now.bl = NowBl /\ Now.blk = d_block /\ Now.ib = d_ibits /\ Now.bb = d_bbits /\ Now.sz = NowSz
    BY DiskParts DEF Now
  <2>2. d_block' = IF w.to = "block" THEN SetAt(d_block, w.at, w.v) ELSE d_block
    BY <1>4 DEF SetAt
  <2> QED
    BY <1>4, <1>8, <1>9, <1>10, <2>1, <2>2 DEF Apply
<1> QED
  BY <1>1, <1>7, <1>11 DEF w

LEMMA WriteKeeps ==
    ASSUME FsInv, ide_write
    PROVE  FsInv'
<1>1. TypeOK /\ todo \in Seq(WriteSet)
  BY DEF FsInv, TypeOK
<1>2. Now' = Apply(Now, Head(todo)) /\ TypeOK' /\ todo # << >> /\ todo' = Tail(todo)
  BY <1>1, WriteArrives
<1>3. PICK u, D : Leads(Now, todo, u) /\ Agrees(u, D)
  BY DEF FsInv
<1>4. Leads(Now', todo', u)
  <2>1. Leads(Apply(Now, Head(todo)), Tail(todo), u)
    BY <1>1, <1>2, <1>3, LeadsRest
  <2> QED
    BY <1>2, <2>1
<1>5. /\ inode_bitmap' = inode_bitmap /\ block_bitmap' = block_bitmap /\ open_inodes' = open_inodes
      /\ file_table' = file_table /\ fd_table' = fd_table /\ dirs' = dirs /\ cwd_inode_nr' = cwd_inode_nr
      /\ mount_loads' = mount_loads
  BY DEF ide_write, bits, files
<1>6. \A i : Refs(i)' = Refs(i)
  BY <1>5 DEF Refs
<1>7. MemOk(u.bl, u.ib, u.bb, u.sz)'
  BY <1>3, <1>5 DEF Agrees, MemOk, Mounted, Plain
<1>8. RefsOk(u.ib, D)'
  BY <1>3, <1>5, <1>6 DEF Agrees, RefsOk, FilesOk, CountsOk
<1>9. Agrees(u, D)'
  BY <1>3, <1>7, <1>8 DEF Agrees
<1> QED
  BY <1>2, <1>4, <1>9 DEF FsInv

-----------------------------------------------------------------------------
(* Between two calls *)
At(D) ==
    /\ Good(NowBl, d_block, d_ibits, d_bbits, NowSz, D)
    /\ MemOk(NowBl, d_ibits, d_bbits, NowSz)
    /\ RefsOk(d_ibits, D)

LEMMA QuietAt ==
    ASSUME FsInv, Quiet
    PROVE  \E D : At(D)
<1>1. TypeOK /\ todo = << >> /\ todo \in Seq(WriteSet)
  BY DEF FsInv, Quiet, TypeOK
<1>2. PICK u, D : Leads(Now, todo, u) /\ Agrees(u, D)
  BY DEF FsInv
<1>3. u = Now
  BY <1>1, <1>2, LeadsSafe
<1>4. Now.bl = NowBl /\ Now.blk = d_block /\ Now.ib = d_ibits /\ Now.bb = d_bbits /\ Now.sz = NowSz
  BY DiskParts DEF Now
<1> QED
  BY <1>2, <1>3, <1>4 DEF Agrees, At

LEMMA InodeNow ==
    ASSUME TypeOK, NEW D, At(D), NEW i \in Inodes
    PROVE  /\ inode(i) = d_inode[i] /\ inode(i) = [size |-> NowSz[i], blk |-> NowBl[i]]
           /\ inode(i).blk = NowBl[i] /\ inode(i).size = NowSz[i]
           /\ entries(i) = Ent(NowBl, d_block, i)
<1>1. d_inode[i] \in InodeRec /\ open_inodes[i].cnt \in Nat
  BY DEF TypeOK, OpenRec
<1>2. NowBl[i] = d_inode[i].blk /\ NowSz[i] = d_inode[i].size
  BY DEF NowBl, NowSz
<1>3. d_inode[i] = [size |-> NowSz[i], blk |-> NowBl[i]]
  BY <1>1, <1>2 DEF InodeRec
<1>4. inode(i) = d_inode[i]
  BY <1>1, <1>3 DEF inode, At, MemOk
<1> QED
  BY <1>2, <1>3, <1>4 DEF entries, Ent

(* search_file's recursion has a solution: otherwise there is a smallest   *)
(* number of names without one.                                            *)
LEMMA Smallest ==
    ASSUME NEW S \in SUBSET Nat, S # {}
    PROVE  \E x \in S : \A y \in S : x <= y
<1>1. PICK x \in S : \A y \in S : ~ (<<y, x>> \in OpToRel(<, Nat))
  BY NatLessThanWellFounded, WFMin
<1> SUFFICES ASSUME NEW y \in S PROVE x <= y
  BY <1>1
<1>2. <<y, x>> \in Nat \X Nat /\ ~ (<<y, x>> \in OpToRel(<, Nat))
  BY <1>1
<1>3. ~ (y < x)
  BY <1>2 DEF OpToRel
<1> QED
  BY <1>3

Walk(path, f, m) ==
    f = [n \in 0..m |-> IF n = 0 THEN root_record ELSE search_step(f[n - 1], path[n])]

LEMMA WalkExists ==
    ASSUME NEW path, NEW m \in Nat
    PROVE  \E f : Walk(path, f, m)
<1> DEFINE Bad == {n \in Nat : ~ \E f : Walk(path, f, n)}
<1> SUFFICES ASSUME Bad # {} PROVE FALSE
  OBVIOUS
<1>1. PICK n \in Bad : \A k \in Bad : n <= k
  <2>1. Bad \in SUBSET Nat
    OBVIOUS
  <2> HIDE DEF Bad
  <2> QED
    BY <2>1, Smallest
<1>2. CASE n = 0
  <2> DEFINE f == [k \in 0..0 |-> root_record]
  <2>1. Walk(path, f, 0)
    BY DEF Walk
  <2> QED
    BY <1>2, <2>1
<1>3. CASE n # 0
  <2>1. n \in Nat /\ n - 1 \in Nat /\ ~(n <= n - 1)
    BY <1>3
  <2>2. PICK f : Walk(path, f, n - 1)
    BY <1>1, <2>1
  <2>3. \A k \in 0..(n - 1) : f[k] = IF k = 0 THEN root_record ELSE search_step(f[k - 1], path[k])
    BY <2>2 DEF Walk
  <2> DEFINE g == [k \in 0..n |-> IF k = n THEN search_step(f[n - 1], path[n]) ELSE f[k]]
             G == [k \in 0..n |-> IF k = 0 THEN root_record ELSE search_step(g[k - 1], path[k])]
  <2>4. ASSUME NEW k \in 0..n PROVE g[k] = G[k]
    <3>1. CASE k = 0
      BY <3>1, <2>1, <2>3, <1>3
    <3>2. CASE k # 0
      <4>1. k - 1 \in 0..n /\ k - 1 # n /\ k - 1 \in 0..(n - 1)
        BY <3>2, <2>1
      <4>2. g[k - 1] = f[k - 1]
        BY <4>1
      <4>3. g[k] = search_step(f[k - 1], path[k])
        BY <2>1, <2>3, <3>2
      <4> QED
        BY <3>2, <4>2, <4>3
    <3> QED
      BY <3>1, <3>2
  <2>5. g = G
    BY <2>4
  <2>6. Walk(path, g, n)
    BY <2>5 DEF Walk
  <2> QED
    BY <2>6
<1> QED
  BY <1>2, <1>3

LEMMA SearchEquation ==
    ASSUME NEW path, Len(path) \in Nat
    PROVE  \E f : Walk(path, f, Len(path)) /\ search_file(path) = f[Len(path)]
<1> DEFINE Body(f) == [n \in 0..Len(path) |-> IF n = 0 THEN root_record ELSE search_step(f[n - 1], path[n])]
<1>1. PICK f : f = Body(f)
  BY WalkExists DEF Walk
<1> DEFINE w == CHOOSE g : g = Body(g)
<1>2. search_file(path) = w[Len(path)]
  BY DEF search_file
<1>3. w = Body(w)
  BY <1>1, Zenon
<1>4. Walk(path, w, Len(path))
  BY <1>3 DEF Walk
<1> QED
  BY <1>2, <1>4

(* What the search has found after n names *)
FoundAt(r, path, n, D) ==
    /\ r.parent \in D
    /\ \/ r.type = "directory" /\ r.ino \in D /\ r.depth = n
       \/ /\ r.type = "regular"
          /\ \E e : Link(NowBl, d_block, D, r.parent, e) /\ e.ino = r.ino /\ e.type = "regular"
       \/ /\ r.type = "unknown" /\ r.ino = Nil /\ r.depth \in 1..n
          /\ \A e \in Ent(NowBl, d_block, r.parent) : e.name # path[r.depth]

LEMMA StepFinds ==
    ASSUME TypeOK, NEW D, At(D), NEW path, NEW n \in Nat, NEW r, FoundAt(r, path, n, D)
    PROVE  FoundAt(search_step(r, path[n + 1]), path, n + 1, D)
<1>1. CASE r.type # "directory"
  <2>1. search_step(r, path[n + 1]) = r
    BY <1>1 DEF search_step
  <2> QED
    BY <1>1, <2>1 DEF FoundAt
<1>2. CASE r.type = "directory"
  <2> DEFINE name == path[n + 1]
             f == {e \in Ent(NowBl, d_block, r.ino) : e.name = name}
  <2>1. r.ino \in D /\ r.depth = n
    BY <1>2 DEF FoundAt
  <2>2. /\ D \subseteq Inodes /\ ClosedSet(NowBl, d_block, D) /\ TypedDisk(NowBl, d_block, d_ibits, d_bbits, NowSz)
        /\ DirOk(NowBl, d_block, NowSz, D, r.ino)
    BY <2>1, GoodFacts DEF At, Good
  <2>3. Ent(NowBl, d_block, r.ino) \subseteq EntrySet
    BY <2>1, <2>2, EntTyped
  <2>4. found(r.ino, name) = f
    BY <2>1, <2>2, InodeNow DEF found
  <2>5. CASE f = {}
    <3> DEFINE q == [ino |-> Nil, type |-> "unknown", parent |-> r.ino, depth |-> n + 1]
    <3>1. search_step(r, name) = q
      BY <1>2, <2>1, <2>4, <2>5 DEF search_step
    <3>2. FoundAt(q, path, n + 1, D)
      BY <2>1, <2>5 DEF FoundAt
    <3> QED
      BY <3>1, <3>2
  <2>6. CASE f # {}
    <3> DEFINE e == CHOOSE e \in f : TRUE
               q == [ino |-> e.ino, type |-> e.type, parent |-> r.ino, depth |-> n + 1]
    <3>1. e \in f
      BY <2>6
    <3>2. search_step(r, name) = q
      BY <1>2, <2>1, <2>4, <2>6 DEF search_step
    <3> HIDE DEF e
    <3>3. e \in Ent(NowBl, d_block, r.ino) /\ e.type \in {"regular", "directory"}
      BY <3>1, <2>3 DEF EntrySet
    <3>4. CASE e.type = "directory"
      <4>1. e.ino \in D
        BY <2>1, <2>2, <3>3, <3>4 DEF ClosedSet, Sub
      <4> QED
        BY <2>1, <3>2, <3>4, <4>1 DEF FoundAt
    <3>5. CASE e.type = "regular"
      <4>1. Link(NowBl, d_block, D, r.ino, e)
        BY <2>1, <2>2, <3>3, <3>5 DEF DirOk, Link
      <4> QED
        BY <2>1, <3>2, <3>5, <4>1 DEF FoundAt
    <3> QED
      BY <3>3, <3>4, <3>5
  <2> QED
    BY <2>5, <2>6
<1> QED
  BY <1>1, <1>2

LEMMA SearchFinds ==
    ASSUME TypeOK, NEW D, At(D), NEW path, Len(path) \in Nat
    PROVE  FoundAt(search_file(path), path, Len(path), D)
<1>1. PICK f : Walk(path, f, Len(path)) /\ search_file(path) = f[Len(path)]
  BY SearchEquation
<1>2. \A n \in 0..Len(path) : f[n] = IF n = 0 THEN root_record ELSE search_step(f[n - 1], path[n])
  BY <1>1 DEF Walk
<1> DEFINE Bad == {n \in 0..Len(path) : ~FoundAt(f[n], path, n, D)}
<1> SUFFICES ASSUME Bad # {} PROVE FALSE
  BY <1>1
<1>3. PICK n \in Bad : \A k \in Bad : n <= k
  <2>1. Bad \in SUBSET Nat
    OBVIOUS
  <2> HIDE DEF Bad
  <2> QED
    BY <2>1, Smallest
<1>4. CASE n = 0
  <2>1. 0 \in D
    BY GoodFacts DEF At
  <2>2. f[0] = root_record
    BY <1>2
  <2>3. FoundAt(root_record, path, 0, D)
    BY <2>1 DEF FoundAt, root_record
  <2> QED
    BY <1>4, <2>2, <2>3
<1>5. CASE n # 0
  <2>1. n - 1 \in Nat /\ n - 1 \in 0..Len(path) /\ ~(n <= n - 1) /\ (n - 1) + 1 = n
    BY <1>5
  <2>2. FoundAt(f[n - 1], path, n - 1, D)
    BY <1>3, <2>1
  <2>3. FoundAt(search_step(f[n - 1], path[(n - 1) + 1]), path, (n - 1) + 1, D)
    BY <2>1, <2>2, StepFinds
  <2>4. f[n] = search_step(f[n - 1], path[n])
    BY <1>2, <1>5
  <2> QED
    BY <2>1, <2>3, <2>4
<1> QED
  BY <1>4, <1>5

-----------------------------------------------------------------------------
(* The list of open inodes *)
LEMMA RecParts ==
    ASSUME NEW v \in OpenRec
    PROVE  v.cnt \in Nat /\ v.inode \in InodeRec /\ v.write_deny \in BOOLEAN
BY DEF OpenRec

LEMMA ClosedTyped ==
    /\ Blank \in InodeRec /\ Closed \in OpenRec /\ Closed.cnt = 0
    /\ \A v \in InodeRec : opened(v) \in OpenRec /\ opened(v).cnt = 1 /\ opened(v).inode = v
<1>1. Blank \in InodeRec
  BY DEF Blank, InodeRec, Nil
<1>2. Closed \in OpenRec /\ Closed.cnt = 0
  BY <1>1 DEF Closed, OpenRec
<1>3. \A v \in InodeRec : opened(v) \in OpenRec /\ opened(v).cnt = 1 /\ opened(v).inode = v
  BY DEF opened, OpenRec
<1> QED
  BY <1>1, <1>2, <1>3

LEMMA OpenFacts ==
    ASSUME TypeOK, NEW o \in [Inodes -> OpenRec], NEW i \in Inodes, NEW q, q = inode_open(o, i)
    PROVE  /\ q \in [Inodes -> OpenRec] /\ \A j \in Inodes \ {i} : q[j] = o[j]
           /\ q[i].cnt = o[i].cnt + 1
           /\ q[i].inode = IF o[i].cnt = 0 THEN d_inode[i] ELSE o[i].inode
<1>1. d_inode[i] \in InodeRec /\ o[i] \in OpenRec /\ o[i].cnt \in Nat
  BY RecParts DEF TypeOK
<1> DEFINE x == IF o[i].cnt = 0 THEN opened(d_inode[i])
                ELSE [o[i] EXCEPT !.cnt = o[i].cnt + 1]
<1>2. q = [o EXCEPT ![i] = x]
  BY Zenon DEF inode_open
<1>3. x \in OpenRec /\ x.cnt = o[i].cnt + 1 /\ x.inode = IF o[i].cnt = 0 THEN d_inode[i] ELSE o[i].inode
  <2>1. CASE o[i].cnt = 0
    BY <1>1, <2>1, ClosedTyped
  <2>2. CASE o[i].cnt # 0
    BY <1>1, <2>2 DEF OpenRec
  <2> QED
    BY <2>1, <2>2
<1> HIDE DEF x
<1> QED
  BY <1>2, <1>3

LEMMA CloseFacts ==
    ASSUME NEW o \in [Inodes -> OpenRec], NEW i \in Inodes, o[i].cnt >= 1, NEW q, q = inode_close(o, i)
    PROVE  /\ q \in [Inodes -> OpenRec] /\ \A j \in Inodes \ {i} : q[j] = o[j]
           /\ q[i].cnt = o[i].cnt - 1
           /\ q[i].cnt > 0 => q[i].inode = o[i].inode
<1>1. o[i] \in OpenRec /\ o[i].cnt \in Nat
  BY RecParts
<1> DEFINE x == IF o[i].cnt = 1 THEN Closed ELSE [o[i] EXCEPT !.cnt = o[i].cnt - 1]
<1>2. q = [o EXCEPT ![i] = x]
  BY Zenon DEF inode_close
<1>3. x \in OpenRec /\ x.cnt = o[i].cnt - 1 /\ (x.cnt > 0 => x.inode = o[i].inode)
  <2>1. CASE o[i].cnt = 1
    BY <1>1, <2>1, ClosedTyped
  <2>2. CASE o[i].cnt # 1
    BY <1>1, <2>2 DEF OpenRec
  <2> QED
    BY <2>1, <2>2
<1> HIDE DEF x
<1> QED
  BY <1>2, <1>3

LEMMA ChangedFacts ==
    ASSUME NEW o \in [Inodes -> OpenRec], NEW i \in Inodes, NEW v \in InodeRec, NEW q, q = changed(o, i, v)
    PROVE  /\ q \in [Inodes -> OpenRec] /\ \A j \in Inodes \ {i} : q[j] = o[j]
           /\ q[i].cnt = o[i].cnt
           /\ q[i].cnt > 0 => q[i].inode = v
<1>1. o[i] \in OpenRec /\ o[i].cnt \in Nat
  BY RecParts
<1>2. CASE o[i].cnt = 0
  BY <1>1, <1>2 DEF changed
<1>3. CASE o[i].cnt # 0
  <2> DEFINE x == [o[i] EXCEPT !.inode = v]
  <2>1. q = [o EXCEPT ![i] = x]
    BY <1>3 DEF changed
  <2>2. x \in OpenRec /\ x.cnt = o[i].cnt /\ x.inode = v
    BY <1>1 DEF OpenRec
  <2> HIDE DEF x
  <2> QED
    BY <2>1, <2>2
<1> QED
  BY <1>2, <1>3

(* Smallest free numbers *)
LEMMA SmallestIsMin ==
    ASSUME NEW S \in SUBSET Nat, S # {}
    PROVE  Min(S) \in S /\ \A y \in S : Min(S) <= y
<1>1. \E x \in S : \A y \in S : x <= y
  BY Smallest
<1> QED
  BY <1>1 DEF Min

LEMMA SlotsFinite ==
    /\ IsFiniteSet(Slots)
    /\ \A i : IsFiniteSet(Refs(i)) /\ IsFiniteSet(Refs(i)')
<1>1. IsFiniteSet(Slots)
  BY FsAssumption, FS_Interval DEF Slots
<1>2. \A S \in SUBSET Slots : IsFiniteSet(S)
  BY <1>1, FS_Subset
<1>3. \A i : Refs(i) \in SUBSET Slots /\ Refs(i)' \in SUBSET Slots
  BY DEF Refs
<1> QED
  BY <1>1, <1>2, <1>3

(* A slot is taken for inode k, perhaps with a descriptor. *)
Installed(s) == fd_table' = fd_table \/ \E fd \in Fds : fd_table[fd] = Nil /\ fd_table' = [fd_table EXCEPT ![fd] = s]

LEMMA Installs ==
    ASSUME TypeOK, NEW s, pcb_fd_install(s)
    PROVE  Installed(s)
<1>1. CASE FreeFds = {}
  BY <1>1 DEF pcb_fd_install, Installed
<1>2. CASE FreeFds # {}
  <2>1. FreeFds \in SUBSET Nat
    BY FsBounds DEF FreeFds
  <2>2. Min(FreeFds) \in FreeFds
    BY <1>2, <2>1, SmallestIsMin
  <2>3. Min(FreeFds) \in Fds /\ fd_table[Min(FreeFds)] = Nil
    BY <2>2 DEF FreeFds
  <2>4. fd_table' = [fd_table EXCEPT ![Min(FreeFds)] = s]
    BY <1>2 DEF pcb_fd_install
  <2> QED
    BY <2>3, <2>4 DEF Installed
<1> QED
  BY <1>1, <1>2

LEMMA FreeSlot ==
    ASSUME FreeSlots # {}
    PROVE  Min(FreeSlots) \in Slots /\ file_table[Min(FreeSlots)].ino = Nil
<1>1. FreeSlots \in SUBSET Nat
  BY FsBounds DEF FreeSlots
<1>2. Min(FreeSlots) \in FreeSlots
  BY <1>1, SmallestIsMin
<1> QED
  BY <1>2 DEF FreeSlots, NoFile

Taken(s, k, write) == file_table' = [file_table EXCEPT ![s] = [ino |-> k, write |-> write]]

LEMMA SlotTaken ==
    ASSUME TypeOK, NEW ib, NEW D, FilesOk(ib, D), NEW s \in Slots, file_table[s].ino = Nil,
           NEW jb, ib \subseteq jb, NEW k \in jb, k \notin D, k \in Inodes, NEW write \in BOOLEAN,
           Taken(s, k, write), Installed(s)
    PROVE  /\ FilesOk(jb, D)'
           /\ file_table' \in [Slots -> [ino : Inodes \union {Nil}, write : BOOLEAN]]
           /\ fd_table' \in [Fds -> Slots \union {Nil}]
           /\ Cardinality(Refs(k)') = Cardinality(Refs(k)) + 1
           /\ \A j \in Inodes : j # k => Refs(j)' = Refs(j)
<1>0. k # Nil /\ s # Nil
  BY FsBounds
<1>1. /\ file_table \in [Slots -> [ino : Inodes \union {Nil}, write : BOOLEAN]]
      /\ fd_table \in [Fds -> Slots \union {Nil}]
  BY DEF TypeOK
<1>2. /\ file_table' \in [Slots -> [ino : Inodes \union {Nil}, write : BOOLEAN]]
      /\ \A t \in Slots : file_table'[t].ino = IF t = s THEN k ELSE file_table[t].ino
  BY <1>1 DEF Taken
<1>3. fd_table' \in [Fds -> Slots \union {Nil}]
  BY <1>1 DEF Installed
<1>4. \A t \in Slots : file_table'[t].ino \in {Nil} \union (jb \ D)
  BY <1>2 DEF FilesOk
<1>5. ASSUME NEW fd \in Fds, fd_table'[fd] # Nil
      PROVE  /\ file_table'[fd_table'[fd]].ino # Nil
             /\ \A gd \in Fds : fd_table'[gd] = fd_table'[fd] => gd = fd
  <2>1. \A gd \in Fds : fd_table[gd] # s /\ fd_table[gd] \in Slots \union {Nil}
    BY <1>0, <1>1 DEF FilesOk
  <2>2. CASE fd_table' = fd_table
    BY <2>1, <2>2, <1>2, <1>5 DEF FilesOk
  <2>3. ASSUME NEW x \in Fds, fd_table[x] = Nil, fd_table' = [fd_table EXCEPT ![x] = s]
        PROVE  /\ file_table'[fd_table'[fd]].ino # Nil
               /\ \A gd \in Fds : fd_table'[gd] = fd_table'[fd] => gd = fd
    <3>1. \A gd \in Fds : fd_table'[gd] = IF gd = x THEN s ELSE fd_table[gd]
      BY <1>1, <2>3
    <3> QED
      BY <3>1, <2>1, <1>0, <1>2, <1>5 DEF FilesOk
  <2> QED
    BY <2>2, <2>3 DEF Installed
<1>6. Refs(k)' = Refs(k) \union {s} /\ s \notin Refs(k)
  BY <1>0, <1>2 DEF Refs
<1>7. Cardinality(Refs(k)') = Cardinality(Refs(k)) + 1
  BY <1>6, SlotsFinite, FS_AddElement
<1>8. \A j \in Inodes : j # k => Refs(j)' = Refs(j)
  BY <1>2, FsBounds DEF Refs
<1>9. FilesOk(jb, D)'
  BY <1>4, <1>5 DEF FilesOk
<1> QED
  BY <1>2, <1>3, <1>7, <1>8, <1>9

-----------------------------------------------------------------------------
(* Calls that write nothing *)
ListOk(o) == o \in [Inodes -> OpenRec] /\ \A i \in Inodes : o[i].cnt > 0 => o[i].inode = d_inode[i]

LEMMA MemList ==
    ASSUME TypeOK, NEW D, At(D)
    PROVE  ListOk(open_inodes) /\ inode_bitmap = d_ibits /\ block_bitmap = Mounted(d_bbits) /\ Plain(NowBl)
<1>1. \A i \in Inodes : d_inode[i] = [size |-> NowSz[i], blk |-> NowBl[i]]
  BY InodeNow
<1> QED
  BY <1>1 DEF ListOk, TypeOK, At, MemOk

LEMMA OpenKeepsList ==
    ASSUME TypeOK, NEW o, ListOk(o), NEW i \in Inodes, NEW q, q = inode_open(o, i)
    PROVE  /\ ListOk(q) /\ q[i].cnt = o[i].cnt + 1
           /\ \A j \in Inodes \ {i} : q[j] = o[j]
<1>1. o \in [Inodes -> OpenRec] /\ o[i].cnt \in Nat
  BY RecParts DEF ListOk
<1>2. /\ q \in [Inodes -> OpenRec] /\ \A j \in Inodes \ {i} : q[j] = o[j]
      /\ q[i].cnt = o[i].cnt + 1
      /\ q[i].inode = IF o[i].cnt = 0 THEN d_inode[i] ELSE o[i].inode
  BY <1>1, OpenFacts
<1>3. q[i].inode = d_inode[i]
  BY <1>1, <1>2 DEF ListOk
<1> QED
  BY <1>2, <1>3 DEF ListOk

Settled == TypeOK /\ todo = << >> /\ \E D : At(D)

LEMMA SettledInv == Settled => FsInv
<1> SUFFICES ASSUME Settled PROVE FsInv
  OBVIOUS
<1>0. PICK D : At(D)
  BY DEF Settled
<1>1. Now.bl = NowBl /\ Now.blk = d_block /\ Now.ib = d_ibits /\ Now.bb = d_bbits /\ Now.sz = NowSz
  BY DEF Now, Disk
<1>2. Agrees(Now, D)
  BY <1>0, <1>1 DEF At, Agrees
<1>3. CrashOk(NowBl, d_block, d_ibits, d_bbits, D)
  BY <1>0, GoodIsSafe DEF At
<1>4. Safe(Now)
  BY <1>1, <1>3 DEF Safe
<1>5. Leads(Now, todo, Now)
  BY <1>4, LeadsNowhere DEF Settled
<1> QED
  BY <1>2, <1>5 DEF FsInv, Settled

LEMMA SettledNext == Settled' => FsInv'
BY SettledInv, PTL

LEMMA QuietCall ==
    ASSUME TypeOK, Quiet, NEW D, At(D), UNCHANGED <<disk, bits, todo, mount_loads, kernel>>, ListOk(open_inodes'),
           file_table' \in [Slots -> [ino : Inodes \union {Nil}, write : BOOLEAN]],
           fd_table' \in [Fds -> Slots \union {Nil}], dirs' \in [Inodes -> Nat],
           RefsOk(d_ibits, D)'
    PROVE  FsInv'
<1>1. /\ d_inode' = d_inode /\ d_ibits' = d_ibits /\ d_bbits' = d_bbits /\ d_block' = d_block
      /\ inode_bitmap' = inode_bitmap /\ block_bitmap' = block_bitmap /\ todo' = << >> /\ kernel' = "up"
      /\ mount_loads' = mount_loads
  BY DEF disk, bits, Quiet
<1>2. TypeOK'
  BY <1>1 DEF TypeOK, ListOk
<1>3. NowBl' = NowBl /\ NowSz' = NowSz
  BY <1>1 DEF NowBl, NowSz
<1>4. \A i \in Inodes : d_inode[i] = [size |-> NowSz[i], blk |-> NowBl[i]]
  BY InodeNow
<1>4a. block_bitmap' = Mounted(d_bbits)' /\ Plain(NowBl)'
  <2>1. block_bitmap = Mounted(d_bbits) /\ Plain(NowBl)
    BY MemList
  <2> QED
    BY <1>1, <1>3, <2>1 DEF Mounted, Plain
<1>5. MemOk(NowBl, d_ibits, d_bbits, NowSz)'
  BY <1>1, <1>3, <1>4, <1>4a, MemList DEF MemOk, ListOk
<1>6. At(D)'
  BY <1>1, <1>3, <1>5 DEF At
<1>7. Settled'
  BY <1>1, <1>2, <1>6 DEF Settled
<1> QED
  BY <1>7, SettledNext

LEMMA SameCall ==
    ASSUME FsInv, UNCHANGED vars
    PROVE  FsInv'
<1>1. /\ d_inode' = d_inode /\ d_ibits' = d_ibits /\ d_bbits' = d_bbits /\ d_block' = d_block
      /\ inode_bitmap' = inode_bitmap /\ block_bitmap' = block_bitmap /\ todo' = todo /\ kernel' = kernel
      /\ file_table' = file_table /\ fd_table' = fd_table /\ dirs' = dirs /\ cwd_inode_nr' = cwd_inode_nr
      /\ open_inodes' = open_inodes /\ mount_loads' = mount_loads
  BY DEF vars, disk, bits, files
<1>2. TypeOK'
  BY <1>1 DEF FsInv, TypeOK
<1>3. Now' = Now
  BY <1>1 DEF Now, NowBl, NowSz, Disk
<1>4. \A i : Refs(i)' = Refs(i)
  BY <1>1 DEF Refs
<1>5. PICK u, D : Leads(Now, todo, u) /\ Agrees(u, D)
  BY DEF FsInv
<1>6. Agrees(u, D)'
  BY <1>1, <1>4, <1>5 DEF Agrees, MemOk, Mounted, Plain, RefsOk, FilesOk, CountsOk
<1>7. Leads(Now', todo', u)
  BY <1>1, <1>3, <1>5
<1> QED
  BY <1>2, <1>6, <1>7 DEF FsInv

(* A directory is opened once more, or is not. *)
LEMMA KeptFacts ==
    ASSUME TypeOK, NEW D, At(D), NEW r, r.parent \in D, NEW q, q = parent_kept(open_inodes, r)
    PROVE  /\ ListOk(q)
           /\ \A i \in Inodes : q[i].cnt \in Nat /\ q[i].cnt >= open_inodes[i].cnt
           /\ \A i \in Inodes \ D : q[i].cnt = open_inodes[i].cnt
<1>1. D \subseteq Inodes /\ r.parent \in Inodes
  BY GoodFacts DEF At
<1>2. ListOk(open_inodes)
  BY MemList
<1>3. \A i \in Inodes : open_inodes[i].cnt \in Nat
  BY <1>2, RecParts DEF ListOk
<1>4. CASE q = open_inodes
  BY <1>2, <1>3, <1>4
<1>5. CASE q = inode_open(open_inodes, r.parent)
  <2>1. /\ ListOk(q) /\ q[r.parent].cnt = open_inodes[r.parent].cnt + 1
        /\ \A j \in Inodes \ {r.parent} : q[j] = open_inodes[j]
    BY <1>1, <1>2, <1>5, OpenKeepsList
  <2>2. \A i \in Inodes : q[i].cnt \in Nat
    BY <2>1, RecParts DEF ListOk
  <2> QED
    BY <1>3, <2>1, <2>2
<1> QED
  BY <1>4, <1>5 DEF parent_kept

LEMMA ParentKept ==
    ASSUME TypeOK, Quiet, NEW D, At(D), NEW r, r.parent \in D, open_inodes' = parent_kept(open_inodes, r),
           UNCHANGED <<disk, bits, files, cwd_inode_nr, dirs, todo, mount_loads, kernel>>
    PROVE  FsInv'
<1>1. /\ ListOk(open_inodes')
      /\ \A i \in Inodes : open_inodes'[i].cnt \in Nat /\ open_inodes'[i].cnt >= open_inodes[i].cnt
      /\ \A i \in Inodes \ D : open_inodes'[i].cnt = open_inodes[i].cnt
  BY KeptFacts
<1>2. file_table' = file_table /\ fd_table' = fd_table /\ dirs' = dirs /\ cwd_inode_nr' = cwd_inode_nr
  BY DEF files
<1>3. \A i : Refs(i)' = Refs(i)
  BY <1>2 DEF Refs
<1>4. RefsOk(d_ibits, D) /\ D \subseteq Inodes
  BY GoodFacts DEF At
<1>5. FilesOk(d_ibits, D)'
  <2>1. d_ibits' = d_ibits
    BY DEF disk
  <2> QED
    BY <1>2, <1>4, <2>1 DEF RefsOk, FilesOk
<1>6. CountsOk(D)'
  <2>1. \A i \in D : open_inodes'[i].cnt >= dirs'[i] + (IF i = 0 THEN 1 ELSE 0)
    <3> SUFFICES ASSUME NEW i \in D PROVE open_inodes'[i].cnt >= dirs'[i] + (IF i = 0 THEN 1 ELSE 0)
      OBVIOUS
    <3>1. /\ open_inodes[i].cnt >= dirs[i] + (IF i = 0 THEN 1 ELSE 0) /\ dirs[i] \in Nat
          /\ open_inodes[i].cnt \in Nat
      BY <1>4, RecParts DEF RefsOk, CountsOk, TypeOK
    <3> QED
      BY <1>1, <1>2, <1>4, <3>1
  <2> QED
    BY <1>1, <1>2, <1>3, <1>4, <2>1 DEF RefsOk, CountsOk
<1>7. RefsOk(d_ibits, D)'
  BY <1>2, <1>4, <1>5, <1>6 DEF RefsOk
<1> QED
  BY <1>1, <1>2, <1>7, QuietCall DEF TypeOK

(* sys_open of a file: one slot and one reference more *)
LEMMA FileOpened ==
    ASSUME TypeOK, Quiet, NEW D, At(D), NEW r, r.parent \in D, r.ino \in d_ibits, r.ino \notin D,
           NEW write \in BOOLEAN, file_open(r, write)
    PROVE  FsInv'
<1> DEFINE kept == parent_kept(open_inodes, r)
           o == inode_open(kept, r.ino)
           s == Min(FreeSlots)
<1>1. /\ ListOk(kept)
      /\ \A i \in Inodes : kept[i].cnt \in Nat /\ kept[i].cnt >= open_inodes[i].cnt
      /\ \A i \in Inodes \ D : kept[i].cnt = open_inodes[i].cnt
  BY KeptFacts
<1>2. UNCHANGED <<disk, bits, cwd_inode_nr, dirs, todo, mount_loads, kernel>>
  BY DEF file_open
<1>3. CASE FreeSlots = {}
  <2>1. open_inodes' = kept /\ UNCHANGED files
    BY <1>3 DEF file_open
  <2>2. UNCHANGED <<disk, bits, files, cwd_inode_nr, dirs, todo, mount_loads, kernel>>
    BY <1>2, <2>1
  <2> QED
    BY <2>1, <2>2, ParentKept
<1>4. CASE FreeSlots # {}
  <2>0. /\ D \subseteq Inodes /\ d_ibits \subseteq Inodes /\ r.ino \in Inodes
        /\ RefsOk(d_ibits, D) /\ d_ibits' = d_ibits /\ dirs' = dirs /\ cwd_inode_nr' = cwd_inode_nr
    BY <1>2, GoodFacts DEF At, disk
  <2>1. s \in Slots /\ file_table[s].ino = Nil
    BY <1>4, FreeSlot
  <2>2. /\ Taken(s, r.ino, write) /\ (fd_table' = fd_table \/ pcb_fd_install(s))
        /\ open_inodes' = IF write THEN [o EXCEPT ![r.ino].write_deny = TRUE] ELSE o
    BY <1>4 DEF file_open, Taken
  <2>3. Installed(s)
    <3>1. ASSUME pcb_fd_install(s) PROVE Installed(s)
      BY <3>1, Installs
    <3> QED
      BY <2>2, <3>1 DEF Installed
  <2> HIDE DEF s
  <2>4. /\ FilesOk(d_ibits, D)'
        /\ file_table' \in [Slots -> [ino : Inodes \union {Nil}, write : BOOLEAN]]
        /\ fd_table' \in [Fds -> Slots \union {Nil}]
        /\ Cardinality(Refs(r.ino)') = Cardinality(Refs(r.ino)) + 1
        /\ \A j \in Inodes : j # r.ino => Refs(j)' = Refs(j)
    <3>1. /\ FilesOk(d_ibits, D) /\ d_ibits \subseteq d_ibits
      BY <2>0 DEF RefsOk
    <3>2. PICK ib : ib = d_ibits
      OBVIOUS
    <3>3. /\ FilesOk(ib, D)'
          /\ file_table' \in [Slots -> [ino : Inodes \union {Nil}, write : BOOLEAN]]
          /\ fd_table' \in [Fds -> Slots \union {Nil}]
          /\ Cardinality(Refs(r.ino)') = Cardinality(Refs(r.ino)) + 1
          /\ \A j \in Inodes : j # r.ino => Refs(j)' = Refs(j)
      BY <2>0, <2>1, <2>2, <2>3, <3>1, <3>2, SlotTaken
    <3> QED
      BY <2>0, <3>2, <3>3 DEF FilesOk
  <2>5. /\ ListOk(o) /\ o[r.ino].cnt = kept[r.ino].cnt + 1
        /\ \A j \in Inodes \ {r.ino} : o[j] = kept[j]
    <3> HIDE DEF kept
    <3> QED
      BY <1>1, <2>0, OpenKeepsList
  <2> HIDE DEF o
  <2>6. ListOk(open_inodes') /\ \A i \in Inodes : open_inodes'[i].cnt = o[i].cnt
    <3>1. CASE ~write
      BY <2>2, <2>5, <3>1
    <3>2. CASE write
      <4> DEFINE x == [o[r.ino] EXCEPT !.write_deny = TRUE]
      <4>1. open_inodes' = [o EXCEPT ![r.ino] = x]
        BY <2>2, <3>2
      <4>2. o \in [Inodes -> OpenRec] /\ o[r.ino] \in OpenRec
        BY <2>0, <2>5 DEF ListOk
      <4>3. x \in OpenRec /\ x.cnt = o[r.ino].cnt /\ x.inode = o[r.ino].inode
        BY <4>2 DEF OpenRec
      <4> HIDE DEF x
      <4> QED
        BY <2>0, <2>5, <4>1, <4>2, <4>3 DEF ListOk
    <3> QED
      BY <3>1, <3>2
  <2>7. CountsOk(D)'
    <3> HIDE DEF kept
    <3>1. CountsOk(D)
      BY <2>0 DEF RefsOk
    <3>2. ASSUME NEW i \in Inodes \ D PROVE open_inodes'[i].cnt = Cardinality(Refs(i)') /\ dirs'[i] = 0
      <4>1. open_inodes[i].cnt = Cardinality(Refs(i)) /\ dirs[i] = 0 /\ kept[i].cnt = open_inodes[i].cnt
        BY <1>1, <3>1 DEF CountsOk
      <4>2. o[i].cnt = IF i = r.ino THEN kept[i].cnt + 1 ELSE kept[i].cnt
        BY <2>5
      <4> QED
        BY <2>0, <2>4, <2>6, <4>1, <4>2
    <3>3. ASSUME NEW i \in D PROVE open_inodes'[i].cnt >= dirs'[i] + (IF i = 0 THEN 1 ELSE 0)
      <4>1. open_inodes[i].cnt >= dirs[i] + (IF i = 0 THEN 1 ELSE 0) /\ dirs[i] \in Nat
            /\ i \in Inodes /\ open_inodes[i].cnt \in Nat
        BY <2>0, <3>1, RecParts DEF CountsOk, TypeOK
      <4>2. o[i].cnt = kept[i].cnt /\ kept[i].cnt >= open_inodes[i].cnt /\ kept[i].cnt \in Nat
        BY <1>1, <2>5, <4>1
      <4> QED
        BY <2>0, <2>6, <4>1, <4>2
    <3> QED
      BY <3>2, <3>3 DEF CountsOk
  <2>8. RefsOk(d_ibits, D)'
    BY <2>0, <2>4, <2>7 DEF RefsOk
  <2>9. UNCHANGED <<disk, bits, todo, mount_loads, kernel>> /\ dirs' \in [Inodes -> Nat]
    BY <1>2 DEF TypeOK
  <2> QED
    BY <2>4, <2>6, <2>8, <2>9, QuietCall
<1> QED
  BY <1>3, <1>4

LEMMA FileClosed ==
    ASSUME TypeOK, Quiet, NEW D, At(D), NEW fd \in Fds, sys_close(fd)
    PROVE  FsInv'
<1>0. PICK s, i : s = fd_table[fd] /\ i = file_table[s].ino
  OBVIOUS
<1> DEFINE o == [open_inodes EXCEPT ![i].write_deny = FALSE]
<1>1. /\ D \subseteq Inodes /\ d_ibits \subseteq Inodes
      /\ FilesOk(d_ibits, D) /\ CountsOk(D) /\ cwd_inode_nr \in D /\ ListOk(open_inodes)
  BY GoodFacts, MemList DEF At, RefsOk
<1>2. /\ file_table \in [Slots -> [ino : Inodes \union {Nil}, write : BOOLEAN]]
      /\ fd_table \in [Fds -> Slots \union {Nil}]
      /\ open_inodes \in [Inodes -> OpenRec]
  BY DEF TypeOK
<1>3. /\ s \in Slots /\ s # Nil /\ i # Nil /\ i \in d_ibits /\ i \in Inodes /\ i \notin D
      /\ \A gd \in Fds : fd_table[gd] = s => gd = fd
  BY <1>0, <1>1, <1>2 DEF sys_close, FilesOk
<1>4. /\ open_inodes' = inode_close(o, i)
      /\ file_table' = [file_table EXCEPT ![s] = NoFile]
      /\ fd_table' = [fd_table EXCEPT ![fd] = Nil]
      /\ UNCHANGED <<disk, bits, cwd_inode_nr, dirs, todo, mount_loads, kernel>>
  BY <1>0 DEF sys_close
<1>5. /\ o \in [Inodes -> OpenRec] /\ \A j \in Inodes : o[j].cnt = open_inodes[j].cnt /\ o[j].inode = open_inodes[j].inode
  <2> DEFINE x == [open_inodes[i] EXCEPT !.write_deny = FALSE]
  <2>1. o = [open_inodes EXCEPT ![i] = x]
    OBVIOUS
  <2>2. x \in OpenRec /\ x.cnt = open_inodes[i].cnt /\ x.inode = open_inodes[i].inode
    BY <1>2, <1>3 DEF OpenRec
  <2> HIDE DEF x
  <2> QED
    BY <1>2, <1>3, <2>1, <2>2
<1> HIDE DEF o
<1>6. /\ file_table' \in [Slots -> [ino : Inodes \union {Nil}, write : BOOLEAN]]
      /\ \A t \in Slots : file_table'[t].ino = IF t = s THEN Nil ELSE file_table[t].ino
  BY <1>2, <1>3, <1>4 DEF NoFile
<1>7. /\ fd_table' \in [Fds -> Slots \union {Nil}]
      /\ \A gd \in Fds : fd_table'[gd] = IF gd = fd THEN Nil ELSE fd_table[gd]
  BY <1>2, <1>4
<1>8. s \in Refs(i) /\ Refs(i)' = Refs(i) \ {s} /\ \A j \in Inodes : j # i => Refs(j)' = Refs(j)
  <2>1. file_table[s].ino = i
    BY <1>0
  <2>2. s \in Refs(i)
    BY <1>3, <2>1 DEF Refs
  <2>3. Refs(i)' = Refs(i) \ {s}
    BY <1>3, <1>6 DEF Refs
  <2> QED
    BY <1>3, <1>6, <2>1, <2>2, <2>3, FsBounds DEF Refs
<1>9. Cardinality(Refs(i)') = Cardinality(Refs(i)) - 1 /\ Cardinality(Refs(i)) \in Nat /\ Cardinality(Refs(i)) >= 1
  <2>1. IsFiniteSet(Refs(i)) /\ IsFiniteSet(Refs(i)')
    BY SlotsFinite
  <2>2. Cardinality(Refs(i)') = Cardinality(Refs(i)) - 1
    BY <1>8, <2>1, FS_RemoveElement
  <2>3. Cardinality(Refs(i)) \in Nat /\ Cardinality(Refs(i)') \in Nat
    BY <2>1, FS_CardinalityType
  <2> QED
    BY <2>2, <2>3
<1>10. open_inodes[i].cnt = Cardinality(Refs(i))
  BY <1>1, <1>3 DEF CountsOk
<1>11. /\ open_inodes' \in [Inodes -> OpenRec] /\ \A j \in Inodes \ {i} : open_inodes'[j] = o[j]
       /\ open_inodes'[i].cnt = o[i].cnt - 1
       /\ open_inodes'[i].cnt > 0 => open_inodes'[i].inode = o[i].inode
  BY <1>3, <1>4, <1>5, <1>9, <1>10, CloseFacts
<1>12. ListOk(open_inodes')
  <2>1. ASSUME NEW j \in Inodes, open_inodes'[j].cnt > 0 PROVE open_inodes'[j].inode = d_inode[j]
    <3>1. CASE j = i
      <4>1. open_inodes[i].cnt > 0
        BY <1>9, <1>10
      <4> QED
        BY <1>1, <1>3, <1>5, <1>11, <2>1, <3>1, <4>1 DEF ListOk
    <3>2. CASE j # i
      BY <1>1, <1>5, <1>11, <2>1, <3>2 DEF ListOk
    <3> QED
      BY <3>1, <3>2
  <2> QED
    BY <1>11, <2>1 DEF ListOk
<1>13. d_ibits' = d_ibits /\ dirs' = dirs /\ cwd_inode_nr' = cwd_inode_nr /\ dirs' \in [Inodes -> Nat]
  BY <1>4 DEF disk, TypeOK
<1>14. FilesOk(d_ibits, D)'
  <2>1. \A t \in Slots : file_table'[t].ino \in {Nil} \union (d_ibits' \ D)
    BY <1>1, <1>6, <1>13 DEF FilesOk
  <2>2. ASSUME NEW gd \in Fds, fd_table'[gd] # Nil
        PROVE  /\ file_table'[fd_table'[gd]].ino # Nil
               /\ \A hd \in Fds : fd_table'[hd] = fd_table'[gd] => hd = gd
    <3>1. fd_table'[gd] = fd_table[gd] /\ fd_table[gd] \in Slots /\ fd_table[gd] # s /\ fd_table[gd] # Nil
      BY <1>2, <1>3, <1>7, <2>2
    <3>2. file_table'[fd_table'[gd]].ino # Nil
      BY <1>1, <1>6, <3>1 DEF FilesOk
    <3> QED
      BY <1>1, <1>7, <3>1, <3>2 DEF FilesOk
  <2> QED
    BY <2>1, <2>2 DEF FilesOk
<1>15. CountsOk(D)'
  <2>1. ASSUME NEW j \in Inodes \ D PROVE open_inodes'[j].cnt = Cardinality(Refs(j)') /\ dirs'[j] = 0
    <3>1. CASE j = i
      BY <1>1, <1>3, <1>5, <1>9, <1>10, <1>11, <1>13, <3>1 DEF CountsOk
    <3>2. CASE j # i
      BY <1>1, <1>5, <1>8, <1>11, <1>13, <3>2 DEF CountsOk
    <3> QED
      BY <3>1, <3>2
  <2>2. ASSUME NEW j \in D PROVE open_inodes'[j].cnt >= dirs'[j] + (IF j = 0 THEN 1 ELSE 0)
    BY <1>1, <1>3, <1>5, <1>11, <1>13 DEF CountsOk
  <2> QED
    BY <2>1, <2>2 DEF CountsOk
<1>16. RefsOk(d_ibits, D)'
  BY <1>1, <1>13, <1>14, <1>15 DEF RefsOk
<1>17. UNCHANGED <<disk, bits, todo, mount_loads, kernel>>
  BY <1>4
<1> QED
  BY <1>6, <1>7, <1>12, <1>13, <1>16, <1>17, QuietCall

(* Directories are opened and closed; the working directory changes. *)
LEMMA DirOpened ==
    ASSUME TypeOK, Quiet, NEW D, At(D), NEW r, r.ino \in D, sys_opendir(r)
    PROVE  FsInv'
<1>1. /\ D \subseteq Inodes /\ r.ino \in Inodes
      /\ FilesOk(d_ibits, D) /\ CountsOk(D) /\ cwd_inode_nr \in D /\ ListOk(open_inodes)
  BY GoodFacts, MemList DEF At, RefsOk
<1>2. /\ open_inodes' = inode_open(open_inodes, r.ino) /\ dirs' = [dirs EXCEPT ![r.ino] = @ + 1]
      /\ UNCHANGED <<disk, bits, files, cwd_inode_nr, todo, mount_loads, kernel>>
  BY DEF sys_opendir
<1>3. dirs' \in [Inodes -> Nat] /\ \A i \in Inodes : dirs'[i] = IF i = r.ino THEN dirs[i] + 1 ELSE dirs[i]
  BY <1>1, <1>2 DEF TypeOK
<1>4. /\ ListOk(open_inodes') /\ open_inodes'[r.ino].cnt = open_inodes[r.ino].cnt + 1
      /\ \A j \in Inodes \ {r.ino} : open_inodes'[j] = open_inodes[j]
  BY <1>1, <1>2, OpenKeepsList
<1>5. file_table' = file_table /\ fd_table' = fd_table /\ cwd_inode_nr' = cwd_inode_nr /\ d_ibits' = d_ibits
  BY <1>2 DEF files, disk
<1>6. \A i : Refs(i)' = Refs(i)
  BY <1>5 DEF Refs
<1>7. FilesOk(d_ibits, D)'
  BY <1>1, <1>5 DEF FilesOk
<1>8. CountsOk(D)'
  <2>1. ASSUME NEW i \in Inodes \ D PROVE open_inodes'[i].cnt = Cardinality(Refs(i)') /\ dirs'[i] = 0
    BY <1>1, <1>3, <1>4, <1>6 DEF CountsOk
  <2>2. ASSUME NEW i \in D PROVE open_inodes'[i].cnt >= dirs'[i] + (IF i = 0 THEN 1 ELSE 0)
    <3>1. open_inodes[i].cnt \in Nat /\ dirs[i] \in Nat /\ open_inodes[i].cnt >= dirs[i] + (IF i = 0 THEN 1 ELSE 0)
      BY <1>1, RecParts DEF CountsOk, TypeOK
    <3> QED
      BY <1>1, <1>3, <1>4, <3>1
  <2> QED
    BY <2>1, <2>2 DEF CountsOk
<1>9. RefsOk(d_ibits, D)'
  BY <1>1, <1>5, <1>7, <1>8 DEF RefsOk
<1>10. UNCHANGED <<disk, bits, todo, mount_loads, kernel>>
  BY <1>2
<1> QED
  BY <1>3, <1>4, <1>5, <1>9, <1>10, QuietCall DEF TypeOK

LEMMA DirClosed ==
    ASSUME TypeOK, Quiet, NEW D, At(D), NEW k \in Inodes, sys_closedir(k)
    PROVE  FsInv'
<1>1. /\ D \subseteq Inodes
      /\ FilesOk(d_ibits, D) /\ CountsOk(D) /\ cwd_inode_nr \in D /\ ListOk(open_inodes)
  BY GoodFacts, MemList DEF At, RefsOk
<1>2. /\ open_inodes' = inode_close(open_inodes, k) /\ dirs' = [dirs EXCEPT ![k] = @ - 1] /\ dirs[k] > 0
      /\ UNCHANGED <<disk, bits, files, cwd_inode_nr, todo, mount_loads, kernel>>
  BY DEF sys_closedir
<1>3. \A i \in Inodes : dirs[i] \in Nat /\ open_inodes[i].cnt \in Nat
  BY RecParts DEF TypeOK
<1>4. k \in D /\ open_inodes[k].cnt >= 1
  <2>1. k \in D
    BY <1>1, <1>2, <1>3 DEF CountsOk
  <2>2. open_inodes[k].cnt >= dirs[k] + (IF k = 0 THEN 1 ELSE 0)
    BY <1>1, <2>1 DEF CountsOk
  <2> QED
    BY <1>2, <1>3, <2>1, <2>2
<1>5. dirs' \in [Inodes -> Nat] /\ \A i \in Inodes : dirs'[i] = IF i = k THEN dirs[i] - 1 ELSE dirs[i]
  BY <1>2, <1>3 DEF TypeOK
<1>6. /\ open_inodes' \in [Inodes -> OpenRec] /\ \A j \in Inodes \ {k} : open_inodes'[j] = open_inodes[j]
      /\ open_inodes'[k].cnt = open_inodes[k].cnt - 1
      /\ open_inodes'[k].cnt > 0 => open_inodes'[k].inode = open_inodes[k].inode
  BY <1>1, <1>2, <1>4, CloseFacts DEF ListOk
<1>7. ListOk(open_inodes')
  BY <1>1, <1>3, <1>4, <1>6 DEF ListOk
<1>8. file_table' = file_table /\ fd_table' = fd_table /\ cwd_inode_nr' = cwd_inode_nr /\ d_ibits' = d_ibits
  BY <1>2 DEF files, disk
<1>9. \A i : Refs(i)' = Refs(i)
  BY <1>8 DEF Refs
<1>10. FilesOk(d_ibits, D)'
  BY <1>1, <1>8 DEF FilesOk
<1>11. CountsOk(D)'
  <2>1. ASSUME NEW i \in Inodes \ D PROVE open_inodes'[i].cnt = Cardinality(Refs(i)') /\ dirs'[i] = 0
    BY <1>1, <1>4, <1>5, <1>6, <1>9 DEF CountsOk
  <2>2. ASSUME NEW i \in D PROVE open_inodes'[i].cnt >= dirs'[i] + (IF i = 0 THEN 1 ELSE 0)
    <3>1. open_inodes[i].cnt >= dirs[i] + (IF i = 0 THEN 1 ELSE 0) /\ i \in Inodes
      BY <1>1 DEF CountsOk
    <3> QED
      BY <1>3, <1>5, <1>6, <3>1
  <2> QED
    BY <2>1, <2>2 DEF CountsOk
<1>12. RefsOk(d_ibits, D)'
  BY <1>1, <1>8, <1>10, <1>11 DEF RefsOk
<1>13. UNCHANGED <<disk, bits, todo, mount_loads, kernel>>
  BY <1>2
<1> QED
  BY <1>5, <1>7, <1>8, <1>12, <1>13, QuietCall DEF TypeOK

LEMMA DirChanged ==
    ASSUME TypeOK, Quiet, NEW D, At(D), NEW r, r.ino \in D, sys_chdir(r)
    PROVE  FsInv'
<1>1. FilesOk(d_ibits, D) /\ CountsOk(D) /\ ListOk(open_inodes)
  BY MemList DEF At, RefsOk
<1>2. /\ cwd_inode_nr' = r.ino
      /\ UNCHANGED <<disk, bits, open_inodes, files, dirs, todo, mount_loads, kernel>>
  BY DEF sys_chdir
<1>3. file_table' = file_table /\ fd_table' = fd_table /\ open_inodes' = open_inodes /\ dirs' = dirs /\ d_ibits' = d_ibits
  BY <1>2 DEF files, disk
<1>4. \A i : Refs(i)' = Refs(i)
  BY <1>3 DEF Refs
<1>5. RefsOk(d_ibits, D)'
  BY <1>1, <1>2, <1>3, <1>4 DEF RefsOk, FilesOk, CountsOk
<1>6. UNCHANGED <<disk, bits, todo, mount_loads, kernel>>
  BY <1>2
<1> QED
  BY <1>1, <1>3, <1>5, <1>6, QuietCall DEF TypeOK

(* A start of the machine, the first or another: nothing is open but the   *)
(* root.                                                                   *)
Fresh ==
    /\ d_inode \in [Inodes -> InodeRec]
    /\ \E D : Good(NowBl, d_block, d_ibits, d_bbits, NowSz, D)
    /\ inode_bitmap = d_ibits /\ block_bitmap = Mounted(d_bbits) /\ Plain(NowBl)
    /\ open_inodes = root_opened(d_inode)
    /\ file_table = [s \in Slots |-> NoFile] /\ fd_table = [fd \in Fds |-> Nil] /\ cwd_inode_nr = 0
    /\ dirs = [i \in Inodes |-> 0] /\ todo = << >> /\ kernel = "up"

LEMMA FreshInv == Fresh => FsInv
<1> SUFFICES ASSUME Fresh PROVE FsInv
  OBVIOUS
<1> USE DEF Fresh
<1>0. PICK D : Good(NowBl, d_block, d_ibits, d_bbits, NowSz, D)
  OBVIOUS
<1>1. 0 \in D /\ D \subseteq Inodes
  BY <1>0, GoodFacts
<1>2. /\ open_inodes \in [Inodes -> OpenRec] /\ open_inodes[0].cnt = 1 /\ open_inodes[0].inode = d_inode[0]
      /\ \A i \in Inodes : i # 0 => open_inodes[i].cnt = 0
  <2>1. 0 \in Inodes
    BY FsBounds
  <2>2. d_inode[0] \in InodeRec
    BY <2>1
  <2>3. /\ Closed \in OpenRec /\ Closed.cnt = 0
        /\ opened(d_inode[0]) \in OpenRec /\ opened(d_inode[0]).cnt = 1 /\ opened(d_inode[0]).inode = d_inode[0]
    BY <2>2, ClosedTyped
  <2> QED
    BY <2>1, <2>3 DEF root_opened
<1>3. TypeOK
  <2>1. file_table \in [Slots -> [ino : Inodes \union {Nil}, write : BOOLEAN]]
    BY DEF NoFile
  <2>2. fd_table \in [Fds -> Slots \union {Nil}] /\ dirs \in [Inodes -> Nat] /\ todo \in Seq(WriteSet)
    OBVIOUS
  <2> QED
    BY <1>2, <2>1, <2>2 DEF TypeOK
<1>4. \A i \in Inodes : d_inode[i] = [size |-> NowSz[i], blk |-> NowBl[i]]
  BY DEF InodeRec, NowSz, NowBl
<1>5. MemOk(NowBl, d_ibits, d_bbits, NowSz)
  BY <1>2, <1>4 DEF MemOk
<1>6. \A i \in Inodes : Cardinality(Refs(i)) = 0
  <2>1. \A i \in Inodes : Refs(i) = {}
    BY FsBounds DEF Refs, NoFile
  <2> QED
    BY <2>1, FS_EmptySet
<1>7. FilesOk(d_ibits, D)
  BY DEF FilesOk, NoFile
<1>8. CountsOk(D)
  <2>1. \A i \in Inodes : dirs[i] = 0
    OBVIOUS
  <2> QED
    BY <1>1, <1>2, <1>6, <2>1 DEF CountsOk
<1>9. At(D)
  BY <1>0, <1>1, <1>5, <1>7, <1>8 DEF At, RefsOk
<1> QED
  BY <1>3, <1>9, SettledInv DEF Settled

LEMMA FreshNext == Fresh' => FsInv'
BY FreshInv, PTL

LEMMA Restarted ==
    ASSUME d_inode \in [Inodes -> InodeRec], NEW D, Good(NowBl, d_block, d_ibits, d_bbits, NowSz, D),
           Plain(NowBl), filesys_init, ~lost'
    PROVE  FsInv'
<1>1. d_inode' = d_inode /\ d_ibits' = d_ibits /\ d_bbits' = d_bbits /\ d_block' = d_block /\ todo' = << >> /\ kernel' = "up"
      /\ mount_loads' = mount_loads
  BY DEF filesys_init, disk
<1>2. NowBl' = NowBl /\ NowSz' = NowSz
  BY <1>1 DEF NowBl, NowSz
<1>3. Good(NowBl, d_block, d_ibits, d_bbits, NowSz, D)'
  BY <1>1, <1>2
<1>4. d_inode' \in [Inodes -> InodeRec] /\ Plain(NowBl)'
  BY <1>1, <1>2 DEF Plain
<1>5. /\ inode_bitmap' = d_ibits' /\ block_bitmap' = Mounted(d_bbits)' /\ open_inodes' = root_opened(d_inode')
      /\ file_table' = [s \in Slots |-> NoFile] /\ fd_table' = [fd \in Fds |-> Nil] /\ cwd_inode_nr' = 0
      /\ dirs' = [i \in Inodes |-> 0]
  <2>1. block_bitmap' = Mounted(d_bbits)
    BY DEF filesys_init, mount_partition, Mounted
  <2>2. Mounted(d_bbits)' = Mounted(d_bbits)
    BY <1>1 DEF Mounted
  <2>3. /\ inode_bitmap' = d_ibits' /\ open_inodes' = root_opened(d_inode')
        /\ file_table' = [s \in Slots |-> NoFile] /\ fd_table' = [fd \in Fds |-> Nil] /\ cwd_inode_nr' = 0
        /\ dirs' = [i \in Inodes |-> 0]
    BY <1>1 DEF filesys_init, mount_partition
  <2> QED
    BY <2>1, <2>2, <2>3
<1>6. Fresh'
  BY <1>1, <1>3, <1>4, <1>5 DEF Fresh
<1> QED
  BY <1>6, FreshNext

LEMMA InitInv ==
    ASSUME Init
    PROVE  FsInv
<1>1. /\ d_inode = formatted /\ d_ibits = {0} /\ d_bbits = {0}
      /\ d_block = [b \in Blocks |-> IF b = 0 THEN DotEntries(0, 0) ELSE {}]
  BY DEF Init
<1>2. d_inode \in [Inodes -> InodeRec]
  BY <1>1, FsBounds DEF formatted, InodeRec, Blank
<1>3. \A i \in Inodes : NowBl[i] = (IF i = 0 THEN 0 ELSE Nil) /\ NowSz[i] = IF i = 0 THEN 2 ELSE 0
  BY <1>1 DEF NowBl, NowSz, formatted, Blank
<1>4. \A i \in Inodes : Ent(NowBl, d_block, i) = IF i = 0 THEN DotEntries(0, 0) ELSE {}
  BY <1>1, <1>3, FsBounds DEF Ent, Nil
<1>5. /\ DotEntries(0, 0) \subseteq EntrySet
      /\ \A e \in DotEntries(0, 0) : e.name \in Dots /\ e.type = "directory" /\ e.ino = 0
  BY FsBounds DEF DotEntries, Entry, Dots, EntrySet
<1>6. IsFiniteSet(DotEntries(0, 0)) /\ Cardinality(DotEntries(0, 0)) = 2
  BY DotsTwo
<1>7. TypedDisk(NowBl, d_block, d_ibits, d_bbits, NowSz)
  <2>1. NowBl \in [Inodes -> Blocks \union {Nil}] /\ NowSz \in [Inodes -> Int]
    BY <1>2 DEF NowBl, NowSz, InodeRec
  <2>2. d_block \in [Blocks -> SUBSET EntrySet] /\ \A b \in Blocks : IsFiniteSet(d_block[b])
    BY <1>1, <1>5, <1>6, FS_EmptySet
  <2> QED
    BY <1>1, <2>1, <2>2, FsBounds DEF TypedDisk
<1> DEFINE D == DirsOf(NowBl, d_block)
<1>8. D = {0}
  <2>1. D \subseteq Inodes /\ 0 \in D
    BY <1>7, DirsTyped
  <2>2. ClosedSet(NowBl, d_block, {0})
    BY <1>4, <1>5, FsBounds DEF ClosedSet, Sub
  <2>3. {0} \in SUBSET Inodes
    BY FsBounds
  <2>4. D \subseteq {0}
    BY <2>2, <2>3, DirsClosed
  <2> QED
    BY <2>1, <2>4
<1> HIDE DEF D
<1>9. \A d, e : ~Link(NowBl, d_block, D, d, e)
  BY <1>4, <1>5, <1>8, FsBounds DEF Link
<1>10. \A i : Named(NowBl, d_block, D, i) <=> i = 0
  BY <1>9 DEF Named
<1>11. DirOk(NowBl, d_block, NowSz, D, 0)
  BY <1>3, <1>4, <1>5, <1>6, <1>8, FsBounds DEF DirOk, Nil
<1>12. D = DirsOf(NowBl, d_block)
  BY DEF D
<1>13. Good(NowBl, d_block, d_ibits, d_bbits, NowSz, D)
  BY <1>1, <1>3, <1>7, <1>8, <1>9, <1>10, <1>11, <1>12, FsBounds DEF Good
<1>14. Plain(NowBl) /\ block_bitmap = Mounted(d_bbits)
  BY <1>1, <1>3 DEF Init, Plain, Mounted
<1>15. Fresh
  BY <1>1, <1>2, <1>13, <1>14 DEF Fresh, Init
<1> QED
  BY <1>15, FreshInv

-----------------------------------------------------------------------------
(* Calls that write *)
LEMMA CallInv ==
    ASSUME TypeOK', NEW bl, NEW blk, NEW ib, NEW bb, NEW sz, NEW D,
           Leads(Now', todo', Disk(bl, blk, ib, bb, sz)), Good(bl, blk, ib, bb, sz, D),
           MemOk(bl, ib, bb, sz)', RefsOk(ib, D)'
    PROVE  FsInv'
<1>1. PICK u : u = Disk(bl, blk, ib, bb, sz)
  OBVIOUS
<1>2. u.bl = bl /\ u.blk = blk /\ u.ib = ib /\ u.bb = bb /\ u.sz = sz
  BY <1>1, DiskParts
<1>3. Agrees(u, D)'
  BY <1>2 DEF Agrees
<1>4. Leads(Now', todo', u)
  BY <1>1
<1> QED
  BY <1>3, <1>4 DEF FsInv

LEMMA InWriteSet ==
    /\ \A i \in Inodes, v \in InodeRec : NInodes <= 256 => inode_sync(i, v) \in WriteSet
    /\ \A i \in Inodes : inode_delete(i) \in WriteSet
    /\ \A v \in SUBSET Inodes : sync_inode_bits(v) \in WriteSet
    /\ \A v \in SUBSET Blocks : sync_block_bits(v) \in WriteSet
    /\ \A b \in Blocks, v \in SUBSET EntrySet : write_block(b, v) \in WriteSet
<1>1. ASSUME NEW i \in Inodes, NEW v \in InodeRec, NInodes <= 256 PROVE inode_sync(i, v) \in WriteSet
  <2>1. i % 256 = i
    BY <1>1, FsAssumption DEF Inodes
  <2> QED
    BY <2>1 DEF inode_sync, WriteSet
<1>2. \A i \in Inodes : inode_delete(i) \in WriteSet
  BY ClosedTyped DEF inode_delete, WriteSet
<1>3. \A v \in SUBSET Inodes : sync_inode_bits(v) \in WriteSet
  BY DEF sync_inode_bits, WriteSet
<1>4. \A v \in SUBSET Blocks : sync_block_bits(v) \in WriteSet
  BY DEF sync_block_bits, WriteSet
<1>5. \A b \in Blocks, v \in SUBSET EntrySet : write_block(b, v) \in WriteSet
  BY DEF write_block, WriteSet
<1> QED
  BY <1>1, <1>2, <1>3, <1>4, <1>5

LEMMA SafeDisk ==
    ASSUME NEW bl, NEW blk, NEW ib, NEW bb, NEW sz, NEW D, CrashOk(bl, blk, ib, bb, D)
    PROVE  Safe(Disk(bl, blk, ib, bb, sz))
BY DiskParts DEF Safe

LEMMA SetNothing ==
    ASSUME NEW S, NEW T, NEW f \in [S -> T], NEW i \in S
    PROVE  SetAt(f, i, f[i]) = f
BY DEF SetAt

LEMMA FreeBlock ==
    ASSUME block_bitmap \subseteq Blocks, BlockLeft
    PROVE  block_bitmap_alloc \in Blocks /\ block_bitmap_alloc \notin block_bitmap
<1>1. Blocks \ block_bitmap \in SUBSET Nat /\ Blocks \ block_bitmap # {}
  BY FsBounds DEF BlockLeft
<1>2. Min(Blocks \ block_bitmap) \in Blocks \ block_bitmap
  BY <1>1, SmallestIsMin
<1> QED
  BY <1>2 DEF block_bitmap_alloc

LEMMA FreeInode ==
    ASSUME inode_bitmap \subseteq Inodes, InodeLeft
    PROVE  inode_bitmap_alloc \in Inodes /\ inode_bitmap_alloc \notin inode_bitmap
<1>1. Inodes \ inode_bitmap \in SUBSET Nat /\ Inodes \ inode_bitmap # {}
  BY FsBounds DEF InodeLeft
<1>2. Min(Inodes \ inode_bitmap) \in Inodes \ inode_bitmap
  BY <1>1, SmallestIsMin
<1> QED
  BY <1>2 DEF inode_bitmap_alloc

(* What the writing calls find, the disk by its parts *)
Before(bl, blk, ib, bb, sz, D) ==
    /\ bl = NowBl /\ blk = d_block /\ ib = d_ibits /\ bb = d_bbits /\ sz = NowSz
    /\ Now = Disk(bl, blk, ib, bb, sz)
    /\ Good(bl, blk, ib, bb, sz, D) /\ FilesOk(ib, D) /\ CountsOk(D) /\ cwd_inode_nr \in D
    /\ inode_bitmap = ib /\ block_bitmap = Mounted(bb) /\ Plain(bl)
    /\ \A i \in Inodes : /\ inode(i) = [size |-> sz[i], blk |-> bl[i]] /\ inode(i).blk = bl[i]
                         /\ inode(i).size = sz[i] /\ entries(i) = Ent(bl, blk, i)
                         /\ open_inodes[i].cnt \in Nat
                         /\ open_inodes[i].cnt > 0 => open_inodes[i].inode = [size |-> sz[i], blk |-> bl[i]]

LEMMA BeforeCall ==
    ASSUME TypeOK, NEW D, At(D)
    PROVE  \E bl, blk, ib, bb, sz : Before(bl, blk, ib, bb, sz, D)
<1>1. PICK bl, blk, ib, bb, sz : bl = NowBl /\ blk = d_block /\ ib = d_ibits /\ bb = d_bbits /\ sz = NowSz
  OBVIOUS
<1>2. Now = Disk(bl, blk, ib, bb, sz)
  BY <1>1 DEF Now
<1>3. \A i \in Inodes : /\ inode(i) = [size |-> sz[i], blk |-> bl[i]] /\ inode(i).blk = bl[i]
                        /\ inode(i).size = sz[i] /\ entries(i) = Ent(bl, blk, i)
  BY <1>1, InodeNow
<1>4. \A i \in Inodes : /\ open_inodes[i].cnt \in Nat
                        /\ open_inodes[i].cnt > 0 => open_inodes[i].inode = [size |-> sz[i], blk |-> bl[i]]
  BY <1>1, RecParts DEF TypeOK, At, MemOk
<1>5. Good(bl, blk, ib, bb, sz, D) /\ FilesOk(ib, D) /\ CountsOk(D) /\ cwd_inode_nr \in D
  BY <1>1 DEF At, RefsOk
<1>6. inode_bitmap = ib /\ block_bitmap = Mounted(bb) /\ Plain(bl)
  BY <1>1, MemList
<1>7. Before(bl, blk, ib, bb, sz, D)
  BY <1>1, <1>2, <1>3, <1>4, <1>5, <1>6 DEF Before
<1> QED
  BY <1>7

(* The change of an inode in memory leaves the counts alone. *)
LEMMA CountsSame ==
    ASSUME NEW D, CountsOk(D), D \subseteq Inodes, dirs' = dirs, file_table' = file_table,
           \A i \in Inodes : open_inodes'[i].cnt = open_inodes[i].cnt
    PROVE  CountsOk(D)'
<1>1. \A i : Refs(i)' = Refs(i)
  BY DEF Refs
<1> QED
  BY <1>1 DEF CountsOk

LEMMA FileWritten ==
    ASSUME TypeOK, Quiet, mount_loads, NEW D, At(D), NInodes <= 256, NEW fd \in Fds, sys_write(fd)
    PROVE  FsInv'
<1>0. PICK bl, blk, ib, bb, sz : Before(bl, blk, ib, bb, sz, D)
  BY BeforeCall
<1>1. PICK i, b, v : i = file_table[fd_table[fd]].ino /\ b = block_bitmap_alloc /\ v = [size |-> 1, blk |-> b]
  OBVIOUS
<1>2. /\ fd_table[fd] # Nil /\ BlockLeft /\ inode(i).blk = Nil
      /\ block_bitmap' = block_bitmap \union {b} /\ open_inodes' = changed(open_inodes, i, v)
      /\ checked(b # 0, <<sync_block_bits(block_bitmap \union {b}), inode_sync(i, v)>>)
      /\ UNCHANGED <<disk, inode_bitmap, files, cwd_inode_nr, dirs, mount_loads>>
  BY <1>1 DEF sys_write
<1>3. /\ Good(bl, blk, ib, bb, sz, D) /\ FilesOk(ib, D) /\ CountsOk(D) /\ cwd_inode_nr \in D
      /\ inode_bitmap = ib /\ block_bitmap = bb /\ Now = Disk(bl, blk, ib, bb, sz)
      /\ \A j \in Inodes : /\ inode(j).blk = bl[j] /\ open_inodes[j].cnt \in Nat
                           /\ open_inodes[j].cnt > 0 => open_inodes[j].inode = [size |-> sz[j], blk |-> bl[j]]
  BY <1>0 DEF Before, Mounted
<1>4. /\ bl \in [Inodes -> Blocks \union {Nil}] /\ sz \in [Inodes -> Int] /\ D \subseteq Inodes
      /\ ib \subseteq Inodes /\ bb \subseteq Blocks /\ 0 \in bb
  BY <1>3, GoodFacts DEF TypedDisk
<1>5. i \in ib /\ i \notin D /\ i \in Inodes /\ bl[i] = Nil
  BY <1>1, <1>2, <1>3, <1>4 DEF FilesOk, TypeOK
<1>6. b \in Blocks /\ b \notin bb /\ b # 0
  BY <1>1, <1>2, <1>3, <1>4, FreeBlock
<1>6a. kernel' = "up" /\ todo' = <<sync_block_bits(block_bitmap \union {b}), inode_sync(i, v)>>
  BY <1>2, <1>6 DEF checked, ASSERT
<1>7. v \in InodeRec
  BY <1>1, <1>6 DEF InodeRec
<1> DEFINE bb1 == bb \union {b}
           bl1 == SetAt(bl, i, b)
           sz1 == SetAt(sz, i, 1)
<1>8. Good(bl1, blk, ib, bb1, sz1, D)
  BY <1>3, <1>5, <1>6, WriteGood
<1>9. Leads(Now', todo', Disk(bl1, blk, ib, bb1, sz1))
  <2> DEFINE v0 == Disk(bl, blk, ib, bb, sz)
             v1 == Disk(bl, blk, ib, bb1, sz)
             v2 == Disk(bl1, blk, ib, bb1, sz1)
             w1 == sync_block_bits(bb1)
             w2 == inode_sync(i, v)
  <2>1. v1 = Apply(v0, w1)
    BY Applied
  <2>2. v2 = Apply(v1, w2)
    <3>1. v = Inode(1, b)
      BY <1>1 DEF Inode
    <3> QED
      BY <1>5, <3>1, AppliedInode
  <2>3. Safe(v0) /\ Safe(v1) /\ Safe(v2)
    <3>1. CrashOk(bl, blk, ib, bb, D)
      BY <1>3, GoodIsSafe
    <3>2. CrashOk(bl, blk, ib, bb1, D)
      BY <3>1, MoreBlocksSafe
    <3>3. CrashOk(bl1, blk, ib, bb1, D)
      BY <1>8, GoodIsSafe
    <3> QED
      BY <3>1, <3>2, <3>3, SafeDisk
  <2>4. Now' = v0 /\ todo' = <<w1, w2>>
    <3>1. Now' = Now
      BY <1>2 DEF Now, NowBl, NowSz, disk, Disk
    <3> QED
      BY <1>3, <1>6a, <3>1
  <2> HIDE DEF v0, v1, v2, w1, w2
  <2>5. << >> \in Seq({w1, w2}) /\ <<w2>> \in Seq({w1, w2})
    OBVIOUS
  <2>6. Leads(v2, << >>, v2)
    BY <2>3, LeadsNowhere
  <2>7. Leads(v1, <<w2>>, v2)
    BY <2>2, <2>3, <2>5, <2>6, LeadsFirst, ConsOf
  <2>8. Leads(v0, <<w1, w2>>, v2)
    BY <2>1, <2>3, <2>5, <2>7, LeadsFirst, ConsOf
  <2> QED
    BY <2>4, <2>8 DEF v2
<1>10. /\ open_inodes' \in [Inodes -> OpenRec] /\ \A j \in Inodes \ {i} : open_inodes'[j] = open_inodes[j]
       /\ open_inodes'[i].cnt = open_inodes[i].cnt
       /\ open_inodes'[i].cnt > 0 => open_inodes'[i].inode = v
  BY <1>2, <1>5, <1>7, ChangedFacts DEF TypeOK
<1>11. d_inode' = d_inode /\ file_table' = file_table /\ fd_table' = fd_table /\ dirs' = dirs
       /\ cwd_inode_nr' = cwd_inode_nr /\ inode_bitmap' = inode_bitmap
  BY <1>2 DEF disk, files
<1>12. TypeOK'
  <2>1. todo' \in Seq(WriteSet)
    <3>1. sync_block_bits(bb1) \in WriteSet /\ inode_sync(i, v) \in WriteSet
      BY <1>4, <1>5, <1>6, <1>7, InWriteSet
    <3> QED
      BY <1>3, <1>6a, <3>1
  <2> QED
    BY <1>6a, <1>10, <1>11, <2>1 DEF TypeOK
<1>13. MemOk(bl1, ib, bb1, sz1)'
  <2>1. \A j \in Inodes : /\ bl1[j] = IF j = i THEN b ELSE bl[j]
                          /\ sz1[j] = IF j = i THEN 1 ELSE sz[j]
    BY <1>4 DEF SetAt
  <2> HIDE DEF bl1, sz1
  <2>2. \A j \in Inodes : open_inodes'[j].cnt > 0 => open_inodes'[j].inode = [size |-> sz1[j], blk |-> bl1[j]]
    BY <1>1, <1>3, <1>10, <2>1
  <2> QED
    BY <1>2, <1>3, <1>11, <2>2 DEF MemOk, Mounted, Plain
<1>14. RefsOk(ib, D)'
  <2>1. CountsOk(D)'
    BY <1>3, <1>4, <1>10, <1>11, CountsSame
  <2> QED
    BY <1>3, <1>11, <2>1 DEF RefsOk, FilesOk
<1> HIDE DEF bl1, sz1, bb1
<1> QED
  BY <1>8, <1>9, <1>12, <1>13, <1>14, CallInv

(* The directory's inode with one entry more or less *)
LEMMA GrownInode ==
    ASSUME NEW bl, NEW blk, NEW ib, NEW bb, NEW sz, NEW D, Before(bl, blk, ib, bb, sz, D), NEW p \in Inodes
    PROVE  grown(p) = Inode(sz[p] + 1, bl[p]) /\ shrunk(p) = Inode(sz[p] - 1, bl[p])
<1>1. inode(p) = [size |-> sz[p], blk |-> bl[p]]
  BY DEF Before
<1> QED
  BY <1>1 DEF grown, shrunk, Inode

LEMMA SizeKept ==
    ASSUME NEW bl \in [Inodes -> Blocks \union {Nil}], NEW sz \in [Inodes -> Int], NEW p \in Inodes
    PROVE  /\ SetAt(bl, p, bl[p]) = bl
           /\ SetAt(sz, p, sz[p] + 1) = Grow(sz, p) /\ SetAt(sz, p, sz[p] - 1) = Shrink(sz, p)
           /\ Grow(sz, p) \in [Inodes -> Int] /\ Shrink(sz, p) \in [Inodes -> Int]
<1>1. SetAt(bl, p, bl[p]) = bl
  BY DEF SetAt
<1>2. SetAt(sz, p, sz[p] + 1) = Grow(sz, p) /\ SetAt(sz, p, sz[p] - 1) = Shrink(sz, p)
  BY DEF SetAt, Grow, Shrink
<1>3. Grow(sz, p) \in [Inodes -> Int] /\ Shrink(sz, p) \in [Inodes -> Int]
  BY DEF Grow, Shrink
<1> QED
  BY <1>1, <1>2, <1>3

(* A file that is made *)
LEMMA FileCreated ==
    ASSUME FsInv, TypeOK, Quiet, NEW D, At(D), NInodes <= 256, NEW r, r.parent \in D, NEW name,
           NewName(NowBl, d_block, r.parent, name), NEW write \in BOOLEAN, file_create(r, name, write)
    PROVE  FsInv'
<1>0. PICK bl, blk, ib, bb, sz : Before(bl, blk, ib, bb, sz, D)
  BY BeforeCall
<1>1. PICK i, s, p, e : i = inode_bitmap_alloc /\ s = Min(FreeSlots) /\ p = r.parent /\ e = Entry(name, i, "regular")
  OBVIOUS
<1>2. CASE FreeSlots = {}
  BY <1>2, SameCall DEF file_create
<1>3. CASE FreeSlots # {}
  <2>1. /\ InodeLeft /\ inode_bitmap' = inode_bitmap \union {i}
        /\ Taken(s, i, write) /\ pcb_fd_install(s)
        /\ open_inodes' = [changed(open_inodes, p, grown(p)) EXCEPT ![i] = opened(Blank)]
        /\ todo' = << sync_dir_entry(p, e), inode_sync(p, grown(p)), inode_sync(i, Blank),
                      sync_inode_bits(inode_bitmap \union {i}) >>
        /\ UNCHANGED <<disk, block_bitmap, cwd_inode_nr, dirs, mount_loads, kernel>>
    BY <1>1, <1>3 DEF file_create, Taken
  <2>2. /\ Good(bl, blk, ib, bb, sz, D) /\ FilesOk(ib, D) /\ CountsOk(D) /\ cwd_inode_nr \in D
        /\ inode_bitmap = ib /\ block_bitmap = Mounted(bb) /\ Plain(bl) /\ Now = Disk(bl, blk, ib, bb, sz)
        /\ bl = NowBl /\ blk = d_block
        /\ \A j \in Inodes : /\ inode(j).blk = bl[j] /\ open_inodes[j].cnt \in Nat /\ entries(j) = Ent(bl, blk, j)
                             /\ open_inodes[j].cnt > 0 => open_inodes[j].inode = [size |-> sz[j], blk |-> bl[j]]
    BY <1>0 DEF Before
  <2>3. /\ bl \in [Inodes -> Blocks \union {Nil}] /\ sz \in [Inodes -> Int] /\ D \subseteq Inodes /\ D \subseteq ib
        /\ ib \subseteq Inodes /\ bb \subseteq Blocks /\ p \in D /\ p \in Inodes /\ bl[p] \in Blocks
    BY <1>1, <2>2, GoodFacts DEF TypedDisk
  <2>4. i \in Inodes /\ i \notin ib /\ i \notin D /\ i # p
    BY <1>1, <2>1, <2>2, <2>3, FreeInode
  <2>5. bl[i] = Nil /\ sz[i] = 0
    BY <2>2, <2>4 DEF Good
  <2>6. e \in EntrySet /\ e.ino = i /\ e.type = "regular" /\ e.name = name /\ NewName(bl, blk, p, e.name)
    <3>1. name \in Names /\ NewName(bl, blk, p, name)
      BY <1>1, <2>2 DEF NewName
    <3> QED
      BY <1>1, <2>4, <3>1, EntryTyped
  <2> DEFINE blk1 == AddEntry(bl, blk, p, e)
             sz1 == Grow(sz, p)
             ib1 == ib \union {e.ino}
  <2>7. Good(bl, blk1, ib1, bb, sz1, D)
    BY <2>2, <2>3, <2>4, <2>6, CreateGood
  <2>8. CrashOk(bl, blk1, ib, bb, D)
    BY <2>2, <2>3, <2>4, <2>6, CreateSafe
  <2>9. Leads(Now', todo', Disk(bl, blk1, ib1, bb, sz1))
    <3> DEFINE v0 == Disk(bl, blk, ib, bb, sz)
               v1 == Disk(bl, blk1, ib, bb, sz)
               v2 == Disk(bl, blk1, ib, bb, sz1)
               v4 == Disk(bl, blk1, ib1, bb, sz1)
               w1 == write_block(bl[p], Ent(bl, blk, p) \union {e})
               w2 == inode_sync(p, Inode(sz[p] + 1, bl[p]))
               w3 == inode_sync(i, Inode(0, Nil))
               w4 == sync_inode_bits(ib1)
    <3>1. v1 = Apply(v0, w1)
      BY Applied DEF AddEntry
    <3>2. v2 = Apply(v1, w2)
      <4>1. Apply(v1, w2) = Disk(SetAt(bl, p, bl[p]), blk1, ib, bb, SetAt(sz, p, sz[p] + 1))
        <5> HIDE DEF blk1
        <5> QED
          BY <2>3, AppliedInode
      <4> QED
        BY <2>3, <4>1, SizeKept
    <3>3. v2 = Apply(v2, w3)
      <4>1. Apply(v2, w3) = Disk(SetAt(bl, i, Nil), blk1, ib, bb, SetAt(sz1, i, 0))
        <5> HIDE DEF blk1, sz1
        <5> QED
          BY <2>4, AppliedInode
      <4>2. sz1 \in [Inodes -> Int] /\ sz1[i] = 0
        BY <2>3, <2>4, <2>5 DEF Grow
      <4>3. SetAt(sz1, i, 0) = sz1
        <5> HIDE DEF sz1
        <5>1. SetAt(sz1, i, sz1[i]) = sz1
          BY <4>2, <2>4, SetNothing
        <5> QED
          BY <4>2, <5>1
      <4>4. SetAt(bl, i, Nil) = bl
        <5>1. SetAt(bl, i, bl[i]) = bl
          BY <2>3, <2>4, SetNothing
        <5> QED
          BY <2>5, <5>1
      <4> QED
        BY <4>1, <4>3, <4>4
    <3>4. v4 = Apply(v2, w4)
      BY Applied
    <3>5. Safe(v0) /\ Safe(v1) /\ Safe(v2) /\ Safe(v4)
      <4>1. CrashOk(bl, blk, ib, bb, D)
        BY <2>2, GoodIsSafe
      <4>2. CrashOk(bl, blk1, ib1, bb, D)
        BY <2>7, GoodIsSafe
      <4> HIDE DEF blk1, sz1, ib1
      <4> QED
        BY <4>1, <4>2, <2>8, SafeDisk
    <3>6. Now' = v0 /\ todo' = <<w1, w2, w3, w4>>
      <4>1. Now' = Now
        BY <2>1 DEF Now, NowBl, NowSz, disk, Disk
      <4>2. sync_dir_entry(p, e) = w1
        BY <2>2, <2>3 DEF sync_dir_entry
      <4>3. grown(p) = Inode(sz[p] + 1, bl[p])
        BY <1>0, <2>3, GrownInode
      <4>4. Blank = Inode(0, Nil)
        BY DEF Blank, Inode
      <4> QED
        BY <2>1, <2>2, <2>6, <4>1, <4>2, <4>3, <4>4
    <3> HIDE DEF v0, v1, v2, v4, w1, w2, w3, w4
    <3> DEFINE T == {w1, w2, w3, w4}
    <3>7. << >> \in Seq(T) /\ <<w4>> \in Seq(T) /\ <<w3, w4>> \in Seq(T) /\ <<w2, w3, w4>> \in Seq(T)
      OBVIOUS
    <3> HIDE DEF T
    <3>8. Leads(v4, << >>, v4)
      BY <3>5, LeadsNowhere
    <3>9. Leads(v2, <<w4>>, v4)
      BY <3>4, <3>5, <3>7, <3>8, LeadsFirst, ConsOf
    <3>10. Leads(v2, <<w3, w4>>, v4)
      BY <3>3, <3>5, <3>7, <3>9, LeadsFirst, ConsOf
    <3>11. Leads(v1, <<w2, w3, w4>>, v4)
      BY <3>2, <3>5, <3>7, <3>10, LeadsFirst, ConsOf
    <3>12. Leads(v0, <<w1, w2, w3, w4>>, v4)
      BY <3>1, <3>5, <3>7, <3>11, LeadsFirst, ConsOf
    <3> QED
      BY <3>6, <3>12 DEF v4
  <2>10. s \in Slots /\ file_table[s].ino = Nil /\ Installed(s)
    BY <1>1, <1>3, <2>1, FreeSlot, Installs
  <2>11. /\ FilesOk(ib1, D)'
         /\ file_table' \in [Slots -> [ino : Inodes \union {Nil}, write : BOOLEAN]]
         /\ fd_table' \in [Fds -> Slots \union {Nil}]
         /\ Cardinality(Refs(i)') = Cardinality(Refs(i)) + 1
         /\ \A j \in Inodes : j # i => Refs(j)' = Refs(j)
    <3>1. ib \subseteq ib1 /\ i \in ib1
      BY <2>6
    <3> HIDE DEF ib1
    <3> QED
      BY <2>1, <2>2, <2>4, <2>10, <3>1, SlotTaken
  <2>12. Cardinality(Refs(i)) = 0
    <3>1. Refs(i) = {}
      BY <2>2, <2>4, FsBounds DEF FilesOk, Refs
    <3> QED
      BY <3>1, FS_EmptySet
  <2>13. grown(p) = [size |-> sz1[p], blk |-> bl[p]] /\ grown(p) \in InodeRec
    <3>1. sz1[p] = sz[p] + 1 /\ sz[p] + 1 \in Int
      BY <2>3 DEF Grow
    <3>2. grown(p) = Inode(sz[p] + 1, bl[p])
      BY <1>0, <2>3, GrownInode
    <3> QED
      BY <2>3, <3>1, <3>2 DEF Inode, InodeRec
  <2>14. /\ open_inodes' \in [Inodes -> OpenRec]
         /\ open_inodes'[i].cnt = 1 /\ open_inodes'[i].inode = Blank
         /\ \A j \in Inodes \ {i} : /\ open_inodes'[j].cnt = open_inodes[j].cnt
                                    /\ j # p => open_inodes'[j] = open_inodes[j]
         /\ open_inodes'[p].cnt > 0 => open_inodes'[p].inode = grown(p)
    <3>1. PICK q : q = changed(open_inodes, p, grown(p))
      OBVIOUS
    <3>2. /\ q \in [Inodes -> OpenRec] /\ \A j \in Inodes \ {p} : q[j] = open_inodes[j]
          /\ q[p].cnt = open_inodes[p].cnt
          /\ q[p].cnt > 0 => q[p].inode = grown(p)
      <4>1. open_inodes \in [Inodes -> OpenRec] /\ p \in Inodes /\ grown(p) \in InodeRec
        BY <2>3, <2>13 DEF TypeOK
      <4> QED
        BY ONLY <4>1, <3>1, ChangedFacts
    <3>3. opened(Blank) \in OpenRec /\ opened(Blank).cnt = 1 /\ opened(Blank).inode = Blank
      BY ClosedTyped
    <3>4. open_inodes' = [q EXCEPT ![i] = opened(Blank)]
      BY <2>1, <3>1
    <3> QED
      BY <2>3, <2>4, <3>2, <3>3, <3>4
  <2>15. dirs' = dirs /\ cwd_inode_nr' = cwd_inode_nr /\ d_inode' = d_inode /\ block_bitmap' = block_bitmap /\ kernel' = kernel
    BY <2>1 DEF disk
  <2>16. TypeOK'
    <3>1. todo' \in Seq(WriteSet)
      <4>1. Ent(bl, blk, p) \subseteq EntrySet
        BY <2>2, <2>3, GoodFacts
      <4>2. sync_dir_entry(p, e) \in WriteSet
        BY <2>2, <2>3, <2>6, <4>1, InWriteSet DEF sync_dir_entry
      <4>3. inode_sync(p, grown(p)) \in WriteSet /\ inode_sync(i, Blank) \in WriteSet
        BY <2>3, <2>4, <2>13, ClosedTyped, InWriteSet
      <4>4. sync_inode_bits(inode_bitmap \union {i}) \in WriteSet
        BY <2>2, <2>3, <2>4, InWriteSet
      <4> QED
        BY <2>1, <4>2, <4>3, <4>4
    <3> QED
      BY <2>11, <2>14, <2>15, <3>1 DEF TypeOK
  <2>17. MemOk(bl, ib1, bb, sz1)'
    <3>1. \A j \in Inodes : sz1[j] = IF j = p THEN sz[p] + 1 ELSE sz[j]
      BY <2>3 DEF Grow
    <3>2. sz1[i] = 0 /\ Blank = [size |-> 0, blk |-> Nil]
      BY <3>1, <2>4, <2>5 DEF Blank
    <3> HIDE DEF sz1
    <3>3. ASSUME NEW j \in Inodes, open_inodes'[j].cnt > 0 PROVE open_inodes'[j].inode = [size |-> sz1[j], blk |-> bl[j]]
      <4>1. CASE j = i
        BY <2>5, <2>14, <3>2, <4>1
      <4>2. CASE j = p
        BY <2>13, <2>14, <3>3, <4>2
      <4>3. CASE j # i /\ j # p
        BY <2>2, <2>14, <3>1, <3>3, <4>3
      <4> QED
        BY <4>1, <4>2, <4>3
    <3> QED
      BY <2>1, <2>2, <2>6, <2>15, <3>3 DEF MemOk, Mounted, Plain
  <2>18. CountsOk(D)'
    <3>1. ASSUME NEW j \in Inodes \ D PROVE open_inodes'[j].cnt = Cardinality(Refs(j)') /\ dirs'[j] = 0
      <4>1. open_inodes[j].cnt = Cardinality(Refs(j)) /\ dirs[j] = 0
        BY <2>2 DEF CountsOk
      <4> QED
        BY <2>11, <2>12, <2>14, <2>15, <4>1
    <3>2. ASSUME NEW j \in D PROVE open_inodes'[j].cnt >= dirs'[j] + (IF j = 0 THEN 1 ELSE 0)
      BY <2>2, <2>3, <2>4, <2>14, <2>15 DEF CountsOk
    <3> QED
      BY <3>1, <3>2 DEF CountsOk
  <2>19. RefsOk(ib1, D)'
    BY <2>2, <2>11, <2>15, <2>18 DEF RefsOk
  <2> HIDE DEF blk1, sz1, ib1
  <2> QED
    BY <2>7, <2>9, <2>16, <2>17, <2>19, CallInv
<1> QED
  BY <1>2, <1>3

(* remove's writes, without and with a block *)
LEMMA Concat4 ==
    ASSUME NEW T, NEW a \in T, NEW b \in T, NEW d \in T, NEW e \in T
    PROVE  (<<a, b>> \o << >>) \o <<d, e>> = <<a, b, d, e>>
<1>1. PICK s, t : s = <<a, b>> /\ t = <<a, b, d, e>>
  OBVIOUS
<1>2. s \in Seq(T) /\ Len(s) = 2 /\ s[1] = a /\ s[2] = b
  BY <1>1
<1>3. t \in Seq(T) /\ Len(t) = 4 /\ t[1] = a /\ t[2] = b /\ t[3] = d /\ t[4] = e
  BY <1>1
<1>4. s \o << >> = s
  BY <1>2, ConcatEmptySeq
<1>5. PICK v, u : v = <<d, e>> /\ u = s \o v
  OBVIOUS
<1>6. /\ u \in Seq(T) /\ Len(u) = Len(s) + Len(v) /\ Len(v) = 2 /\ v[1] = d /\ v[2] = e
      /\ \A k \in 1..(Len(s) + Len(v)) : u[k] = IF k <= Len(s) THEN s[k] ELSE v[k - Len(s)]
  <2>1. v \in Seq(T) /\ Len(v) = 2 /\ v[1] = d /\ v[2] = e
    BY <1>5
  <2> QED
    BY <1>2, <1>5, <2>1, ConcatProperties
<1>7. Len(u) = 4 /\ u[1] = a /\ u[2] = b /\ u[3] = d /\ u[4] = e
  BY <1>2, <1>6
<1>8. \A k \in 1..Len(u) : u[k] = t[k]
  <2>1. \A k \in 1..4 : k = 1 \/ k = 2 \/ k = 3 \/ k = 4
    OBVIOUS
  <2> QED
    BY <1>3, <1>7, <2>1
<1>9. u = t
  BY <1>3, <1>6, <1>7, <1>8, SeqEqual
<1> QED
  BY <1>1, <1>4, <1>5, <1>9

LEMMA Concat5 ==
    ASSUME NEW T, NEW a \in T, NEW b \in T, NEW c \in T, NEW d \in T, NEW e \in T
    PROVE  (<<a, b>> \o <<c>>) \o <<d, e>> = <<a, b, c, d, e>>
<1>1. PICK r, s, t : r = <<a, b>> /\ s = Append(r, c) /\ t = <<a, b, c, d, e>>
  OBVIOUS
<1>2. r \in Seq(T) /\ Len(r) = 2 /\ r[1] = a /\ r[2] = b
  BY <1>1
<1>3. s \in Seq(T) /\ Len(s) = 3 /\ s[1] = a /\ s[2] = b /\ s[3] = c
  BY <1>1, <1>2
<1>4. t \in Seq(T) /\ Len(t) = 5 /\ t[1] = a /\ t[2] = b /\ t[3] = c /\ t[4] = d /\ t[5] = e
  BY <1>1
<1>5. r \o <<c>> = s
  BY <1>1, <1>2, AppendIsConcat
<1>6. PICK v, u : v = <<d, e>> /\ u = s \o v
  OBVIOUS
<1>7. /\ u \in Seq(T) /\ Len(u) = Len(s) + Len(v) /\ Len(v) = 2 /\ v[1] = d /\ v[2] = e
      /\ \A k \in 1..(Len(s) + Len(v)) : u[k] = IF k <= Len(s) THEN s[k] ELSE v[k - Len(s)]
  <2>1. v \in Seq(T) /\ Len(v) = 2 /\ v[1] = d /\ v[2] = e
    BY <1>6
  <2> QED
    BY <1>3, <1>6, <2>1, ConcatProperties
<1>8. Len(u) = 5 /\ u[1] = a /\ u[2] = b /\ u[3] = c /\ u[4] = d /\ u[5] = e
  BY <1>3, <1>7
<1>9. \A k \in 1..Len(u) : u[k] = t[k]
  <2>1. \A k \in 1..5 : k = 1 \/ k = 2 \/ k = 3 \/ k = 4 \/ k = 5
    OBVIOUS
  <2> QED
    BY <1>4, <1>8, <2>1
<1>10. u = t
  BY <1>4, <1>7, <1>8, <1>9, SeqEqual
<1> QED
  BY <1>1, <1>5, <1>6, <1>10

(* A file that is removed *)
LEMMA Removed ==
    ASSUME TypeOK, Quiet, NEW D, At(D), NInodes <= 256, NEW p, NEW e,
           Link(NowBl, d_block, D, p, e), e.type = "regular", ~in_use(e.ino), remove(p, e.ino)
    PROVE  FsInv'
<1>0. PICK bl, blk, ib, bb, sz : Before(bl, blk, ib, bb, sz, D)
  BY BeforeCall
<1>1. PICK i, b : i = e.ino /\ b = bl[i]
  OBVIOUS
<1>2. /\ Good(bl, blk, ib, bb, sz, D) /\ FilesOk(ib, D) /\ CountsOk(D) /\ cwd_inode_nr \in D
      /\ inode_bitmap = ib /\ block_bitmap = Mounted(bb) /\ Plain(bl) /\ Now = Disk(bl, blk, ib, bb, sz)
      /\ bl = NowBl /\ blk = d_block /\ Link(bl, blk, D, p, e)
      /\ \A j \in Inodes : /\ inode(j).blk = bl[j] /\ open_inodes[j].cnt \in Nat /\ entries(j) = Ent(bl, blk, j)
                           /\ open_inodes[j].cnt > 0 => open_inodes[j].inode = [size |-> sz[j], blk |-> bl[j]]
  BY <1>0 DEF Before
<1>3. /\ bl \in [Inodes -> Blocks \union {Nil}] /\ sz \in [Inodes -> Int] /\ D \subseteq Inodes /\ D \subseteq ib
      /\ ib \subseteq Inodes /\ bb \subseteq Blocks /\ p \in D /\ p \in Inodes /\ bl[p] \in Blocks
      /\ i \in ib /\ i \in Inodes /\ i \notin D /\ i # p /\ Ent(bl, blk, p) \subseteq EntrySet
  <2>1. p \in D /\ e.type # "directory"
    BY DEF Link
  <2> QED
    BY <1>1, <1>2, <2>1, GoodFacts DEF TypedDisk
<1>4. inode(i).blk = b
  BY <1>1, <1>2, <1>3
<1> DEFINE ib1 == ib \ {e.ino}
           bb1 == bb \ {bl[e.ino]}
           blk1 == DropEntry(bl, blk, p, e)
           szp == Shrink(sz, p)
           bl1 == SetAt(bl, e.ino, Nil)
           sz1 == SetAt(Shrink(sz, p), e.ino, 0)
           w1 == write_block(bl[p], Ent(bl, blk, p) \ {e})
           w2 == inode_sync(p, Inode(sz[p] - 1, bl[p]))
           w3 == sync_block_bits(bb1)
           w4 == sync_inode_bits(ib1)
           w5 == inode_delete(i)
<1>5. clear_dir_entry(p, i) = w1
  <2>1. \A f \in Ent(bl, blk, p) : (f.ino = i /\ f.name \notin Dots) <=> f = e
    <3>1. \A f \in Ent(bl, blk, p) : f.ino = i /\ f.name \notin Dots => Link(bl, blk, D, p, f)
      BY <1>3 DEF Link
    <3>2. e \in Ent(bl, blk, p) /\ e.name \notin Dots /\ e.ino = i
      BY <1>1, <1>2 DEF Link
    <3> QED
      BY <1>1, <1>2, <3>1, <3>2 DEF Good
  <2>2. {f \in Ent(bl, blk, p) : f.ino # i \/ f.name \in Dots} = Ent(bl, blk, p) \ {e}
    BY <2>1
  <2> QED
    BY <1>2, <1>3, <2>2 DEF clear_dir_entry
<1>6. shrunk(p) = Inode(sz[p] - 1, bl[p]) /\ shrunk(p) \in InodeRec
  <2>1. shrunk(p) = Inode(sz[p] - 1, bl[p])
    BY <1>0, <1>3, GrownInode
  <2> QED
    BY <1>3, <2>1 DEF Inode, InodeRec
<1>6a. OnlyName(p, i)
  <2>1. \A f \in named(p, i) : Link(bl, blk, D, p, f) /\ f.ino = i
    BY <1>2, <1>3 DEF named, Link
  <2> QED
    BY <1>2, <2>1 DEF OnlyName, Good
<1>6b. (b = Nil \/ mount_loads) /\ block_bitmap \ {b} = Mounted(bb1) /\ Plain(bl1)
  <2>1. i # 0
    BY <1>2, <1>3, GoodFacts
  <2>2. b = Nil \/ mount_loads
    BY <1>1, <1>2, <1>3, <2>1 DEF Plain
  <2>3. block_bitmap \ {b} = Mounted(bb1)
    BY <1>1, <1>2 DEF Mounted
  <2>4. Plain(bl1)
    BY <1>1, <1>2, <1>3 DEF Plain, SetAt
  <2> QED
    BY <2>2, <2>3, <2>4
<1>7. /\ inode_bitmap' = ib1 /\ block_bitmap' = Mounted(bb1) /\ open_inodes' = changed(open_inodes, p, shrunk(p))
      /\ kernel' = "up" /\ UNCHANGED <<disk, files, cwd_inode_nr, dirs, mount_loads>>
      /\ todo' = <<clear_dir_entry(p, i), inode_sync(p, shrunk(p))>>
                  \o (IF b = Nil THEN << >> ELSE <<sync_block_bits(block_bitmap \ {b})>>)
                  \o <<sync_inode_bits(inode_bitmap \ {i}), inode_delete(i)>>
  BY <1>1, <1>2, <1>4, <1>6a, <1>6b DEF remove, checked, ASSERT
<1>8. b = Nil => bb1 = bb
  BY <1>1, <1>3, FsBounds
<1>9. todo' = IF b = Nil THEN <<w1, w2, w4, w5>> ELSE <<w1, w2, w3, w4, w5>>
  <2>1. todo' = <<w1, w2>> \o (IF b = Nil THEN << >> ELSE <<w3>>) \o <<w4, w5>>
    <3>1. b # Nil => sync_block_bits(block_bitmap \ {b}) = w3
      BY <1>6b DEF Mounted
    <3>2. sync_inode_bits(inode_bitmap \ {i}) = w4
      BY <1>1, <1>2
    <3> HIDE DEF w1, w2, w3, w4, w5
    <3>3. inode_delete(i) = w5
      BY DEF w5
    <3>4. inode_sync(p, shrunk(p)) = w2
      BY <1>6 DEF w2
    <3> QED
      BY <1>5, <1>7, <3>1, <3>2, <3>3, <3>4
  <2> HIDE DEF w1, w2, w3, w4, w5
  <2>2. PICK T : w1 \in T /\ w2 \in T /\ w3 \in T /\ w4 \in T /\ w5 \in T
    <3>1. PICK T : T = {w1, w2, w3, w4, w5}
      OBVIOUS
    <3> QED
      BY <3>1
  <2>3. (<<w1, w2>> \o << >>) \o <<w4, w5>> = <<w1, w2, w4, w5>>
    BY <2>2, Concat4
  <2>4. (<<w1, w2>> \o <<w3>>) \o <<w4, w5>> = <<w1, w2, w3, w4, w5>>
    BY <2>2, Concat5
  <2> QED
    BY <2>1, <2>3, <2>4, Zenon
<1>10. Good(bl1, blk1, ib1, bb1, sz1, D)
  BY <1>2, RemoveGood
<1>11. Leads(Now', todo', Disk(bl1, blk1, ib1, bb1, sz1))
  <2> DEFINE v0 == Disk(bl, blk, ib, bb, sz)
             v1 == Disk(bl, blk1, ib, bb, sz)
             v2 == Disk(bl, blk1, ib, bb, szp)
             v3 == Disk(bl, blk1, ib, bb1, szp)
             v4 == Disk(bl, blk1, ib1, bb1, szp)
             v5 == Disk(bl1, blk1, ib1, bb1, sz1)
  <2>1. v1 = Apply(v0, w1)
    BY Applied DEF DropEntry
  <2>2. v2 = Apply(v1, w2)
    <3>1. Apply(v1, w2) = Disk(SetAt(bl, p, bl[p]), blk1, ib, bb, SetAt(sz, p, sz[p] - 1))
      <4> HIDE DEF blk1
      <4> QED
        BY <1>3, AppliedInode
    <3> QED
      BY <1>3, <3>1, SizeKept
  <2>3. v3 = Apply(v2, w3) /\ v4 = Apply(v3, w4)
    BY Applied
  <2>4. v5 = Apply(v4, w5)
    <3>1. Apply(v4, w5) = Disk(SetAt(bl, i, Nil), blk1, ib1, bb1, SetAt(szp, i, 0))
      BY AppliedDelete
    <3> QED
      BY <1>1, <3>1
  <2>5. Safe(v0) /\ Safe(v1) /\ Safe(v2) /\ Safe(v3) /\ Safe(v4) /\ Safe(v5)
    <3>1. CrashOk(bl, blk, ib, bb, D)
      BY <1>2, GoodIsSafe
    <3>2. CrashOk(bl1, blk1, ib1, bb1, D)
      BY <1>10, GoodIsSafe
    <3>3. CrashOk(bl, blk1, ib, bb, D)
      BY <1>2, RemoveSafe
    <3>4. CrashOk(bl, blk1, ib, bb1, D)
      BY <1>2, RemoveSafe
    <3>5. CrashOk(bl, blk1, ib1, bb1, D)
      BY <1>2, RemoveSafe
    <3> HIDE DEF blk1, sz1, ib1, bb1, szp, bl1
    <3> QED
      BY <3>1, <3>2, <3>3, <3>4, <3>5, SafeDisk
  <2>6. Now' = v0
    <3>1. Now' = Now
      BY <1>7 DEF Now, NowBl, NowSz, disk, Disk
    <3> QED
      BY <1>2, <3>1
  <2>7. b = Nil => v3 = v2
    BY <1>8
  <2> HIDE DEF v0, v1, v2, v3, v4, v5, w1, w2, w3, w4, w5
  <2> DEFINE T == {w1, w2, w3, w4, w5}
  <2>8. /\ << >> \in Seq(T) /\ <<w5>> \in Seq(T) /\ <<w4, w5>> \in Seq(T) /\ <<w3, w4, w5>> \in Seq(T)
        /\ <<w2, w4, w5>> \in Seq(T) /\ <<w2, w3, w4, w5>> \in Seq(T)
    OBVIOUS
  <2> HIDE DEF T
  <2>9. Leads(v5, << >>, v5)
    BY <2>5, LeadsNowhere
  <2>10. Leads(v4, <<w5>>, v5)
    BY <2>4, <2>5, <2>8, <2>9, LeadsFirst, ConsOf
  <2>11. Leads(v3, <<w4, w5>>, v5)
    BY <2>3, <2>5, <2>8, <2>10, LeadsFirst, ConsOf
  <2>12. CASE b = Nil
    <3>1. Leads(v2, <<w4, w5>>, v5)
      BY <2>7, <2>11, <2>12
    <3>2. Leads(v1, <<w2, w4, w5>>, v5)
      BY <2>2, <2>5, <2>8, <3>1, LeadsFirst, ConsOf
    <3>3. Leads(v0, <<w1, w2, w4, w5>>, v5)
      BY <2>1, <2>5, <2>8, <3>2, LeadsFirst, ConsOf
    <3> QED
      BY <1>9, <2>6, <2>12, <3>3 DEF v5
  <2>13. CASE b # Nil
    <3>1. Leads(v2, <<w3, w4, w5>>, v5)
      BY <2>3, <2>5, <2>8, <2>11, LeadsFirst, ConsOf
    <3>2. Leads(v1, <<w2, w3, w4, w5>>, v5)
      BY <2>2, <2>5, <2>8, <3>1, LeadsFirst, ConsOf
    <3>3. Leads(v0, <<w1, w2, w3, w4, w5>>, v5)
      BY <2>1, <2>5, <2>8, <3>2, LeadsFirst, ConsOf
    <3> QED
      BY <1>9, <2>6, <2>13, <3>3 DEF v5
  <2> QED
    BY <2>12, <2>13
<1>12. /\ open_inodes' \in [Inodes -> OpenRec] /\ \A j \in Inodes \ {p} : open_inodes'[j] = open_inodes[j]
       /\ open_inodes'[p].cnt = open_inodes[p].cnt
       /\ open_inodes'[p].cnt > 0 => open_inodes'[p].inode = shrunk(p)
  <2>1. open_inodes \in [Inodes -> OpenRec] /\ p \in Inodes /\ shrunk(p) \in InodeRec
        /\ open_inodes' = changed(open_inodes, p, shrunk(p))
    BY <1>3, <1>6, <1>7 DEF TypeOK
  <2> QED
    BY ONLY <2>1, ChangedFacts
<1>13. dirs' = dirs /\ cwd_inode_nr' = cwd_inode_nr /\ d_inode' = d_inode /\ kernel' = "up"
       /\ file_table' = file_table /\ fd_table' = fd_table
  BY <1>7 DEF disk, files
<1>14. TypeOK'
  <2>1. todo' \in Seq(WriteSet)
    <3>1. Ent(bl, blk, p) \ {e} \in SUBSET EntrySet /\ ib1 \in SUBSET Inodes /\ bb1 \in SUBSET Blocks
      BY <1>3
    <3>2. w1 \in WriteSet /\ w2 \in WriteSet /\ w3 \in WriteSet /\ w4 \in WriteSet /\ w5 \in WriteSet
      BY <1>3, <1>6, <3>1, InWriteSet
    <3> HIDE DEF w1, w2, w3, w4, w5
    <3> QED
      BY <1>9, <3>2
  <2> QED
    BY <1>12, <1>13, <2>1 DEF TypeOK
<1>15. Refs(i) = {} /\ open_inodes[i].cnt = 0
  <2>1. Refs(i) = {}
    BY <1>1 DEF in_use, Refs
  <2> QED
    BY <1>2, <1>3, <2>1, FS_EmptySet DEF CountsOk
<1>16. MemOk(bl1, ib1, bb1, sz1)'
  <2>1. \A j \in Inodes : j # i => /\ bl1[j] = bl[j]
                                   /\ sz1[j] = IF j = p THEN sz[p] - 1 ELSE sz[j]
    BY <1>1, <1>3 DEF SetAt, Shrink
  <2> HIDE DEF bl1, sz1, bb1, ib1
  <2>2. ASSUME NEW j \in Inodes, open_inodes'[j].cnt > 0 PROVE open_inodes'[j].inode = [size |-> sz1[j], blk |-> bl1[j]]
    <3>1. j # i
      BY <1>3, <1>12, <1>15, <2>2
    <3>2. CASE j = p
      BY <1>3, <1>6, <1>12, <2>1, <2>2, <3>1, <3>2 DEF Inode
    <3>3. CASE j # p
      BY <1>2, <1>12, <2>1, <2>2, <3>1, <3>3
    <3> QED
      BY <3>2, <3>3
  <2> QED
    BY <1>6b, <1>7, <2>2 DEF MemOk, Mounted, Plain
<1>17. CountsOk(D)'
  BY <1>2, <1>3, <1>12, <1>13, CountsSame
<1>18. FilesOk(ib1, D)'
  <2>1. \A s \in Slots : file_table[s].ino # e.ino
    BY DEF in_use
  <2> QED
    BY <1>2, <1>13, <2>1 DEF FilesOk
<1>19. RefsOk(ib1, D)'
  BY <1>2, <1>13, <1>17, <1>18 DEF RefsOk
<1> HIDE DEF blk1, sz1, ib1, bb1, bl1
<1> QED
  BY <1>10, <1>11, <1>14, <1>16, <1>19, CallInv

(* "." and ".." are two entries: dir_is_empty holds of no directory. *)
LEMMA NeverEmpty ==
    ASSUME TypeOK, NEW D, At(D), NEW d \in D
    PROVE  ~dir_is_empty(d)
<1>1. /\ D \subseteq Inodes /\ TypedDisk(NowBl, d_block, d_ibits, d_bbits, NowSz)
      /\ DirOk(NowBl, d_block, NowSz, D, d)
  BY GoodFacts DEF At, Good
<1>2. IsFiniteSet(Ent(NowBl, d_block, d)) /\ inode(d).size = NowSz[d]
  BY <1>1, EntTyped, InodeNow
<1>3. PICK up : DotEntries(d, up) \subseteq Ent(NowBl, d_block, d)
  BY <1>1 DEF DirOk
<1>4. /\ IsFiniteSet(DotEntries(d, up)) /\ Cardinality(DotEntries(d, up)) = 2
  BY DotsTwo
<1>5. Cardinality(DotEntries(d, up)) <= Cardinality(Ent(NowBl, d_block, d))
  BY <1>2, <1>3, FS_Subset
<1>6. Cardinality(Ent(NowBl, d_block, d)) \in Nat
  BY <1>2, FS_CardinalityType
<1> QED
  BY <1>1, <1>2, <1>4, <1>5, <1>6 DEF DirOk, dir_is_empty

(* A directory that is made *)
LEMMA DirMade ==
    ASSUME TypeOK, Quiet, mount_loads, NEW D, At(D), NInodes <= 256, NEW p \in D, NEW name,
           NewName(NowBl, d_block, p, name), make_dir(p, name)
    PROVE  FsInv'
<1>0. PICK bl, blk, ib, bb, sz : Before(bl, blk, ib, bb, sz, D)
  BY BeforeCall
<1>1. PICK i, b, e : i = inode_bitmap_alloc /\ b = block_bitmap_alloc /\ e = Entry(name, i, "directory")
  OBVIOUS
<1>2. /\ Good(bl, blk, ib, bb, sz, D) /\ FilesOk(ib, D) /\ CountsOk(D) /\ cwd_inode_nr \in D
      /\ inode_bitmap = ib /\ block_bitmap = bb /\ Now = Disk(bl, blk, ib, bb, sz)
      /\ bl = NowBl /\ blk = d_block
      /\ \A j \in Inodes : /\ inode(j).blk = bl[j] /\ open_inodes[j].cnt \in Nat /\ entries(j) = Ent(bl, blk, j)
                           /\ open_inodes[j].cnt > 0 => open_inodes[j].inode = [size |-> sz[j], blk |-> bl[j]]
  BY <1>0 DEF Before, Mounted
<1>3. /\ bl \in [Inodes -> Blocks \union {Nil}] /\ sz \in [Inodes -> Int] /\ D \subseteq Inodes /\ D \subseteq ib
      /\ ib \subseteq Inodes /\ bb \subseteq Blocks /\ p \in Inodes /\ bl[p] \in Blocks /\ 0 \in bb /\ 0 \in D
      /\ Ent(bl, blk, p) \subseteq EntrySet
  BY <1>2, GoodFacts DEF TypedDisk
<1>4. i \in Inodes /\ i \notin ib /\ i \notin D /\ i # p /\ b \in Blocks /\ b \notin bb /\ b # 0
  <2>1. InodeLeft /\ BlockLeft
    BY DEF make_dir
  <2> QED
    BY <1>1, <1>2, <1>3, <2>1, FreeInode, FreeBlock
<1>5. e \in EntrySet /\ e.ino = i /\ e.type = "directory" /\ e.name = name
  <2>1. name \in Names
    BY DEF NewName
  <2> QED
    BY <1>1, <1>4, <2>1, EntryTyped
<1> DEFINE bb1 == bb \union {b}
           ib1 == ib \union {e.ino}
           X == DotEntries(i, p)
           blkA == PutBlock(blk, b, X)
           blk1 == AddEntry(bl, blkA, p, e)
           szp == Grow(sz, p)
           bl1 == SetAt(bl, e.ino, b)
           sz1 == SetAt(Grow(sz, p), e.ino, 2)
           E == Plus(D, e.ino)
           w1 == sync_block_bits(bb1)
           w2 == write_block(b, X)
           w3 == write_block(bl[p], Ent(bl, blk, p) \union {e})
           w4 == inode_sync(p, Inode(sz[p] + 1, bl[p]))
           w5 == inode_sync(i, Inode(2, b))
           w6 == sync_inode_bits(ib1)
<1>6. X \in SUBSET EntrySet /\ IsFiniteSet(X)
  <2>1. X \in SUBSET EntrySet
    BY <1>3, <1>4 DEF DotEntries, Entry, EntrySet, Dots
  <2> QED
    BY <2>1, DotsTwo
<1>7. /\ Good(bl, blkA, ib, bb, sz, D) /\ SameEnts(bl, blk, bl, blkA, D) /\ blkA[b] = X
  <2> HIDE DEF X
  <2> QED
    BY <1>2, <1>4, <1>6, SpareBlockGood
<1>8. Ent(bl, blkA, p) = Ent(bl, blk, p)
  BY <1>7 DEF SameEnts
<1>9. MakingDir(bl, blkA, ib, bb, sz, D, p, e, blk1, b)
  <2>1. NewName(bl, blkA, p, e.name)
    BY <1>2, <1>5, <1>8 DEF NewName
  <2> QED
    BY <1>4, <1>5, <1>7, <2>1 DEF MakingDir
<1> HIDE DEF blkA, blk1
<1>10. Good(bl1, blk1, ib1, bb1, sz1, E)
  BY <1>9, MakeDirGood
<1>11. CrashOk(bl, blk1, ib, bb1, E) /\ CrashOk(bl1, blk1, ib, bb1, E)
  <2>1. Written(bl, e.ino, b, bl) /\ Written(bl, e.ino, b, bl1)
    BY DEF Written
  <2> HIDE DEF bl1, E
  <2>2. E = Plus(D, e.ino)
    BY DEF E
  <2> QED
    BY <1>9, <2>1, <2>2, MakeDirSafe
<1>12. grown(p) = Inode(sz[p] + 1, bl[p]) /\ grown(p) \in InodeRec
  <2>1. grown(p) = Inode(sz[p] + 1, bl[p])
    BY <1>0, <1>3, GrownInode
  <2> QED
    BY <1>3, <2>1 DEF Inode, InodeRec
<1>13. /\ inode_bitmap' = ib1 /\ block_bitmap' = bb1 /\ open_inodes' = changed(open_inodes, p, grown(p))
       /\ kernel' = "up" /\ UNCHANGED <<disk, files, cwd_inode_nr, dirs, mount_loads>>
  BY <1>1, <1>2, <1>4, <1>5 DEF make_dir, checked, ASSERT
<1>14. todo' = <<w1, w2, w3, w4, w5, w6>>
  <2>1. sync_dir_entry(p, e) = w3
    BY <1>2, <1>3 DEF sync_dir_entry
  <2>2. [size |-> 2, blk |-> b] = Inode(2, b)
    BY DEF Inode
  <2>3. todo' = << sync_block_bits(block_bitmap \union {b}), write_block(b, DotEntries(i, p)),
                   sync_dir_entry(p, e), inode_sync(p, grown(p)), inode_sync(i, [size |-> 2, blk |-> b]),
                   sync_inode_bits(inode_bitmap \union {i}) >>
    BY <1>1, <1>4 DEF make_dir, checked
  <2> QED
    BY <1>2, <1>5, <1>12, <2>1, <2>2, <2>3
<1>15. Leads(Now', todo', Disk(bl1, blk1, ib1, bb1, sz1))
  <2> DEFINE v0 == Disk(bl, blk, ib, bb, sz)
             v1 == Disk(bl, blk, ib, bb1, sz)
             v2 == Disk(bl, blkA, ib, bb1, sz)
             v3 == Disk(bl, blk1, ib, bb1, sz)
             v4 == Disk(bl, blk1, ib, bb1, szp)
             v5 == Disk(bl1, blk1, ib, bb1, sz1)
             v6 == Disk(bl1, blk1, ib1, bb1, sz1)
  <2>1. v1 = Apply(v0, w1) /\ v6 = Apply(v5, w6)
    BY Applied
  <2>2. v2 = Apply(v1, w2)
    <3>1. PICK Y : Y = X
      OBVIOUS
    <3>2. blkA = PutBlock(blk, b, Y)
      BY <3>1 DEF blkA
    <3>3. w2 = write_block(b, Y)
      BY <3>1
    <3> HIDE DEF X, w2, bb1
    <3>4. Apply(v1, write_block(b, Y)) = Disk(bl, PutBlock(blk, b, Y), ib, bb1, sz)
      BY DEF Apply, Disk, write_block, PutBlock
    <3> QED
      BY <3>2, <3>3, <3>4
  <2>3. v3 = Apply(v2, w3)
    <3>1. blk1 = PutBlock(blkA, bl[p], Ent(bl, blk, p) \union {e})
      BY <1>8 DEF blk1, AddEntry
    <3>2. PICK Y, q : Y = Ent(bl, blk, p) \union {e} /\ q = bl[p]
      OBVIOUS
    <3>3. w3 = write_block(q, Y) /\ blk1 = PutBlock(blkA, q, Y)
      BY <3>1, <3>2
    <3> HIDE DEF w3, bb1
    <3>4. Apply(v2, write_block(q, Y)) = Disk(bl, PutBlock(blkA, q, Y), ib, bb1, sz)
      BY DEF Apply, Disk, write_block, PutBlock
    <3> QED
      BY <3>3, <3>4
  <2>4. v4 = Apply(v3, w4)
    <3>1. Apply(v3, w4) = Disk(SetAt(bl, p, bl[p]), blk1, ib, bb1, SetAt(sz, p, sz[p] + 1))
      BY <1>3, AppliedInode
    <3> QED
      BY <1>3, <3>1, SizeKept
  <2>5. v5 = Apply(v4, w5)
    <3>1. Apply(v4, w5) = Disk(SetAt(bl, i, b), blk1, ib, bb1, SetAt(szp, i, 2))
      BY <1>4, AppliedInode
    <3> QED
      BY <1>5, <3>1
  <2>6. Safe(v0) /\ Safe(v1) /\ Safe(v2) /\ Safe(v3) /\ Safe(v4) /\ Safe(v5) /\ Safe(v6)
    <3>1. CrashOk(bl, blk, ib, bb, D) /\ CrashOk(bl, blkA, ib, bb, D)
      BY <1>2, <1>7, GoodIsSafe
    <3>2. CrashOk(bl, blk, ib, bb1, D) /\ CrashOk(bl, blkA, ib, bb1, D)
      BY <3>1, MoreBlocksSafe
    <3>3. CrashOk(bl1, blk1, ib1, bb1, E)
      BY <1>10, GoodIsSafe
    <3> HIDE DEF sz1, ib1, bb1, szp, bl1, E
    <3> QED
      BY <1>11, <3>1, <3>2, <3>3, SafeDisk
  <2>7. Now' = v0
    <3>1. Now' = Now
      BY <1>13 DEF Now, NowBl, NowSz, disk, Disk
    <3> QED
      BY <1>2, <3>1
  <2> HIDE DEF v0, v1, v2, v3, v4, v5, v6, w1, w2, w3, w4, w5, w6
  <2> DEFINE T == {w1, w2, w3, w4, w5, w6}
  <2>8. /\ << >> \in Seq(T) /\ <<w6>> \in Seq(T) /\ <<w5, w6>> \in Seq(T) /\ <<w4, w5, w6>> \in Seq(T)
        /\ <<w3, w4, w5, w6>> \in Seq(T) /\ <<w2, w3, w4, w5, w6>> \in Seq(T)
    OBVIOUS
  <2> HIDE DEF T
  <2>9. Leads(v6, << >>, v6)
    BY <2>6, LeadsNowhere
  <2>10. Leads(v5, <<w6>>, v6)
    BY <2>1, <2>6, <2>8, <2>9, LeadsFirst, ConsOf
  <2>11. Leads(v4, <<w5, w6>>, v6)
    BY <2>5, <2>6, <2>8, <2>10, LeadsFirst, ConsOf
  <2>12. Leads(v3, <<w4, w5, w6>>, v6)
    BY <2>4, <2>6, <2>8, <2>11, LeadsFirst, ConsOf
  <2>13. Leads(v2, <<w3, w4, w5, w6>>, v6)
    BY <2>3, <2>6, <2>8, <2>12, LeadsFirst, ConsOf
  <2>14. Leads(v1, <<w2, w3, w4, w5, w6>>, v6)
    BY <2>2, <2>6, <2>8, <2>13, LeadsFirst, ConsOf
  <2>15. Leads(v0, <<w1, w2, w3, w4, w5, w6>>, v6)
    BY <2>1, <2>6, <2>8, <2>14, LeadsFirst, ConsOf
  <2> QED
    BY <1>14, <2>7, <2>15 DEF v6
<1>16. /\ open_inodes' \in [Inodes -> OpenRec] /\ \A j \in Inodes \ {p} : open_inodes'[j] = open_inodes[j]
       /\ open_inodes'[p].cnt = open_inodes[p].cnt
       /\ open_inodes'[p].cnt > 0 => open_inodes'[p].inode = grown(p)
  <2>1. open_inodes \in [Inodes -> OpenRec] /\ p \in Inodes /\ grown(p) \in InodeRec
        /\ open_inodes' = changed(open_inodes, p, grown(p))
    BY <1>3, <1>12, <1>13 DEF TypeOK
  <2> QED
    BY ONLY <2>1, ChangedFacts
<1>17. dirs' = dirs /\ cwd_inode_nr' = cwd_inode_nr /\ d_inode' = d_inode
       /\ file_table' = file_table /\ fd_table' = fd_table
  BY <1>13 DEF disk, files
<1>18. TypeOK'
  <2>1. todo' \in Seq(WriteSet)
    <3>1. Ent(bl, blk, p) \union {e} \in SUBSET EntrySet /\ ib1 \in SUBSET Inodes /\ bb1 \in SUBSET Blocks
      BY <1>3, <1>4, <1>5
    <3>2. Inode(2, b) \in InodeRec
      BY <1>4 DEF Inode, InodeRec
    <3>3. w1 \in WriteSet /\ w2 \in WriteSet /\ w3 \in WriteSet /\ w4 \in WriteSet /\ w5 \in WriteSet /\ w6 \in WriteSet
      <4> HIDE DEF X, ib1, bb1
      <4> QED
        BY <1>3, <1>4, <1>6, <1>12, <3>1, <3>2, InWriteSet
    <3> HIDE DEF w1, w2, w3, w4, w5, w6
    <3> QED
      BY <1>14, <3>3
  <2> QED
    BY <1>13, <1>16, <1>17, <2>1 DEF TypeOK
<1>19. Refs(i) = {} /\ open_inodes[i].cnt = 0 /\ dirs[i] = 0
  <2>1. Refs(i) = {}
    BY <1>2, <1>4, FsBounds DEF FilesOk, Refs
  <2> QED
    BY <1>2, <1>4, <2>1, FS_EmptySet DEF CountsOk
<1>20. MemOk(bl1, ib1, bb1, sz1)'
  <2>1. \A j \in Inodes : j # i => /\ bl1[j] = bl[j]
                                   /\ sz1[j] = IF j = p THEN sz[p] + 1 ELSE sz[j]
    BY <1>3, <1>5 DEF SetAt, Grow
  <2> HIDE DEF bl1, sz1, bb1, ib1
  <2>2. ASSUME NEW j \in Inodes, open_inodes'[j].cnt > 0 PROVE open_inodes'[j].inode = [size |-> sz1[j], blk |-> bl1[j]]
    <3>1. j # i
      BY <1>4, <1>16, <1>19, <2>2
    <3>2. CASE j = p
      BY <1>3, <1>12, <1>16, <2>1, <2>2, <3>1, <3>2 DEF Inode
    <3>3. CASE j # p
      BY <1>2, <1>16, <2>1, <2>2, <3>1, <3>3
    <3> QED
      BY <3>2, <3>3
  <2> QED
    BY <1>13, <2>2 DEF MemOk, Mounted, Plain
<1>21. E = D \union {i}
  BY <1>5 DEF Plus
<1>22. CountsOk(E)'
  <2>1. CountsOk(D)'
    BY <1>2, <1>3, <1>16, <1>17, CountsSame
  <2>2. open_inodes'[i].cnt = 0 /\ dirs'[i] = 0 /\ i # 0
    BY <1>3, <1>4, <1>16, <1>17, <1>19
  <2> QED
    BY <1>3, <1>21, <2>1, <2>2 DEF CountsOk
<1>23. FilesOk(ib1, E)'
  <2>1. \A s \in Slots : file_table[s].ino # i
    BY <1>2, <1>4, FsBounds DEF FilesOk
  <2> QED
    BY <1>2, <1>17, <1>21, <2>1 DEF FilesOk
<1>24. RefsOk(ib1, E)'
  BY <1>2, <1>17, <1>21, <1>22, <1>23 DEF RefsOk
<1> HIDE DEF sz1, ib1, bb1, bl1, E
<1> QED
  BY <1>10, <1>15, <1>18, <1>20, <1>24, CallInv

(* With a block bitmap that says nothing is used, the first free block is  *)
(* the root's, and the ASSERT on its number stops the kernel.              *)
LEMMA RootFree ==
    ASSUME block_bitmap = {}
    PROVE  BlockLeft /\ block_bitmap_alloc = 0
<1>1. Blocks \ block_bitmap = Blocks /\ Blocks \in SUBSET Nat /\ 0 \in Blocks
  BY FsBounds
<1>2. Min(Blocks) \in Blocks /\ Min(Blocks) <= 0
  BY <1>1, SmallestIsMin
<1>3. block_bitmap_alloc = Min(Blocks)
  BY <1>1 DEF block_bitmap_alloc
<1>4. PICK m : m = Min(Blocks)
  OBVIOUS
<1>5. m \in Nat /\ m <= 0
  BY <1>1, <1>2, <1>4
<1>6. m = 0
  BY <1>5
<1> QED
  BY <1>1, <1>3, <1>4, <1>6 DEF BlockLeft

LEMMA StoppedNext ==
    ASSUME TypeOK, Quiet, NEW D, At(D), NEW i \in Inodes, NEW v \in InodeRec, NEW w,
           open_inodes' = changed(open_inodes, i, v), checked(FALSE, w),
           UNCHANGED <<disk, files, cwd_inode_nr, dirs, mount_loads>>
    PROVE  Stopped'
<1>1. kernel' = "panic" /\ todo' = << >>
  BY DEF checked, ASSERT
<1>2. /\ d_inode' = d_inode /\ d_ibits' = d_ibits /\ d_bbits' = d_bbits /\ d_block' = d_block
      /\ file_table' = file_table /\ fd_table' = fd_table /\ dirs' = dirs /\ mount_loads' = mount_loads
  BY DEF disk, files
<1>3. NowBl' = NowBl /\ NowSz' = NowSz
  BY <1>2 DEF NowBl, NowSz
<1>4. /\ Good(NowBl, d_block, d_ibits, d_bbits, NowSz, D) /\ Plain(NowBl) /\ D \subseteq Inodes
      /\ FilesOk(d_ibits, D) /\ CountsOk(D)
  BY GoodFacts DEF At, MemOk, RefsOk
<1>5. \A j \in Inodes : open_inodes'[j].cnt = open_inodes[j].cnt /\ open_inodes[j].cnt \in Nat
  <2>1. open_inodes \in [Inodes -> OpenRec]
    BY DEF TypeOK
  <2>2. /\ open_inodes' \in [Inodes -> OpenRec] /\ \A j \in Inodes \ {i} : open_inodes'[j] = open_inodes[j]
        /\ open_inodes'[i].cnt = open_inodes[i].cnt
    BY <2>1, ChangedFacts
  <2> QED
    BY <2>1, <2>2, RecParts
<1>6. CountsOk(D)'
  BY <1>2, <1>4, <1>5, CountsSame
<1>7. FilesOk(d_ibits, D)'
  BY <1>2, <1>4 DEF FilesOk
<1>8. Good(NowBl, d_block, d_ibits, d_bbits, NowSz, D)' /\ Plain(NowBl)'
  BY <1>2, <1>3, <1>4 DEF Plain
<1>9. d_inode' \in [Inodes -> InodeRec] /\ \A j \in Inodes : dirs'[j] \in Nat
  BY <1>2 DEF TypeOK
<1> QED
  BY <1>1, <1>5, <1>6, <1>7, <1>8, <1>9 DEF Stopped

LEMMA WriteStops ==
    ASSUME TypeOK, Quiet, ~mount_loads, NEW D, At(D), NEW fd \in Fds, sys_write(fd)
    PROVE  Stopped'
<1>1. PICK i, v : i = file_table[fd_table[fd]].ino /\ v = [size |-> 1, blk |-> block_bitmap_alloc]
  OBVIOUS
<1>2. block_bitmap_alloc = 0
  BY MemList, RootFree DEF Mounted
<1>3. i \in Inodes
  BY <1>1 DEF sys_write, At, RefsOk, FilesOk, TypeOK
<1>4. v \in InodeRec
  BY <1>1, <1>2, FsBounds DEF InodeRec
<1>5. /\ open_inodes' = changed(open_inodes, i, v) /\ UNCHANGED <<disk, files, cwd_inode_nr, dirs, mount_loads>>
      /\ \E w : checked(FALSE, w)
  BY <1>1, <1>2 DEF sys_write
<1> QED
  BY <1>3, <1>4, <1>5, StoppedNext

LEMMA MakeDirStops ==
    ASSUME TypeOK, Quiet, ~mount_loads, NEW D, At(D), NEW p \in D, NEW name, make_dir(p, name)
    PROVE  Stopped'
<1>1. block_bitmap_alloc = 0
  BY MemList, RootFree DEF Mounted
<1>2. p \in Inodes /\ grown(p) \in InodeRec
  <2>1. D \subseteq Inodes
    BY GoodFacts DEF At
  <2>2. inode(p) \in InodeRec
    BY <2>1, InodeNow DEF TypeOK
  <2> QED
    BY <2>1, <2>2 DEF grown, InodeRec
<1>3. /\ open_inodes' = changed(open_inodes, p, grown(p)) /\ UNCHANGED <<disk, files, cwd_inode_nr, dirs, mount_loads>>
      /\ \E w : checked(FALSE, w)
  BY <1>1 DEF make_dir
<1> QED
  BY <1>2, <1>3, StoppedNext

(* A path has names, and ends with one. *)
LEMMA PathEnds ==
    ASSUME NEW path \in Paths
    PROVE  Len(path) \in Nat /\ path[Len(path)] \in Names \union {".."}
<1>1. PICK n \in 1..MaxDepth : path \in [1..n -> Names \union {".."}]
  BY DEF Paths
<1>2. n \in Nat /\ n >= 1
  BY FsAssumption
<1>3. Len(path) = n
  BY <1>1, <1>2
<1> QED
  BY <1>1, <1>2, <1>3

(* The name at the end of a path that is looked for in vain in directory p *)
(* is new there; it is not "..", which every directory has.                *)
LEMMA MissingIsNew ==
    ASSUME TypeOK, NEW D, At(D), NEW path \in Paths, NEW r, FoundAt(r, path, Len(path), D),
           r.ino = Nil, r.depth = Len(path)
    PROVE  NewName(NowBl, d_block, r.parent, path[Len(path)])
<1>1. /\ Good(NowBl, d_block, d_ibits, d_bbits, NowSz, D)
      /\ D \subseteq Inodes /\ \A d \in D : DirOk(NowBl, d_block, NowSz, D, d)
      /\ \A d, e : Link(NowBl, d_block, D, d, e) => e.ino \in Inodes
  BY GoodFacts DEF At, Good
<1>2. Nil \notin Inodes
  BY FsAssumption DEF Inodes, Nil
<1>3. r.parent \in D /\ \A e \in Ent(NowBl, d_block, r.parent) : e.name # path[Len(path)]
  BY <1>1, <1>2 DEF FoundAt
<1>4. path[Len(path)] \in Names \union {".."}
  BY PathEnds
<1>5. PICK up \in D : DotEntries(r.parent, up) \subseteq Ent(NowBl, d_block, r.parent)
  BY <1>1, <1>3 DEF DirOk
<1>6. Entry("..", up, "directory") \in Ent(NowBl, d_block, r.parent)
  BY <1>5 DEF DotEntries
<1>7. path[Len(path)] # ".."
  BY <1>3, <1>6 DEF Entry
<1> QED
  BY <1>3, <1>4, <1>7 DEF NewName

(* A call on a path *)
Call(path, r) ==
    \/ \E creat, write \in BOOLEAN : sys_open(path, r, creat, write)
    \/ sys_unlink(r) \/ sys_mkdir(path, r) \/ sys_rmdir(r)
    \/ sys_opendir(r) \/ sys_chdir(r)

LEMMA CallKeeps ==
    ASSUME FsInv, NInodes <= 256, NEW path \in Paths, NEW r, r = search_file(path), Call(path, r)
    PROVE  FsInv' \/ Stopped'
<1>1. TypeOK /\ Quiet
  BY DEF FsInv, Call, sys_open, sys_unlink, sys_mkdir, sys_rmdir, sys_opendir, sys_chdir
<1>2. PICK D : At(D)
  BY <1>1, QuietAt
<1>3. FoundAt(r, path, Len(path), D)
  <2>1. Len(path) \in Nat
    BY PathEnds
  <2> QED
    BY <1>1, <1>2, <2>1, SearchFinds
<1>4. r.parent \in D
  BY <1>3 DEF FoundAt
<1>5. /\ D \subseteq Inodes /\ D \subseteq d_ibits
      /\ \A d, e : Link(NowBl, d_block, D, d, e) =>
            e.ino \in d_ibits /\ e.ino \in Inodes /\ (e.ino \in D <=> e.type = "directory")
  BY <1>2, GoodFacts DEF At
<1>6. Nil \notin Inodes
  BY FsAssumption DEF Inodes, Nil
<1>7. r.type = "directory" => r.ino \in D
  BY <1>3 DEF FoundAt
<1>8. r.type # "directory" /\ r.ino # Nil => r.type = "regular"
  BY <1>3 DEF FoundAt
<1>9. r.type = "regular" =>
         \E e : Link(NowBl, d_block, D, r.parent, e) /\ e.ino = r.ino /\ e.type = "regular"
  BY <1>3 DEF FoundAt
<1>10. CASE \E creat, write \in BOOLEAN : sys_open(path, r, creat, write)
  <2>1. PICK creat \in BOOLEAN, write \in BOOLEAN : sys_open(path, r, creat, write)
    BY <1>10
  <2>2. CASE UNCHANGED vars
    BY <2>2, SameCall
  <2>3. CASE /\ open_inodes' = parent_kept(open_inodes, r)
             /\ UNCHANGED <<disk, bits, files, cwd_inode_nr, dirs, todo, mount_loads, lost, kernel>>
    BY <1>1, <1>2, <1>4, <2>3, ParentKept
  <2>4. CASE r.depth = Len(path) /\ r.ino = Nil /\ file_create(r, path[Len(path)], write)
    <3>1. NewName(NowBl, d_block, r.parent, path[Len(path)])
      BY <1>1, <1>2, <1>3, <2>4, MissingIsNew
    <3> QED
      BY <1>1, <1>2, <1>4, <2>4, <3>1, FileCreated
  <2>5. CASE r.type # "directory" /\ r.ino # Nil /\ file_open(r, write)
    <3>1. r.ino \in d_ibits /\ r.ino \notin D
      BY <1>5, <1>8, <1>9, <2>5
    <3> QED
      BY <1>1, <1>2, <1>4, <2>5, <3>1, FileOpened
  <2> QED
    BY <2>1, <2>2, <2>3, <2>4, <2>5 DEF sys_open
<1>11. CASE sys_unlink(r)
  <2>1. CASE UNCHANGED vars
    BY <2>1, SameCall
  <2>2. CASE r.type = "regular" /\ ~in_use(r.ino) /\ remove(r.parent, r.ino)
    <3>1. PICK e : Link(NowBl, d_block, D, r.parent, e) /\ e.ino = r.ino /\ e.type = "regular"
      BY <1>9, <2>2
    <3>2. ~in_use(e.ino) /\ remove(r.parent, e.ino)
      BY <2>2, <3>1
    <3> QED
      BY <1>1, <1>2, <3>1, <3>2, Removed
  <2> QED
    BY <1>11, <2>1, <2>2 DEF sys_unlink
<1>12. CASE sys_mkdir(path, r)
  <2>1. CASE UNCHANGED vars
    BY <2>1, SameCall
  <2>2. CASE r.ino = Nil /\ r.depth = Len(path) /\ make_dir(r.parent, path[Len(path)])
    <3>1. NewName(NowBl, d_block, r.parent, path[Len(path)])
      BY <1>1, <1>2, <1>3, <2>2, MissingIsNew
    <3>2. CASE mount_loads
      BY <1>1, <1>2, <1>4, <2>2, <3>1, <3>2, DirMade
    <3>3. CASE ~mount_loads
      BY <1>1, <1>2, <1>4, <2>2, <3>3, MakeDirStops
    <3> QED
      BY <3>2, <3>3
  <2> QED
    BY <1>12, <2>1, <2>2 DEF sys_mkdir
<1>13. CASE sys_rmdir(r)
  <2>1. ~(r.type = "directory" /\ dir_is_empty(r.ino))
    BY <1>1, <1>2, <1>7, NeverEmpty
  <2> QED
    BY <1>13, <2>1, SameCall DEF sys_rmdir
<1>14. CASE sys_opendir(r)
  <2>1. r.ino \in D
    BY <1>7, <1>14 DEF sys_opendir
  <2> QED
    BY <1>1, <1>2, <1>14, <2>1, DirOpened
<1>15. CASE sys_chdir(r)
  <2>1. r.ino \in D
    BY <1>7, <1>15 DEF sys_chdir
  <2> QED
    BY <1>1, <1>2, <1>15, <2>1, DirChanged
<1> QED
  BY <1>10, <1>11, <1>12, <1>13, <1>14, <1>15 DEF Call

LEMMA NextKeeps ==
    ASSUME FsInv, NInodes <= 256, Next
    PROVE  lost' \/ FsInv' \/ Stopped'
<1>1. CASE \E path \in Paths : Call(path, search_file(path))
  <2>1. PICK path \in Paths : Call(path, search_file(path))
    BY <1>1
  <2>2. PICK r : r = search_file(path)
    OBVIOUS
  <2>3. Call(path, r)
    BY <2>1, <2>2
  <2> QED
    BY <2>2, <2>3, CallKeeps
<1>2. ASSUME NEW fd \in Fds, sys_close(fd) \/ sys_write(fd) PROVE FsInv' \/ Stopped'
  <2>1. TypeOK /\ Quiet
    BY <1>2 DEF FsInv, sys_close, sys_write
  <2>2. PICK D : At(D)
    BY <2>1, QuietAt
  <2>3. CASE sys_close(fd)
    BY <2>1, <2>2, <2>3, FileClosed
  <2>4. CASE sys_write(fd) /\ mount_loads
    BY <2>1, <2>2, <2>4, FileWritten
  <2>5. CASE sys_write(fd) /\ ~mount_loads
    BY <2>1, <2>2, <2>5, WriteStops
  <2> QED
    BY <1>2, <2>3, <2>4, <2>5
<1>3. ASSUME NEW i \in Inodes, sys_closedir(i) PROVE FsInv'
  <2>1. TypeOK /\ Quiet
    BY <1>3 DEF FsInv, sys_closedir
  <2>2. PICK D : At(D)
    BY <2>1, QuietAt
  <2> QED
    BY <1>3, <2>1, <2>2, DirClosed
<1>4. CASE ide_write
  BY <1>4, WriteKeeps
<1>5. CASE filesys_init /\ ~lost'
  <2>1. TypeOK /\ Quiet
    BY <1>5 DEF FsInv, TypeOK, filesys_init, Quiet
  <2>2. PICK D : At(D)
    BY <2>1, QuietAt
  <2>3. Good(NowBl, d_block, d_ibits, d_bbits, NowSz, D) /\ Plain(NowBl) /\ d_inode \in [Inodes -> InodeRec]
    BY <2>1, <2>2 DEF At, MemOk, TypeOK
  <2> QED
    BY <1>5, <2>3, Restarted
<1> QED
  BY <1>1, <1>2, <1>3, <1>4, <1>5 DEF Next, Call

(* A kernel that has stopped is started again, or stays as it is. *)
LEMMA StoppedKeeps ==
    ASSUME Stopped, [Next]_vars
    PROVE  lost' \/ FsInv' \/ Stopped'
<1>1. CASE filesys_init /\ ~lost'
  <2>1. PICK D : Good(NowBl, d_block, d_ibits, d_bbits, NowSz, D)
    BY DEF Stopped
  <2>2. Plain(NowBl) /\ d_inode \in [Inodes -> InodeRec]
    BY DEF Stopped
  <2> QED
    BY <1>1, <2>1, <2>2, Restarted
<1>2. CASE UNCHANGED vars
  <2>1. /\ d_inode' = d_inode /\ d_ibits' = d_ibits /\ d_bbits' = d_bbits /\ d_block' = d_block
        /\ todo' = todo /\ kernel' = kernel /\ file_table' = file_table /\ fd_table' = fd_table
        /\ dirs' = dirs /\ open_inodes' = open_inodes /\ mount_loads' = mount_loads
    BY <1>2 DEF vars, disk, bits, files
  <2>2. NowBl' = NowBl /\ NowSz' = NowSz /\ \A i : Refs(i)' = Refs(i)
    BY <2>1 DEF NowBl, NowSz, Refs
  <2>3. PICK D : Good(NowBl, d_block, d_ibits, d_bbits, NowSz, D) /\ FilesOk(d_ibits, D) /\ CountsOk(D)
    BY DEF Stopped
  <2>4. Good(NowBl, d_block, d_ibits, d_bbits, NowSz, D)' /\ Plain(NowBl)'
    BY <2>1, <2>2, <2>3 DEF Stopped, Plain
  <2>5. FilesOk(d_ibits, D)' /\ CountsOk(D)'
    BY <2>1, <2>2, <2>3 DEF FilesOk, CountsOk
  <2>6. /\ kernel' = "panic" /\ todo' = << >> /\ d_inode' \in [Inodes -> InodeRec]
        /\ \A i \in Inodes : open_inodes'[i].cnt \in Nat /\ dirs'[i] \in Nat
    BY <2>1 DEF Stopped
  <2> QED
    BY <2>4, <2>5, <2>6 DEF Stopped
<1>3. ~Quiet /\ ~ide_write
  BY DEF Stopped, Quiet, ide_write
<1>4. \A path, r : ~Call(path, r)
  BY <1>3 DEF Call, sys_open, sys_unlink, sys_mkdir, sys_rmdir, sys_opendir, sys_chdir
<1>5. \A i : ~sys_close(i) /\ ~sys_write(i) /\ ~sys_closedir(i)
  BY <1>3 DEF sys_close, sys_write, sys_closedir
<1> QED
  BY <1>1, <1>2, <1>3, <1>4, <1>5 DEF Next, Call

(* What a start has lost stays lost. *)
LEMMA LostStays ==
    ASSUME lost, [Next]_vars
    PROVE  lost'
<1>1. ASSUME NEW path, NEW r, Call(path, r) PROVE lost'
  <2>1. ASSUME NEW creat, NEW write, sys_open(path, r, creat, write) PROVE lost'
    BY <2>1 DEF sys_open, file_create, file_open, vars
  <2>2. CASE sys_unlink(r) \/ sys_rmdir(r)
    BY <2>2 DEF sys_unlink, sys_rmdir, remove, vars
  <2>3. CASE sys_mkdir(path, r)
    BY <2>3 DEF sys_mkdir, make_dir, vars
  <2>4. CASE sys_opendir(r) \/ sys_chdir(r)
    BY <2>4 DEF sys_opendir, sys_chdir
  <2> QED
    BY <1>1, <2>1, <2>2, <2>3, <2>4 DEF Call
<1>2. CASE \E path \in Paths : Call(path, search_file(path))
  BY <1>1, <1>2
<1>3. ASSUME NEW i, sys_close(i) \/ sys_write(i) \/ sys_closedir(i) PROVE lost'
  BY <1>3 DEF sys_close, sys_write, sys_closedir
<1>4. filesys_init \/ ide_write \/ UNCHANGED vars => lost'
  BY DEF filesys_init, ide_write, vars
<1> QED
  BY <1>2, <1>3, <1>4 DEF Next, Call

LEMMA AlwaysInv ==
    ASSUME NInodes <= 256
    PROVE  Spec => []AllInv
<1>1. Init => AllInv
  BY InitInv DEF AllInv
<1>2. AllInv /\ [Next]_vars => AllInv'
  <2>1. FsInv /\ [Next]_vars => lost' \/ FsInv' \/ Stopped'
    BY NextKeeps, SameCall
  <2> QED
    BY <2>1, StoppedKeeps, LostStays DEF AllInv
<1> QED
  BY <1>1, <1>2, PTL DEF Spec

-----------------------------------------------------------------------------
(* The names of Fs for the tree on the disk *)
DiskTyped == d_block \in [Blocks -> SUBSET EntrySet]

LEMMA AlwaysTyped ==
    ASSUME NInodes <= 256
    PROVE  Spec => [](lost \/ DiskTyped)
<1>1. Init => DiskTyped
  <2> SUFFICES ASSUME Init PROVE DiskTyped
    OBVIOUS
  <2>1. 0 \in Inodes
    BY FsAssumption DEF Inodes
  <2>2. DotEntries(0, 0) \subseteq EntrySet
    BY <2>1 DEF DotEntries, Entry, EntrySet, Dots
  <2> QED
    BY <2>2 DEF Init, DiskTyped
<1>2. AllInv /\ (lost \/ DiskTyped) /\ [Next]_vars => (lost \/ DiskTyped)'
  <2> SUFFICES ASSUME FsInv \/ Stopped, DiskTyped, [Next]_vars PROVE DiskTyped'
    BY LostStays DEF AllInv
  <2>1. CASE UNCHANGED d_block
    BY <2>1 DEF DiskTyped
  <2>2. CASE ide_write
    <3>1. PICK w : w = Head(todo)
      OBVIOUS
    <3>2. d_block' = IF w.to = "block" THEN [d_block EXCEPT ![w.at] = w.v] ELSE d_block
      BY <2>2, <3>1 DEF ide_write
    <3>3. w \in WriteSet
      BY <2>2, <3>1 DEF ide_write, FsInv, TypeOK, Stopped
    <3>4. w.to = "block" => w.v \in SUBSET EntrySet
      BY <3>3 DEF WriteSet
    <3> QED
      BY <3>2, <3>4 DEF DiskTyped
  <2>3. ASSUME NEW path, NEW r, Call(path, r) PROVE UNCHANGED d_block
    <3>1. ASSUME NEW creat, NEW write, sys_open(path, r, creat, write) PROVE UNCHANGED d_block
      BY <3>1 DEF sys_open, file_create, file_open, disk, vars
    <3>2. CASE sys_unlink(r) \/ sys_rmdir(r)
      BY <3>2 DEF sys_unlink, sys_rmdir, remove, disk, vars
    <3>3. CASE sys_mkdir(path, r)
      BY <3>3 DEF sys_mkdir, make_dir, disk, vars
    <3>4. CASE sys_opendir(r) \/ sys_chdir(r)
      BY <3>4 DEF sys_opendir, sys_chdir, disk
    <3> QED
      BY <2>3, <3>1, <3>2, <3>3, <3>4 DEF Call
  <2>4. CASE \E path \in Paths : Call(path, search_file(path))
    BY <2>1, <2>3, <2>4
  <2>5. ASSUME NEW fd, sys_close(fd) \/ sys_write(fd) PROVE UNCHANGED d_block
    BY <2>5 DEF sys_close, sys_write, disk
  <2>6. ASSUME NEW i, sys_closedir(i) PROVE UNCHANGED d_block
    BY <2>6 DEF sys_closedir, disk
  <2>7. filesys_init \/ UNCHANGED vars => UNCHANGED d_block
    BY DEF filesys_init, vars, disk
  <2> QED
    BY <2>1, <2>2, <2>4, <2>5, <2>6, <2>7 DEF Next, Call
<1> QED
  BY <1>1, <1>2, AlwaysInv, PTL DEF Spec

LEMMA OnDiskIs ==
    ASSUME NEW i \in Inodes
    PROVE  OnDisk(i) = Ent(NowBl, d_block, i) /\ Subdirs(i) = Sub(NowBl, d_block, i)
BY DEF OnDisk, Ent, NowBl, Subdirs, Sub

LEMMA DirsIs == Dirs = DirsOf(NowBl, d_block)
<1>1. ASSUME NEW S \in SUBSET Inodes
      PROVE  (0 \in S /\ \A d \in S : Subdirs(d) \subseteq S) <=> ClosedSet(NowBl, d_block, S)
  <2>1. \A d \in S : Subdirs(d) = Sub(NowBl, d_block, d)
    BY OnDiskIs
  <2> QED
    BY <2>1 DEF ClosedSet
<1> QED
  BY <1>1 DEF Dirs, DirsOf

LEMMA LinksIs ==
    ASSUME NEW D, D = Dirs
    PROVE  /\ D \subseteq Inodes
           /\ \A l \in Links : Link(NowBl, d_block, D, l.dir, l.e) /\ l = [dir |-> l.dir, e |-> l.e]
           /\ \A d, e : Link(NowBl, d_block, D, d, e) => [dir |-> d, e |-> e] \in Links
<1>1. D \subseteq Inodes
  BY DEF Dirs
<1>2. \A d \in D : OnDisk(d) = Ent(NowBl, d_block, d)
  BY <1>1, OnDiskIs
<1>3. ASSUME NEW l \in Links PROVE Link(NowBl, d_block, D, l.dir, l.e) /\ l = [dir |-> l.dir, e |-> l.e]
  <2>1. PICK d \in D : l \in [dir : {d}, e : {e \in OnDisk(d) : e.name \notin Dots}]
    BY DEF Links
  <2> QED
    BY <1>2, <2>1 DEF Link
<1>4. ASSUME NEW d, NEW e, Link(NowBl, d_block, D, d, e) PROVE [dir |-> d, e |-> e] \in Links
  <2>1. d \in D /\ e \in OnDisk(d) /\ e.name \notin Dots
    BY <1>2, <1>4 DEF Link
  <2>2. [dir |-> d, e |-> e] \in [dir : {d}, e : {f \in OnDisk(d) : f.name \notin Dots}]
    BY <2>1
  <2> QED
    BY <2>1, <2>2 DEF Links
<1> QED
  BY <1>1, <1>3, <1>4

LEMMA LiveIs ==
    ASSUME NEW D, D = Dirs, d_inode \in [Inodes -> InodeRec], DiskTyped
    PROVE  /\ Live \subseteq Inodes
           /\ \A i \in Inodes : i \in Live <=> Named(NowBl, d_block, D, i)
           /\ \A i \in Inodes : d_inode[i] = [size |-> NowSz[i], blk |-> NowBl[i]]
<1>1. \A i \in Inodes : d_inode[i] = [size |-> NowSz[i], blk |-> NowBl[i]] /\ d_inode[i].blk \in Blocks \union {Nil}
  BY DEF InodeRec, NowSz, NowBl
<1>2. \A d \in Inodes : Ent(NowBl, d_block, d) \subseteq EntrySet
  BY <1>1 DEF Ent, NowBl, DiskTyped
<1>3. /\ D \subseteq Inodes
      /\ \A l \in Links : Link(NowBl, d_block, D, l.dir, l.e) /\ l = [dir |-> l.dir, e |-> l.e]
      /\ \A d, e : Link(NowBl, d_block, D, d, e) => [dir |-> d, e |-> e] \in Links
  BY LinksIs
<1>4. 0 \in Inodes
  BY FsAssumption DEF Inodes
<1>5. \A d, e : Link(NowBl, d_block, D, d, e) => e.ino \in Inodes
  BY <1>2, <1>3 DEF Link, EntrySet
<1>6. Live \subseteq Inodes
  BY <1>3, <1>4, <1>5 DEF Live
<1>7. ASSUME NEW i \in Inodes PROVE i \in Live <=> Named(NowBl, d_block, D, i)
  <2>1. ASSUME NEW d, NEW e, Link(NowBl, d_block, D, d, e), e.ino = i PROVE i \in Live
    <3>1. PICK l \in Links : l = [dir |-> d, e |-> e]
      BY <1>3, <2>1
    <3>2. l.e.ino = i
      BY <2>1, <3>1
    <3> QED
      BY <3>1, <3>2 DEF Live
  <2>2. ASSUME i \in Live PROVE Named(NowBl, d_block, D, i)
    <3>1. CASE i = 0
      BY <3>1 DEF Named
    <3>2. CASE i # 0
      <4>1. PICK l \in Links : i = l.e.ino
        BY <2>2, <3>2 DEF Live
      <4>2. Link(NowBl, d_block, D, l.dir, l.e)
        BY <1>3
      <4> QED
        BY <4>1, <4>2 DEF Named
    <3> QED
      BY <3>1, <3>2
  <2> QED
    BY <2>1, <2>2 DEF Named, Live
<1> QED
  BY <1>1, <1>6, <1>7

-----------------------------------------------------------------------------
LEMMA InvMemory ==
    ASSUME FsInv
    PROVE  MemoryIsDisk
<1> SUFFICES ASSUME Quiet
             PROVE  /\ inode_bitmap = d_ibits
                    /\ \A i \in Inodes : open_inodes[i].cnt > 0 => open_inodes[i].inode = d_inode[i]
  BY DEF MemoryIsDisk
<1>1. PICK D : At(D)
  BY QuietAt
<1>2. TypeOK /\ MemOk(NowBl, d_ibits, d_bbits, NowSz)
  BY <1>1 DEF FsInv, At
<1>3. \A i \in Inodes : d_inode[i] = [size |-> NowSz[i], blk |-> NowBl[i]]
  BY <1>2 DEF TypeOK, InodeRec, NowSz, NowBl
<1> QED
  BY <1>2, <1>3 DEF MemOk

LEMMA InvTree ==
    ASSUME FsInv
    PROVE  TreeShape
<1> SUFFICES ASSUME Quiet PROVE TreeShape
  BY DEF TreeShape
<1>1. PICK D : At(D)
  BY QuietAt
<1>2. Good(NowBl, d_block, d_ibits, d_bbits, NowSz, D) /\ TypeOK
  BY <1>1 DEF FsInv, At
<1>3. D = Dirs
  BY <1>2, DirsIs DEF Good
<1>4. /\ D \subseteq Inodes
      /\ \A l \in Links : Link(NowBl, d_block, D, l.dir, l.e) /\ l = [dir |-> l.dir, e |-> l.e]
      /\ \A d, e : Link(NowBl, d_block, D, d, e) => [dir |-> d, e |-> e] \in Links
  BY <1>3, LinksIs
<1>5. ASSUME NEW l \in Links, NEW m \in Links, l.e.ino = m.e.ino \/ <<l.dir, l.e.name>> = <<m.dir, m.e.name>>
      PROVE  l = m
  <2>1. l.e.ino = m.e.ino \/ (l.dir = m.dir /\ l.e.name = m.e.name)
    BY <1>5
  <2>2. l.dir = m.dir /\ l.e = m.e
    BY <1>2, <1>4, <2>1 DEF Good
  <2> QED
    BY <1>4, <2>2
<1>6. ASSUME NEW d \in D
      PROVE  /\ d_inode[d].size = Cardinality(OnDisk(d))
             /\ \E up \in D : /\ DotEntries(d, up) \subseteq OnDisk(d)
                              /\ d # 0 => \E l \in Links : l.dir = up /\ l.e.ino = d
  <2>1. DirOk(NowBl, d_block, NowSz, D, d) /\ OnDisk(d) = Ent(NowBl, d_block, d) /\ NowSz[d] = d_inode[d].size
    BY <1>2, <1>4, OnDiskIs DEF Good, NowSz
  <2>2. PICK up \in D : /\ DotEntries(d, up) \subseteq Ent(NowBl, d_block, d)
                        /\ d # 0 => \E e : Link(NowBl, d_block, D, up, e) /\ e.ino = d
    BY <2>1 DEF DirOk
  <2>3. d # 0 => \E l \in Links : l.dir = up /\ l.e.ino = d
    <3> SUFFICES ASSUME d # 0 PROVE \E l \in Links : l.dir = up /\ l.e.ino = d
      OBVIOUS
    <3>1. PICK e : Link(NowBl, d_block, D, up, e) /\ e.ino = d
      BY <2>2
    <3>2. PICK l \in Links : l = [dir |-> up, e |-> e]
      BY <1>4, <3>1
    <3> QED
      BY <3>1, <3>2
  <2>4. d_inode[d].size = Cardinality(OnDisk(d))
    BY <2>1 DEF DirOk
  <2> QED
    BY <2>1, <2>2, <2>3, <2>4
<1> QED
  BY <1>3, <1>5, <1>6 DEF TreeShape

LEMMA InvBitmaps ==
    ASSUME FsInv, DiskTyped
    PROVE  BitmapsExact
<1> SUFFICES ASSUME Quiet PROVE BitmapsExact
  BY DEF BitmapsExact
<1>1. PICK D : At(D)
  BY QuietAt
<1>2. Good(NowBl, d_block, d_ibits, d_bbits, NowSz, D) /\ TypeOK
  BY <1>1 DEF FsInv, At
<1>3. D = Dirs
  BY <1>2, DirsIs DEF Good
<1>4. /\ Live \subseteq Inodes
      /\ \A i \in Inodes : i \in Live <=> Named(NowBl, d_block, D, i)
  BY <1>2, <1>3, LiveIs DEF TypeOK
<1>5. /\ d_ibits \subseteq Inodes /\ d_bbits \subseteq Blocks
      /\ \A i \in Inodes : i \in d_ibits <=> Named(NowBl, d_block, D, i)
      /\ \A b \in Blocks : b \in d_bbits <=> \E i \in d_ibits : NowBl[i] = b
      /\ \A i, j \in d_ibits : i # j /\ NowBl[i] = NowBl[j] => NowBl[i] = Nil
      /\ NowBl \in [Inodes -> Blocks \union {Nil}]
  BY <1>2 DEF Good, TypedDisk
<1>6. d_ibits = Live
  BY <1>4, <1>5
<1>7. \A i \in Inodes : NowBl[i] = d_inode[i].blk
  BY DEF NowBl
<1>8. Nil \notin Blocks
  BY FsAssumption DEF Blocks, Nil
<1>9. \A b \in Blocks : b \in d_bbits <=> \E i \in Live : d_inode[i].blk = b
  BY <1>4, <1>5, <1>6, <1>7
<1>10. \A i \in Live : d_inode[i].blk \in Blocks \union {Nil}
  BY <1>4, <1>5, <1>7
<1>11. d_bbits = {d_inode[i].blk : i \in Live} \ {Nil}
  BY <1>5, <1>8, <1>9, <1>10
<1>12. \A i, j \in Live : i # j /\ d_inode[i].blk = d_inode[j].blk => d_inode[i].blk = Nil
  BY <1>4, <1>5, <1>6, <1>7
<1> QED
  BY <1>6, <1>11, <1>12 DEF BitmapsExact

LEMMA InvCrash ==
    ASSUME FsInv \/ Stopped, DiskTyped
    PROVE  CrashSafe
<1>1. d_inode \in [Inodes -> InodeRec]
  BY DEF FsInv, Stopped, TypeOK
<1>2. Safe(Now)
  <2>1. CASE FsInv
    <3>1. TypeOK /\ \E u : Leads(Now, todo, u)
      BY <2>1 DEF FsInv
    <3> QED
      BY <3>1, LeadsSafe DEF TypeOK
  <2>2. CASE Stopped
    <3>1. PICK D : Good(NowBl, d_block, d_ibits, d_bbits, NowSz, D)
      BY <2>2 DEF Stopped
    <3>2. CrashOk(NowBl, d_block, d_ibits, d_bbits, D)
      BY <3>1, GoodIsSafe
    <3> QED
      BY <3>2, SafeDisk DEF Now
  <2> QED
    BY <2>1, <2>2
<1>3. PICK D : CrashOk(NowBl, d_block, d_ibits, d_bbits, D)
  BY <1>2 DEF Safe, Now, Disk
<1>4. D = Dirs
  BY <1>3, DirsIs DEF CrashOk
<1>5. /\ Live \subseteq Inodes
      /\ \A i \in Inodes : i \in Live <=> Named(NowBl, d_block, D, i)
  BY <1>1, <1>4, LiveIs
<1>6. \A i \in Inodes : NowBl[i] = d_inode[i].blk
  BY DEF NowBl
<1>7. /\ \A i \in Live : d_inode[i].blk \in d_bbits \union {Nil}
      /\ \A i, j \in Live : i # j /\ d_inode[i].blk = d_inode[j].blk => d_inode[i].blk = Nil
  BY <1>3, <1>5, <1>6 DEF CrashOk
<1> DEFINE S == {l \in Links : l.e.ino \notin d_ibits}
<1>8. ASSUME NEW l \in S, NEW m \in S PROVE l = m
  <2>1. \A k \in Links : Link(NowBl, d_block, D, k.dir, k.e) /\ k = [dir |-> k.dir, e |-> k.e]
    BY <1>4, LinksIs
  <2>2. l.dir = m.dir /\ l.e = m.e
    BY <1>3, <1>8, <2>1 DEF CrashOk
  <2> QED
    BY <1>8, <2>1, <2>2
<1>9. Cardinality(S) <= 1
  <2> HIDE DEF S
  <2>1. CASE S = {}
    BY <2>1, FS_EmptySet
  <2>2. CASE S # {}
    <3>1. PICK l : S = {l}
      BY <1>8, <2>2
    <3> QED
      BY <3>1, FS_Singleton
  <2> QED
    BY <2>1, <2>2
<1> QED
  BY <1>7, <1>9 DEF CrashSafe

LEMMA InvRefs ==
    ASSUME FsInv \/ Stopped, DiskTyped
    PROVE  RefsBacked
<1>1. PICK ib, D : FilesOk(ib, D) /\ CountsOk(D) /\ 0 \in D
  <2>1. CASE FsInv
    <3>1. PICK u, D : Agrees(u, D)
      BY <2>1 DEF FsInv
    <3>2. FilesOk(u.ib, D) /\ CountsOk(D) /\ 0 \in D
      BY <3>1, GoodFacts DEF Agrees, RefsOk
    <3> QED
      BY <3>2
  <2>2. CASE Stopped
    BY <2>2, GoodFacts DEF Stopped
  <2> QED
    BY <2>1, <2>2
<1>2. /\ d_inode \in [Inodes -> InodeRec]
      /\ \A i \in Inodes : open_inodes[i].cnt \in Nat /\ dirs[i] \in Nat
  BY RecParts DEF FsInv, TypeOK, Stopped
<1>3. Nil \notin Inodes
  BY FsAssumption DEF Inodes, Nil
<1>4. \A i \in Inodes : open_inodes[i].cnt >= Cardinality(Refs(i)) + dirs[i] + (IF i = 0 THEN 1 ELSE 0)
  <2> SUFFICES ASSUME NEW i \in Inodes
               PROVE  open_inodes[i].cnt >= Cardinality(Refs(i)) + dirs[i] + (IF i = 0 THEN 1 ELSE 0)
    OBVIOUS
  <2>1. open_inodes[i].cnt \in Nat /\ dirs[i] \in Nat
    BY <1>2
  <2>2. CASE i \in D
    <3>1. Refs(i) = {}
      BY <1>1, <1>3, <2>2 DEF Refs, FilesOk
    <3>2. Cardinality(Refs(i)) = 0
      BY <3>1, FS_EmptySet
    <3> QED
      BY <1>1, <2>1, <2>2, <3>2 DEF CountsOk
  <2>3. CASE i \notin D
    <3>1. open_inodes[i].cnt = Cardinality(Refs(i)) /\ dirs[i] = 0 /\ i # 0
      BY <1>1, <2>3 DEF CountsOk
    <3> QED
      BY <2>1, <3>1
  <2> QED
    BY <2>2, <2>3
<1>5. ASSUME Quiet
      PROVE  /\ {i \in Inodes : Refs(i) # {}} \subseteq Live \ Dirs
             /\ {i \in Inodes : dirs[i] > 0} \subseteq Dirs
  <2>1. PICK E : At(E)
    BY <1>5, QuietAt DEF Stopped, Quiet
  <2>2. /\ Good(NowBl, d_block, d_ibits, d_bbits, NowSz, E) /\ FilesOk(d_ibits, E) /\ CountsOk(E)
        /\ \A i \in Inodes : i \in d_ibits <=> Named(NowBl, d_block, E, i)
    BY <2>1 DEF At, RefsOk, Good
  <2>3. E = Dirs
    BY <2>2, DirsIs DEF Good
  <2>4. \A i \in Inodes : i \in Live <=> Named(NowBl, d_block, E, i)
    BY <1>2, <2>3, LiveIs
  <2>5. \A i \in Inodes : Refs(i) # {} => i \in d_ibits \ E
    BY <1>3, <2>2 DEF FilesOk, Refs
  <2>6. \A i \in Inodes : dirs[i] > 0 => i \in E
    BY <2>2 DEF CountsOk
  <2> QED
    BY <2>2, <2>3, <2>4, <2>5, <2>6
<1> QED
  BY <1>4, <1>5 DEF RefsBacked, Refs

-----------------------------------------------------------------------------
(* All of them for at most 256 inodes, of whose numbers inode_sync keeps   *)
(* eight bits, and for a mount_partition as it is as well as for one that  *)
(* reads each bitmap to its own place.  As it is, a start after which the  *)
(* kernel does not know all inodes of the disk ends them (lost).           *)
LEMMA StateProperties ==
    ASSUME AllInv, lost \/ DiskTyped
    PROVE  MemoryIsDisk /\ TreeShape /\ BitmapsExact /\ CrashSafe /\ (lost \/ RefsBacked)
<1>1. CASE lost
  BY <1>1 DEF MemoryIsDisk, TreeShape, BitmapsExact, CrashSafe
<1>2. CASE FsInv /\ DiskTyped
  BY <1>2, InvMemory, InvTree, InvBitmaps, InvCrash, InvRefs
<1>3. CASE Stopped /\ DiskTyped
  <2>1. ~Quiet
    BY <1>3 DEF Stopped, Quiet
  <2> QED
    BY <1>3, <2>1, InvCrash, InvRefs DEF MemoryIsDisk, TreeShape, BitmapsExact
<1> QED
  BY <1>1, <1>2, <1>3 DEF AllInv

(* Between two calls the inode bitmap and the open inodes in memory are    *)
(* those on the disk, whatever sequence of calls and restarts came before: *)
(* every call writes back, sector by sector, all that it has changed.      *)
THEOREM RestartLosesNothing ==
    ASSUME NInodes <= 256
    PROVE  Spec => []MemoryIsDisk
BY AlwaysInv, AlwaysTyped, StateProperties, PTL

(* Between two calls the directories on the disk are a tree: sys_open,     *)
(* sys_mkdir and sys_unlink never give an inode two names, ".." is the     *)
(* directory that has the name, and i_size counts the entries.             *)
THEOREM DirectoriesAreATree ==
    ASSUME NInodes <= 256
    PROVE  Spec => []TreeShape
BY AlwaysInv, AlwaysTyped, StateProperties, PTL

(* Between two calls the bits on the disk are exactly those of the inodes  *)
(* with a name and of their blocks, and no two inodes share a block: no    *)
(* call leaks or gives out twice what bitmap_alloc returned.               *)
THEOREM NoLeakOnDisk ==
    ASSUME NInodes <= 256
    PROVE  Spec => []BitmapsExact
BY AlwaysInv, AlwaysTyped, StateProperties, PTL

(* At every single sector that ide_write puts on the disk, and when an     *)
(* ASSERT stops a call, a power failure leaves blocks with one owner,      *)
(* marked when a name leads to them, and at most one name that leads to an *)
(* inode not marked yet.                                                   *)
THEOREM PowerFailureSafe ==
    ASSUME NInodes <= 256
    PROVE  Spec => []CrashSafe
BY AlwaysInv, AlwaysTyped, StateProperties, PTL

(* Every slot of file_table and every opened directory is counted in       *)
(* i_open_cnts, also after the failures of sys_open that keep a slot, and  *)
(* refers to a file or directory that sys_unlink has not removed.          *)
THEOREM OpenFilesStay ==
    ASSUME NInodes <= 256
    PROVE  Spec => [](lost \/ RefsBacked)
BY AlwaysInv, AlwaysTyped, StateProperties, PTL

-----------------------------------------------------------------------------
(* list.c: while list_push is called with interrupts off the pointers are  *)
(* those of the sequences that Sched and IoQueue take the lists to be, and *)
(* elem_find is right when it is called with interrupts off, too.          *)

States == {"idle", "push", "find", "true", "false"}

ListTypeOK ==
    /\ ListAssumption
    /\ content \in [Lists -> Seq(Tags)]
    /\ next \in [Nodes -> Nodes \union {NULL}] /\ prev \in [Nodes -> Nodes \union {NULL}]
    /\ pc \in [Tasks -> States]
    /\ plist \in [Tasks -> Lists]
    /\ obj \in [Tasks -> Tags \union {NULL}]
    /\ elem \in [Tasks -> Nodes \union {NULL}]
    /\ cpu \in Tasks \union {NULL}

(* The nodes of a list of contents c, from the head to the tail. *)
Node(l, c, i) == IF i = 0 THEN head(l) ELSE IF i = Len(c) + 1 THEN tail(l) ELSE c[i]

(* An element is in one place only. *)
Unique ==
    \A l, m \in Lists : \A i \in 1..Len(content[l]), j \in 1..Len(content[m]) :
        content[l][i] = content[m][j] => l = m /\ i = j

Chain(l) ==
    \A i \in 0..Len(content[l]) :
        /\ next[Node(l, content[l], i)] = Node(l, content[l], i + 1)
        /\ prev[Node(l, content[l], i + 1)] = Node(l, content[l], i)

(* Between the read and the insertion of list_push nobody else runs. *)
PushInv ==
    \A t \in Tasks : pc[t] = "push" =>
        /\ cpu = t
        /\ obj[t] \in Tags /\ \A l \in Lists : ~InList(obj[t], l)
        /\ elem[t] = next[head(plist[t])]

ListInv == ListTypeOK /\ Unique /\ (\A l \in Lists : Chain(l)) /\ PushInv

(* elem_find stands at a node of its list, behind which no element is the  *)
(* one it looks for.                                                       *)
Searching(t, i) ==
    /\ i \in 1..(Len(content[plist[t]]) + 1)
    /\ elem[t] = Node(plist[t], content[plist[t]], i)
    /\ \A j \in 1..(i - 1) : content[plist[t]][j] # obj[t]

FindInv ==
    \A t \in Tasks :
        /\ pc[t] \in {"find", "true", "false"} => cpu = t /\ obj[t] \in Tags
        /\ pc[t] = "find" => \E i \in 1..(Len(content[plist[t]]) + 1) : Searching(t, i)
        /\ pc[t] = "true" => InList(obj[t], plist[t])
        /\ pc[t] = "false" => ~InList(obj[t], plist[t])

-----------------------------------------------------------------------------
LEMMA EndFacts ==
    ASSUME ListAssumption, NEW l \in Lists, NEW m \in Lists
    PROVE  /\ head(l) \notin Tags /\ tail(l) \notin Tags
           /\ head(l) # tail(m)
           /\ head(l) = head(m) => l = m
           /\ tail(l) = tail(m) => l = m
           /\ head(l) \in Nodes /\ tail(l) \in Nodes
<1>1. head(l) \notin Tags /\ tail(l) \notin Tags
  BY DEF ListAssumption
<1>2. head(l) # tail(m) /\ (head(l) = head(m) => l = m) /\ (tail(l) = tail(m) => l = m)
  BY DEF head, tail
<1> QED
  BY <1>1, <1>2 DEF Nodes

(* The nodes of the lists are all different. *)
LEMMA NodeFacts ==
    ASSUME ListTypeOK, Unique,
           NEW l \in Lists, NEW i \in 0..(Len(content[l]) + 1)
    PROVE  /\ Len(content[l]) \in Nat
           /\ Node(l, content[l], i) \in Nodes
           /\ i \in 1..Len(content[l]) => Node(l, content[l], i) = content[l][i] /\ content[l][i] \in Tags
           /\ \A m \in Lists : \A j \in 0..(Len(content[m]) + 1) :
                 Node(l, content[l], i) = Node(m, content[m], j) => l = m /\ i = j
<1>1. \A k \in Lists : content[k] \in Seq(Tags) /\ Len(content[k]) \in Nat
                       /\ \A j \in 1..Len(content[k]) : content[k][j] \in Tags
  BY DEF ListTypeOK
<1>2. /\ i \in 1..Len(content[l]) => Node(l, content[l], i) = content[l][i] /\ content[l][i] \in Tags
      /\ i \in 1..Len(content[l]) \/ i = 0 \/ i = Len(content[l]) + 1
  BY <1>1 DEF Node
<1>3. Node(l, content[l], i) \in Nodes
  BY <1>1, <1>2, EndFacts DEF Node, Nodes, ListTypeOK
<1>4. ASSUME NEW m \in Lists, NEW j \in 0..(Len(content[m]) + 1),
             Node(l, content[l], i) = Node(m, content[m], j)
      PROVE  l = m /\ i = j
  <2>0. j \in 1..Len(content[m]) \/ j = 0 \/ j = Len(content[m]) + 1
    <3>1. Len(content[m]) \in Nat
      BY <1>1
    <3> QED
      BY <3>1
  <2>1. CASE i = 0
    BY <1>1, <1>4, <2>0, <2>1, EndFacts DEF Node, ListTypeOK
  <2>2. CASE i = Len(content[l]) + 1
    BY <1>1, <1>4, <2>0, <2>2, EndFacts DEF Node, ListTypeOK
  <2>3. CASE i \in 1..Len(content[l])
    BY <1>1, <1>2, <1>4, <2>0, <2>3, EndFacts DEF Node, Unique, ListTypeOK
  <2> QED
    BY <1>2, <2>1, <2>2, <2>3
<1> QED
  BY <1>1, <1>2, <1>3, <1>4

(* An element that is linked between the nodes k and k + 1 of a list. *)
LEMMA InsertStep ==
    ASSUME ListInv, NEW l \in Lists, NEW e \in Tags, \A m \in Lists : ~InList(e, m),
           NEW k \in 0..Len(content[l]), list_insert_before(Node(l, content[l], k + 1), e),
           NEW s \in Seq(Tags), content' = [content EXCEPT ![l] = s],
           Len(s) = Len(content[l]) + 1,
           \A i \in 1..Len(s) : s[i] = IF i <= k THEN content[l][i]
                                       ELSE IF i = k + 1 THEN e ELSE content[l][i - 1]
    PROVE  /\ Unique' /\ \A m \in Lists : Chain(m)'
           /\ content' \in [Lists -> Seq(Tags)]
           /\ next' \in [Nodes -> Nodes \union {NULL}] /\ prev' \in [Nodes -> Nodes \union {NULL}]
<1> DEFINE c == content[l]
           n == Len(content[l])
           a == Node(l, c, k)
           b == Node(l, c, k + 1)
<1>0. ListTypeOK /\ Unique /\ (\A m \in Lists : Chain(m)) /\ n \in Nat
  BY DEF ListInv, ListTypeOK
<1>1. prev[b] = a /\ next[a] = b /\ a \in Nodes /\ b \in Nodes /\ e \in Nodes /\ k + 1 \in 0..(n + 1)
  <2>1. k \in 0..n /\ k \in 0..(n + 1) /\ k + 1 \in 0..(n + 1)
    BY <1>0
  <2>2. prev[b] = a /\ next[a] = b
    BY <1>0, <2>1 DEF Chain
  <2>3. a \in Nodes /\ b \in Nodes
    BY <1>0, <2>1, NodeFacts
  <2> QED
    BY <2>1, <2>2, <2>3 DEF Nodes
<1>2. /\ next' = [next EXCEPT ![a] = e, ![e] = b]
      /\ prev' = [prev EXCEPT ![e] = a, ![b] = e]
  BY <1>1 DEF list_insert_before
<1>3. ASSUME NEW m \in Lists, NEW i \in 0..(Len(content[m]) + 1) PROVE Node(m, content[m], i) # e
  <2>1. \A j \in 1..Len(content[m]) : content[m][j] # e
    BY <1>0 DEF InList, ListTypeOK
  <2> QED
    BY <1>0, <2>1, EndFacts DEF Node, ListTypeOK
<1>4. /\ content' \in [Lists -> Seq(Tags)] /\ content'[l] = s
      /\ \A m \in Lists : m # l => content'[m] = content[m]
  BY <1>0 DEF ListTypeOK
<1>5. next' \in [Nodes -> Nodes \union {NULL}] /\ prev' \in [Nodes -> Nodes \union {NULL}]
  BY <1>0, <1>1, <1>2 DEF ListTypeOK
<1>6. \A i \in 0..(n + 2) : Node(l, s, i) = IF i <= k THEN Node(l, c, i)
                                           ELSE IF i = k + 1 THEN e ELSE Node(l, c, i - 1)
  <2> SUFFICES ASSUME NEW i \in 0..(n + 2)
               PROVE  Node(l, s, i) = IF i <= k THEN Node(l, c, i)
                                      ELSE IF i = k + 1 THEN e ELSE Node(l, c, i - 1)
    OBVIOUS
  <2>0. k \in Nat /\ k <= n /\ Len(s) = n + 1 /\ Len(c) = n
        /\ \A j \in 1..(n + 1) : s[j] = IF j <= k THEN c[j] ELSE IF j = k + 1 THEN e ELSE c[j - 1]
    BY <1>0
  <2> HIDE DEF n, c
  <2>1. CASE i <= k
    BY <1>0, <2>0, <2>1 DEF Node
  <2>2. CASE i = k + 1
    BY <1>0, <2>0, <2>2 DEF Node
  <2>3. CASE i > k + 1 /\ i < n + 2
    <3>1. Node(l, s, i) = s[i] /\ s[i] = c[i - 1] /\ Node(l, c, i - 1) = c[i - 1]
      BY <1>0, <2>0, <2>3 DEF Node
    <3> QED
      BY <2>0, <2>3, <3>1
  <2>4. CASE i = n + 2
    <3>1. Node(l, s, i) = tail(l) /\ Node(l, c, i - 1) = tail(l)
      BY <1>0, <2>0, <2>4 DEF Node
    <3> QED
      BY <1>0, <2>0, <2>4, <3>1
  <2> QED
    BY <1>0, <2>0, <2>1, <2>2, <2>3, <2>4
<1>7. ASSUME NEW m \in Lists, m # l PROVE Chain(m)'
  <2> SUFFICES ASSUME NEW i \in 0..Len(content[m])
               PROVE  /\ next'[Node(m, content[m], i)] = Node(m, content[m], i + 1)
                      /\ prev'[Node(m, content[m], i + 1)] = Node(m, content[m], i)
    BY <1>4, <1>7 DEF Chain
  <2>1. i \in 0..(Len(content[m]) + 1) /\ i + 1 \in 0..(Len(content[m]) + 1)
    BY <1>0 DEF ListTypeOK
  <2>2. /\ Node(m, content[m], i) \notin {a, e} /\ Node(m, content[m], i) \in Nodes
        /\ Node(m, content[m], i + 1) \notin {b, e} /\ Node(m, content[m], i + 1) \in Nodes
    BY <1>0, <1>1, <1>3, <1>7, <2>1, NodeFacts
  <2> QED
    BY <1>0, <1>1, <1>2, <2>2 DEF Chain, ListTypeOK
<1>8. Chain(l)'
  <2> SUFFICES ASSUME NEW i \in 0..(n + 1)
               PROVE  next'[Node(l, s, i)] = Node(l, s, i + 1) /\ prev'[Node(l, s, i + 1)] = Node(l, s, i)
    BY <1>4 DEF Chain
  <2>0. /\ \A j \in 0..(n + 1) : Node(l, c, j) \in Nodes /\ Node(l, c, j) # e
        /\ \A j \in 0..(n + 1) : j # k => Node(l, c, j) # a
        /\ \A j \in 0..(n + 1) : j # k + 1 => Node(l, c, j) # b
        /\ \A j \in 0..n : next[Node(l, c, j)] = Node(l, c, j + 1) /\ prev[Node(l, c, j + 1)] = Node(l, c, j)
        /\ next \in [Nodes -> Nodes \union {NULL}] /\ prev \in [Nodes -> Nodes \union {NULL}]
        /\ k \in 0..n
    BY <1>0, <1>1, <1>3, NodeFacts DEF Chain, ListTypeOK
  <2> HIDE DEF n, c
  <2>1. CASE i < k
    <3>1. /\ i \in 0..n /\ i \in 0..(n + 1) /\ i + 1 \in 0..(n + 1) /\ i # k /\ i + 1 # k + 1
          /\ i \in 0..(n + 2) /\ i + 1 \in 0..(n + 2) /\ i <= k /\ i + 1 <= k
      BY <1>0, <2>0, <2>1
    <3>2. Node(l, s, i) = Node(l, c, i) /\ Node(l, s, i + 1) = Node(l, c, i + 1)
      BY <1>6, <3>1
    <3> QED
      BY <1>1, <1>2, <2>0, <3>1, <3>2
  <2>2. CASE i = k
    BY <1>0, <1>1, <1>2, <1>6, <2>0, <2>2
  <2>3. CASE i = k + 1
    BY <1>0, <1>1, <1>2, <1>6, <2>0, <2>3
  <2>4. CASE i > k + 1
    BY <1>0, <1>1, <1>2, <1>6, <2>0, <2>4
  <2> QED
    BY <1>0, <2>1, <2>2, <2>3, <2>4
<1>9. Unique'
  <2>1. \A m \in Lists : \A j \in 1..Len(content[m]) : content[m][j] # e
    BY <1>0 DEF InList, ListTypeOK
  <2>2. ASSUME NEW m \in Lists, NEW j \in 1..Len(content'[m])
        PROVE  \/ m = l /\ j = k + 1 /\ content'[m][j] = e
               \/ \E i \in 1..Len(content[m]) :
                     /\ content'[m][j] = content[m][i]
                     /\ j = IF m = l /\ i > k THEN i + 1 ELSE i
    <3>1. CASE m # l
      BY <1>0, <1>4, <3>1 DEF ListTypeOK
    <3>2. CASE m = l /\ j <= k
      BY <1>0, <1>4, <3>2
    <3>3. CASE m = l /\ j = k + 1
      BY <1>0, <1>4, <3>3
    <3>4. CASE m = l /\ j > k + 1
      <4>1. j - 1 \in 1..n /\ content'[m][j] = content[m][j - 1] /\ j - 1 > k /\ j = (j - 1) + 1
        BY <1>0, <1>4, <3>4
      <4> QED
        BY <3>4, <4>1
    <3> QED
      BY <1>0, <1>4, <3>1, <3>2, <3>3, <3>4
  <2>3. ASSUME NEW m \in Lists, NEW o \in Lists,
               NEW i \in 1..Len(content'[m]), NEW j \in 1..Len(content'[o]),
               content'[m][i] = content'[o][j]
        PROVE  m = o /\ i = j
    <3>1. CASE content'[m][i] = e
      <4>1. ASSUME NEW u \in Lists, NEW j1 \in 1..Len(content'[u]), content'[u][j1] = e
            PROVE  u = l /\ j1 = k + 1
        BY <2>1, <2>2, <4>1
      <4> QED
        BY <2>3, <3>1, <4>1
    <3>2. CASE content'[m][i] # e
      <4>1. PICK i1 \in 1..Len(content[m]) : /\ content'[m][i] = content[m][i1]
                                             /\ i = IF m = l /\ i1 > k THEN i1 + 1 ELSE i1
        BY <2>2, <3>2
      <4>2. PICK j1 \in 1..Len(content[o]) : /\ content'[o][j] = content[o][j1]
                                             /\ j = IF o = l /\ j1 > k THEN j1 + 1 ELSE j1
        BY <2>2, <2>3, <3>2
      <4>3. m = o /\ i1 = j1
        BY <1>0, <2>3, <4>1, <4>2 DEF Unique
      <4> QED
        BY <4>1, <4>2, <4>3
    <3> QED
      BY <3>1, <3>2
  <2> QED
    BY <2>3 DEF Unique
<1> QED
  BY <1>4, <1>5, <1>7, <1>8, <1>9

(* The node k of a list is unlinked. *)
LEMMA UnlinkStep ==
    ASSUME ListInv, NEW l \in Lists, NEW k \in 1..Len(content[l]), unlink(content[l][k]),
           NEW s \in Seq(Tags), content' = [content EXCEPT ![l] = s],
           Len(s) = Len(content[l]) - 1,
           \A i \in 1..Len(s) : s[i] = IF i < k THEN content[l][i] ELSE content[l][i + 1]
    PROVE  /\ Unique' /\ \A m \in Lists : Chain(m)'
           /\ content' \in [Lists -> Seq(Tags)]
           /\ next' \in [Nodes -> Nodes \union {NULL}] /\ prev' \in [Nodes -> Nodes \union {NULL}]
<1> DEFINE c == content[l]
           n == Len(content[l])
           a == Node(l, c, k - 1)
           b == Node(l, c, k + 1)
<1>0. ListTypeOK /\ Unique /\ (\A m \in Lists : Chain(m)) /\ n \in Nat /\ k \in 1..n
  BY DEF ListInv, ListTypeOK
<1>1. /\ k - 1 \in 0..n /\ k - 1 \in 0..(n + 1) /\ k \in 0..n /\ k \in 0..(n + 1) /\ k + 1 \in 0..(n + 1)
      /\ (k - 1) + 1 = k
  BY <1>0
<1>2. content[l][k] = Node(l, c, k) /\ a \in Nodes /\ b \in Nodes
  BY <1>0, <1>1, NodeFacts
<1>3. prev[Node(l, c, k)] = a /\ next[Node(l, c, k)] = b
  <2>1. Chain(l)
    BY <1>0
  <2>2. prev[Node(l, c, (k - 1) + 1)] = Node(l, c, k - 1)
    BY <1>1, <2>1 DEF Chain
  <2> QED
    BY <1>1, <2>1, <2>2 DEF Chain
<1>4. next' = [next EXCEPT ![a] = b] /\ prev' = [prev EXCEPT ![b] = a]
  BY <1>2, <1>3 DEF unlink
<1>5. /\ content' \in [Lists -> Seq(Tags)] /\ content'[l] = s
      /\ \A m \in Lists : m # l => content'[m] = content[m]
  BY <1>0 DEF ListTypeOK
<1>6. next' \in [Nodes -> Nodes \union {NULL}] /\ prev' \in [Nodes -> Nodes \union {NULL}]
  BY <1>0, <1>2, <1>4 DEF ListTypeOK
<1>7. ASSUME NEW m \in Lists, m # l PROVE Chain(m)'
  <2> SUFFICES ASSUME NEW i \in 0..Len(content[m])
               PROVE  /\ next'[Node(m, content[m], i)] = Node(m, content[m], i + 1)
                      /\ prev'[Node(m, content[m], i + 1)] = Node(m, content[m], i)
    BY <1>5, <1>7 DEF Chain
  <2>1. i \in 0..(Len(content[m]) + 1) /\ i + 1 \in 0..(Len(content[m]) + 1)
    BY <1>0 DEF ListTypeOK
  <2>2. /\ Node(m, content[m], i) # a /\ Node(m, content[m], i) \in Nodes
        /\ Node(m, content[m], i + 1) # b /\ Node(m, content[m], i + 1) \in Nodes
    BY <1>0, <1>1, <1>7, <2>1, NodeFacts
  <2> QED
    BY <1>0, <1>4, <2>2 DEF Chain, ListTypeOK
<1>8. \A i \in 0..n : Node(l, s, i) = IF i < k THEN Node(l, c, i) ELSE Node(l, c, i + 1)
  <2> SUFFICES ASSUME NEW i \in 0..n
               PROVE  Node(l, s, i) = IF i < k THEN Node(l, c, i) ELSE Node(l, c, i + 1)
    OBVIOUS
  <2>0. Len(s) = n - 1 /\ Len(c) = n
        /\ \A j \in 1..(n - 1) : s[j] = IF j < k THEN c[j] ELSE c[j + 1]
    BY <1>0
  <2> HIDE DEF n, c
  <2>1. CASE i < k
    BY <1>0, <2>0, <2>1 DEF Node
  <2>2. CASE i >= k /\ i < n
    <3>1. Node(l, s, i) = s[i] /\ s[i] = c[i + 1] /\ Node(l, c, i + 1) = c[i + 1]
      BY <1>0, <2>0, <2>2 DEF Node
    <3> QED
      BY <1>0, <2>0, <2>2, <3>1
  <2>3. CASE i = n
    <3>1. Node(l, s, i) = tail(l) /\ Node(l, c, i + 1) = tail(l)
      BY <1>0, <2>0, <2>3 DEF Node
    <3> QED
      BY <1>0, <2>0, <2>3, <3>1
  <2> QED
    BY <1>0, <2>0, <2>1, <2>2, <2>3
<1>9. Chain(l)'
  <2> SUFFICES ASSUME NEW i \in 0..(n - 1)
               PROVE  next'[Node(l, s, i)] = Node(l, s, i + 1) /\ prev'[Node(l, s, i + 1)] = Node(l, s, i)
    BY <1>5 DEF Chain
  <2>0. /\ \A j \in 0..(n + 1) : Node(l, c, j) \in Nodes
        /\ \A j \in 0..(n + 1) : j # k - 1 => Node(l, c, j) # a
        /\ \A j \in 0..(n + 1) : j # k + 1 => Node(l, c, j) # b
        /\ \A j \in 0..n : next[Node(l, c, j)] = Node(l, c, j + 1) /\ prev[Node(l, c, j + 1)] = Node(l, c, j)
        /\ next \in [Nodes -> Nodes \union {NULL}] /\ prev \in [Nodes -> Nodes \union {NULL}]
    BY <1>0, <1>1, NodeFacts DEF Chain, ListTypeOK
  <2> HIDE DEF n, c
  <2>1. CASE i < k - 1
    <3>1. /\ i \in 0..n /\ i \in 0..(n + 1) /\ i + 1 \in 0..n /\ i + 1 \in 0..(n + 1)
          /\ i < k /\ i + 1 < k /\ i # k - 1 /\ i + 1 # k + 1
      BY <1>0, <1>1, <2>1
    <3>2. Node(l, s, i) = Node(l, c, i) /\ Node(l, s, i + 1) = Node(l, c, i + 1)
      BY <1>8, <3>1
    <3> QED
      BY <1>2, <1>4, <2>0, <3>1, <3>2
  <2>2. CASE i = k - 1
    <3>1. Node(l, s, i) = a /\ Node(l, s, i + 1) = b
      BY <1>0, <1>1, <1>8, <2>2
    <3> QED
      BY <1>2, <1>4, <2>0, <3>1
  <2>3. CASE i > k - 1
    <3>0. i \in 0..n /\ i + 1 \in 0..n /\ ~(i < k) /\ ~(i + 1 < k)
      BY <1>0, <2>3
    <3>1. Node(l, s, i) = Node(l, c, i + 1) /\ Node(l, s, i + 1) = Node(l, c, (i + 1) + 1)
      BY <1>8, <3>0
    <3>2. i + 1 \in 0..n /\ i + 1 \in 0..(n + 1) /\ (i + 1) + 1 \in 0..(n + 1)
          /\ i + 1 # k - 1 /\ (i + 1) + 1 # k + 1
      BY <1>0, <2>3
    <3> QED
      BY <1>4, <2>0, <3>1, <3>2
  <2> QED
    BY <1>0, <2>1, <2>2, <2>3
<1>10. Unique'
  <2>2. ASSUME NEW m \in Lists, NEW j \in 1..Len(content'[m])
        PROVE  \E i \in 1..Len(content[m]) :
                     /\ content'[m][j] = content[m][i]
                     /\ i = IF m = l /\ j >= k THEN j + 1 ELSE j
    <3>1. CASE m # l
      BY <1>0, <1>5, <3>1 DEF ListTypeOK
    <3>2. CASE m = l
      BY <1>0, <1>5, <3>2
    <3> QED
      BY <3>1, <3>2
  <2>3. ASSUME NEW m \in Lists, NEW o \in Lists,
               NEW i \in 1..Len(content'[m]), NEW j \in 1..Len(content'[o]),
               content'[m][i] = content'[o][j]
        PROVE  m = o /\ i = j
    <3>1. PICK i1 \in 1..Len(content[m]) : /\ content'[m][i] = content[m][i1]
                                           /\ i1 = IF m = l /\ i >= k THEN i + 1 ELSE i
      BY <2>2
    <3>2. PICK j1 \in 1..Len(content[o]) : /\ content'[o][j] = content[o][j1]
                                           /\ j1 = IF o = l /\ j >= k THEN j + 1 ELSE j
      BY <2>2
    <3>3. m = o /\ i1 = j1
      BY <1>0, <2>3, <3>1, <3>2 DEF Unique
    <3> QED
      BY <3>1, <3>2, <3>3
  <2> QED
    BY <2>3 DEF Unique
<1> QED
  BY <1>5, <1>6, <1>7, <1>9, <1>10

-----------------------------------------------------------------------------
(* Nobody is inside list_push when a task that is not runs. *)
LEMMA NoPusher ==
    ASSUME ListInv, NEW t \in Tasks, Runs(t), pc[t] # "push"
    PROVE  \A u \in Tasks : pc[u] # "push"
BY DEF ListInv, PushInv, Runs, ListTypeOK, ListAssumption

(* What an insertion or a removal by an idle task leaves alone. *)
LEMMA IdleStep ==
    ASSUME ListInv, NEW t \in Tasks, Runs(t), pc[t] = "idle",
           UNCHANGED <<pc, plist, obj, elem, cpu>>,
           Unique', \A m \in Lists : Chain(m)', content' \in [Lists -> Seq(Tags)],
           next' \in [Nodes -> Nodes \union {NULL}], prev' \in [Nodes -> Nodes \union {NULL}]
    PROVE  ListInv'
<1>1. \A u \in Tasks : pc'[u] # "push"
  BY NoPusher
<1> QED
  BY <1>1 DEF ListInv, ListTypeOK, PushInv

LEMMA SearchFrame ==
    ASSUME ListInv, UNCHANGED <<prev, next, content>>
    PROVE  Unique' /\ \A l \in Lists : Chain(l)'
BY DEF ListInv, Unique, Chain

LEMMA ListStep == "push" \notin Preemptible /\ ListInv /\ [ListNext]_listVars => ListInv'
<1> SUFFICES ASSUME "push" \notin Preemptible, ListInv, [ListNext]_listVars PROVE ListInv'
  OBVIOUS
<1>0. ListTypeOK /\ Unique /\ (\A l \in Lists : Chain(l) /\ Len(content[l]) \in Nat /\ content[l] \in Seq(Tags))
  BY DEF ListInv, ListTypeOK
<1>1. ASSUME NEW t \in Tasks, NEW l \in Lists, NEW e \in Tags, list_append(t, l, e) PROVE ListInv'
  <2> DEFINE c == content[l]
             s == Append(content[l], e)
  <2>1. /\ s \in Seq(Tags) /\ Len(s) = Len(c) + 1
        /\ \A i \in 1..Len(s) : s[i] = IF i <= Len(c) THEN c[i]
                                       ELSE IF i = Len(c) + 1 THEN e ELSE c[i - 1]
    BY <1>0
  <2>2. Len(c) \in 0..Len(c) /\ tail(l) = Node(l, c, Len(c) + 1)
    BY <1>0 DEF Node
  <2>3. content' = [content EXCEPT ![l] = s] /\ \A m \in Lists : ~InList(e, m)
    BY <1>1 DEF list_append, Linkable
  <2>4. list_insert_before(Node(l, c, Len(c) + 1), e)
    BY <1>1, <2>2 DEF list_append
  <2> HIDE DEF s
  <2>5. /\ Unique' /\ \A m \in Lists : Chain(m)'
        /\ content' \in [Lists -> Seq(Tags)]
        /\ next' \in [Nodes -> Nodes \union {NULL}] /\ prev' \in [Nodes -> Nodes \union {NULL}]
    BY <2>1, <2>2, <2>3, <2>4, InsertStep
  <2> QED
    BY <1>1, <2>5, IdleStep DEF list_append
<1>2. ASSUME NEW t \in Tasks, NEW l \in Lists, NEW e \in Tags, list_push_read(t, l, e) PROVE ListInv'
  <2>1. Unique' /\ \A m \in Lists : Chain(m)'
    BY <1>2, SearchFrame DEF list_push_read
  <2>2. \A u \in Tasks : pc[u] # "push"
    BY <1>2, NoPusher DEF list_push_read
  <2>3. next[head(l)] \in Nodes \union {NULL}
    BY <1>0, EndFacts DEF ListTypeOK
  <2>4. ListTypeOK'
    BY <1>0, <1>2, <2>3 DEF list_push_read, ListTypeOK, States
  <2>5. PushInv'
    BY <1>0, <1>2, <2>2 DEF list_push_read, ListTypeOK, PushInv, Linkable, InList
  <2> QED
    BY <2>1, <2>4, <2>5 DEF ListInv
<1>3. ASSUME NEW t \in Tasks, list_push(t) PROVE ListInv'
  <2> DEFINE l == plist[t]
             e == obj[t]
             c == content[l]
             s == <<e>> \o content[l]
  <2>0. /\ l \in Lists /\ e \in Tags /\ cpu = t
        /\ elem[t] = next[head(l)] /\ \A m \in Lists : ~InList(e, m)
    BY <1>0, <1>3 DEF list_push, ListInv, PushInv, ListTypeOK
  <2>1. /\ s \in Seq(Tags) /\ Len(s) = Len(c) + 1
        /\ \A i \in 1..Len(s) : s[i] = IF i <= 0 THEN c[i] ELSE IF i = 0 + 1 THEN e ELSE c[i - 1]
    <3>1. <<e>> \in Seq(Tags) /\ Len(<<e>>) = 1 /\ <<e>>[1] = e
      BY <2>0
    <3>2. /\ <<e>> \o c \in Seq(Tags) /\ Len(<<e>> \o c) = Len(<<e>>) + Len(c)
          /\ \A i \in 1..(Len(<<e>>) + Len(c)) :
                (<<e>> \o c)[i] = IF i <= Len(<<e>>) THEN <<e>>[i] ELSE c[i - Len(<<e>>)]
      BY <1>0, <2>0, <3>1, ConcatProperties
    <3> HIDE DEF c, e
    <3>3. \A i \in 1..(1 + Len(c)) : (<<e>> \o c)[i] = IF i = 1 THEN e ELSE c[i - 1]
      BY <3>1, <3>2
    <3> QED
      BY <1>0, <2>0, <3>1, <3>2, <3>3 DEF c
  <2>2. 0 \in 0..Len(c) /\ elem[t] = Node(l, c, 0 + 1)
    <3>1. 0 \in 0..Len(c) /\ head(l) = Node(l, c, 0)
      BY <1>0, <2>0 DEF Node
    <3>2. Chain(l)
      BY <1>0, <2>0
    <3> QED
      BY <2>0, <3>1, <3>2 DEF Chain
  <2>3. content' = [content EXCEPT ![l] = s]
    BY <1>3 DEF list_push
  <2>4. list_insert_before(Node(l, c, 0 + 1), e)
    BY <1>3, <2>2 DEF list_push
  <2> HIDE DEF s, l, e
  <2>5. /\ Unique' /\ \A m \in Lists : Chain(m)'
        /\ content' \in [Lists -> Seq(Tags)]
        /\ next' \in [Nodes -> Nodes \union {NULL}] /\ prev' \in [Nodes -> Nodes \union {NULL}]
    BY <2>0, <2>1, <2>2, <2>3, <2>4, InsertStep
  <2>6. ListTypeOK'
    BY <1>0, <1>3, <2>5 DEF list_push, ListTypeOK, States
  <2>7. PushInv'
    BY <1>0, <1>3, <2>0 DEF list_push, ListTypeOK, ListInv, PushInv
  <2> QED
    BY <2>5, <2>6, <2>7 DEF ListInv
<1>4. ASSUME NEW t \in Tasks, NEW l \in Lists, NEW e \in Tags, list_remove(t, l, e) PROVE ListInv'
  <2> DEFINE c == content[l]
             s == Without(content[l], e)
             k == Index(content[l], e)
  <2>1. k \in 1..Len(c) /\ c[k] = e
    <3>1. DOMAIN c = 1..Len(c) /\ \E i \in DOMAIN c : c[i] = e
      BY <1>0, <1>4 DEF list_remove, InList
    <3> QED
      BY <3>1 DEF Index
  <2>2. /\ s \in Seq(Tags) /\ Len(s) = Len(c) - 1
        /\ \A i \in 1..Len(s) : s[i] = IF i < k THEN c[i] ELSE c[i + 1]
    <3>1. c \in Seq(Tags) /\ Len(c) \in Nat /\ Len(c) - 1 \in Nat
      BY <1>0, <2>1
    <3>2. s = [j \in 1..(Len(c) - 1) |-> c[IF j < k THEN j ELSE j + 1]]
      BY DEF Without
    <3> HIDE DEF c, k, s
    <3>3. \A j \in 1..(Len(c) - 1) : c[IF j < k THEN j ELSE j + 1] \in Tags
      BY <2>1, <3>1
    <3> QED
      BY <2>1, <3>1, <3>2, <3>3
  <2>3. content' = [content EXCEPT ![l] = s] /\ unlink(c[k])
    BY <1>4, <2>1 DEF list_remove
  <2> HIDE DEF s, k
  <2>5. /\ Unique' /\ \A m \in Lists : Chain(m)'
        /\ content' \in [Lists -> Seq(Tags)]
        /\ next' \in [Nodes -> Nodes \union {NULL}] /\ prev' \in [Nodes -> Nodes \union {NULL}]
    BY <2>1, <2>2, <2>3, UnlinkStep
  <2> QED
    BY <1>4, <2>5, IdleStep DEF list_remove
<1>5. ASSUME NEW t \in Tasks, NEW l \in Lists, list_pop(t, l) PROVE ListInv'
  <2> DEFINE c == content[l]
             s == Tail(content[l])
  <2>1. next[head(l)] = Node(l, c, 0 + 1) /\ Node(l, c, 0 + 1) # tail(l)
    <3>1. 0 \in 0..Len(c) /\ head(l) = Node(l, c, 0) /\ Chain(l)
      BY <1>0 DEF Node
    <3> QED
      BY <1>5, <3>1 DEF Chain, list_pop
  <2>2. 1 \in 1..Len(c) /\ c # << >> /\ next[head(l)] = c[1]
    BY <1>0, <2>1 DEF Node
  <2>3. /\ s \in Seq(Tags) /\ Len(s) = Len(c) - 1
        /\ \A i \in 1..Len(s) : s[i] = IF i < 1 THEN c[i] ELSE c[i + 1]
    BY <1>0, <2>2
  <2>4. content' = [content EXCEPT ![l] = s] /\ unlink(c[1])
    BY <1>5, <2>2 DEF list_pop
  <2> HIDE DEF s
  <2>5. /\ Unique' /\ \A m \in Lists : Chain(m)'
        /\ content' \in [Lists -> Seq(Tags)]
        /\ next' \in [Nodes -> Nodes \union {NULL}] /\ prev' \in [Nodes -> Nodes \union {NULL}]
    BY <2>2, <2>3, <2>4, UnlinkStep
  <2> QED
    BY <1>5, <2>5, IdleStep DEF list_pop
<1>6. ASSUME NEW t \in Tasks, NEW l \in Lists, NEW e \in Tags, elem_find(t, l, e) PROVE ListInv'
  <2>1. Unique' /\ \A m \in Lists : Chain(m)'
    BY <1>6, SearchFrame DEF elem_find
  <2>2. \A u \in Tasks : pc[u] # "push"
    BY <1>6, NoPusher DEF elem_find
  <2>3. next[head(l)] \in Nodes \union {NULL}
    BY <1>0, EndFacts DEF ListTypeOK
  <2>4. ListTypeOK'
    BY <1>0, <1>6, <2>3 DEF elem_find, ListTypeOK, States
  <2> QED
    BY <1>0, <1>6, <2>1, <2>2, <2>4 DEF elem_find, ListInv, PushInv, ListTypeOK
<1>7. ASSUME NEW t \in Tasks, walk(t) PROVE ListInv'
  <2>1. Unique' /\ \A m \in Lists : Chain(m)'
    BY <1>7, SearchFrame DEF walk, elem_find_step, elem_find_true, elem_find_false, elem_find_return
  <2>2. \A u \in Tasks : pc[u] # "push"
    BY <1>7, NoPusher DEF walk, elem_find_step, elem_find_true, elem_find_false, elem_find_return
  <2>3. ListTypeOK'
    <3>1. CASE elem_find_step(t)
      BY <1>0, <3>1 DEF elem_find_step, ListTypeOK, Successors
    <3>2. CASE ~elem_find_step(t)
      BY <1>0, <1>7, <3>2 DEF walk, elem_find_true, elem_find_false, elem_find_return, ListTypeOK, States
    <3> QED
      BY <3>1, <3>2
  <2>4. \A u \in Tasks : pc'[u] # "push"
    BY <1>0, <1>7, <2>2 DEF walk, elem_find_step, elem_find_true, elem_find_false, elem_find_return, ListTypeOK
  <2> QED
    BY <2>1, <2>3, <2>4 DEF ListInv, PushInv
<1>8. CASE UNCHANGED listVars
  BY <1>8, SearchFrame DEF listVars, ListInv, ListTypeOK, PushInv, InList
<1> QED
  BY <1>1, <1>2, <1>3, <1>4, <1>5, <1>6, <1>7, <1>8 DEF ListNext

LEMMA ListInvInit ==
    ASSUME ListAssumption
    PROVE  ListInit => ListInv
<1> SUFFICES ASSUME ListInit PROVE ListInv
  OBVIOUS
<1>1. \A l \in Lists : (CHOOSE m \in Lists : tail(l) = tail(m)) = l /\ (CHOOSE m \in Lists : head(l) = head(m)) = l
  BY EndFacts
<1>2. \A l \in Lists : next[head(l)] = tail(l) /\ prev[tail(l)] = head(l)
  BY <1>1, EndFacts DEF ListInit
<1>3. \A l \in Lists : content[l] = << >>
  BY DEF ListInit
<1>4. (CHOOSE l \in Lists : TRUE) \in Lists
  BY DEF ListAssumption
<1>5. ListTypeOK
  <2>1. \A n \in Nodes : next[n] \in Nodes \union {NULL} /\ prev[n] \in Nodes \union {NULL}
    <3>1. ASSUME NEW n \in Nodes, \E l \in Lists : n = head(l)
          PROVE  tail(CHOOSE l \in Lists : n = head(l)) \in Nodes
      BY <3>1, EndFacts
    <3>2. ASSUME NEW n \in Nodes, \E l \in Lists : n = tail(l)
          PROVE  head(CHOOSE l \in Lists : n = tail(l)) \in Nodes
      BY <3>2, EndFacts
    <3> QED
      BY <3>1, <3>2 DEF ListInit
  <2>2. << >> \in Seq(Tags)
    OBVIOUS
  <2> QED
    BY <1>4, <2>1, <2>2 DEF ListInit, ListTypeOK, States
<1>6. \A l \in Lists : Chain(l)
  BY <1>2, <1>3 DEF Chain, Node
<1> QED
  BY <1>3, <1>5, <1>6 DEF ListInv, Unique, PushInv, ListInit

(* The prev and next fields always spell the sequences that the rest of    *)
(* the model takes the lists to be, in both directions, whatever elem_find *)
(* does meanwhile, as long as list_push runs with interrupts off.          *)
THEOREM ListsAreLinked ==
    ASSUME ListAssumption, "push" \notin Preemptible
    PROVE  ListSpec => []Linked
<1>1. ASSUME ListInv PROVE Linked
  <2> SUFFICES ASSUME NEW l \in Lists, NEW i \in 1..(Len(content[l]) + 1)
               PROVE  next[Path(l)[i]] = Path(l)[i + 1] /\ prev[Path(l)[i + 1]] = Path(l)[i]
    BY DEF Linked
  <2> DEFINE c == content[l]
             n == Len(content[l])
  <2>1. c \in Seq(Tags) /\ n \in Nat /\ Chain(l)
    BY <1>1 DEF ListInv, ListTypeOK
  <2>2. \A j \in 1..(n + 2) : Path(l)[j] = Node(l, c, j - 1)
    BY <2>1 DEF Path, Node
  <2>3. i \in 1..(n + 2) /\ i + 1 \in 1..(n + 2) /\ i - 1 \in 0..n /\ (i + 1) - 1 = (i - 1) + 1
    BY <2>1
  <2>4. next[Node(l, c, i - 1)] = Node(l, c, (i - 1) + 1) /\ prev[Node(l, c, (i - 1) + 1)] = Node(l, c, i - 1)
    BY <2>1, <2>3 DEF Chain
  <2> QED
    BY <2>2, <2>3, <2>4
<1>2. ListInit => ListInv
  BY ListInvInit
<1> QED
  BY <1>1, <1>2, ListStep, PTL DEF ListSpec

-----------------------------------------------------------------------------
LEMMA NoFinder ==
    ASSUME FindInv, NEW t \in Tasks, Runs(t), ListTypeOK,
           NEW u \in Tasks, pc[u] \in {"find", "true", "false"}
    PROVE  u = t
BY DEF FindInv, Runs, ListTypeOK, ListAssumption

(* Nobody searches while the lists change. *)
LEMMA ChangeStep ==
    ASSUME ListInv, FindInv, NEW t \in Tasks, Runs(t), pc[t] \in {"idle", "push"},
           \A u \in Tasks : u # t => pc'[u] = pc[u],
           pc'[t] \in {"idle", "push"}
    PROVE  FindInv'
<1>1. \A u \in Tasks : pc[u] \notin {"find", "true", "false"}
  BY NoFinder DEF ListInv
<1> QED
  BY <1>1 DEF FindInv

LEMMA FindStep ==
    Preemptible = {} /\ ListInv /\ FindInv /\ [ListNext]_listVars => FindInv'
<1> SUFFICES ASSUME Preemptible = {}, ListInv, FindInv, [ListNext]_listVars PROVE FindInv'
  OBVIOUS
<1>0. ListTypeOK /\ Unique /\ (\A l \in Lists : Chain(l) /\ Len(content[l]) \in Nat /\ content[l] \in Seq(Tags))
  BY DEF ListInv, ListTypeOK
<1>1. ASSUME NEW t \in Tasks, NEW l \in Lists, NEW e \in Tags,
             list_append(t, l, e) \/ list_remove(t, l, e)
      PROVE  FindInv'
  BY <1>0, <1>1, ChangeStep DEF list_append, list_remove
<1>2. ASSUME NEW t \in Tasks, NEW l \in Lists, list_pop(t, l) PROVE  FindInv'
  BY <1>0, <1>2, ChangeStep DEF list_pop
<1>3. ASSUME NEW t \in Tasks, NEW l \in Lists, NEW e \in Tags, list_push_read(t, l, e) PROVE FindInv'
  BY <1>0, <1>3, ChangeStep DEF list_push_read, ListTypeOK
<1>4. ASSUME NEW t \in Tasks, list_push(t) PROVE FindInv'
  BY <1>0, <1>4, ChangeStep DEF list_push, ListTypeOK
<1>5. ASSUME NEW t \in Tasks, NEW l \in Lists, NEW e \in Tags, elem_find(t, l, e) PROVE FindInv'
  <2>0. /\ pc' = [pc EXCEPT ![t] = "find"] /\ plist' = [plist EXCEPT ![t] = l]
        /\ obj' = [obj EXCEPT ![t] = e] /\ elem' = [elem EXCEPT ![t] = next[head(l)]]
        /\ cpu' = t /\ content' = content
    BY <1>5 DEF elem_find
  <2>1. \A u \in Tasks : u # t => pc[u] \notin {"find", "true", "false"}
    BY <1>0, <1>5, NoFinder DEF elem_find
  <2>2. 1 \in 1..(Len(content[l]) + 1) /\ next[head(l)] = Node(l, content[l], 1)
    <3>1. 0 \in 0..Len(content[l]) /\ head(l) = Node(l, content[l], 0) /\ Chain(l) /\ 0 + 1 = 1
      BY <1>0 DEF Node
    <3> QED
      BY <1>0, <3>1 DEF Chain
  <2>3. plist'[t] = l /\ obj'[t] = e /\ elem'[t] = next[head(l)] /\ pc'[t] = "find"
    BY <1>0, <2>0 DEF ListTypeOK
  <2>4. Searching(t, 1)'
    BY <2>0, <2>2, <2>3 DEF Searching
  <2>5. \E i \in 1..(Len(content'[plist'[t]]) + 1) : Searching(t, i)'
    BY <2>0, <2>2, <2>3, <2>4
  <2> QED
    BY <1>0, <2>0, <2>1, <2>3, <2>5 DEF FindInv, ListTypeOK
<1>6. ASSUME NEW t \in Tasks, walk(t) PROVE FindInv'
  <2>0. /\ UNCHANGED <<content, plist>> /\ pc[t] \in {"find", "true", "false"} /\ Runs(t)
        /\ plist[t] \in Lists /\ cpu = t /\ obj[t] \in Tags
    BY <1>0, <1>6 DEF walk, elem_find_step, elem_find_true, elem_find_false, elem_find_return, FindInv, ListTypeOK
  <2>1. \A u \in Tasks : u # t => pc[u] \notin {"find", "true", "false"}
    BY <1>0, <2>0, NoFinder
  <2> DEFINE l == plist[t]
             c == content[plist[t]]
  <2>2. ASSUME pc[t] = "find"
        PROVE  /\ \E i \in 1..(Len(c) + 1) : Searching(t, i)
               /\ Len(c) \in Nat
    BY <1>0, <2>0, <2>2 DEF FindInv
  <2>3. CASE elem_find_step(t)
    <3>0. pc[t] = "find" /\ elem[t] # tail(l) /\ elem[t] # obj[t] /\ UNCHANGED <<pc, obj, cpu>>
      BY <2>3 DEF elem_find_step
    <3>1. PICK i \in 1..(Len(c) + 1) : Searching(t, i)
      BY <2>2, <3>0
    <3>2. Len(c) \in Nat /\ i \in 1..Len(c) /\ i + 1 \in 1..(Len(c) + 1)
      BY <2>2, <3>0, <3>1 DEF Searching, Node
    <3>3. elem[t] = c[i] /\ c[i] \in Tags /\ elem[t] # NULL
      BY <1>0, <2>0, <3>1, <3>2 DEF Searching, Node, ListTypeOK, ListAssumption
    <3>4. elem' = [elem EXCEPT ![t] = next[elem[t]]]
      BY <2>3, <3>3 DEF elem_find_step, Successors
    <3>5. next[elem[t]] = Node(l, c, i + 1)
      <4>1. i \in 0..Len(c) /\ Chain(l) /\ elem[t] = Node(l, c, i)
        BY <1>0, <2>0, <3>1, <3>2 DEF Searching
      <4> QED
        BY <4>1 DEF Chain
    <3>6. \A j \in 1..i : c[j] # obj[t]
      <4>1. \A j \in 1..(i - 1) : c[j] # obj[t]
        BY <3>1 DEF Searching
      <4> QED
        BY <3>0, <3>2, <3>3, <4>1
    <3>7. Searching(t, i + 1)'
      <4>1. elem'[t] = Node(l, c, i + 1)
        BY <1>0, <3>4, <3>5 DEF ListTypeOK
      <4>2. (i + 1) - 1 = i
        BY <3>2
      <4> QED
        BY <2>0, <3>0, <3>2, <3>6, <4>1, <4>2 DEF Searching
    <3>8. \E j \in 1..(Len(content'[plist'[t]]) + 1) : Searching(t, j)'
      BY <2>0, <3>2, <3>7
    <3> QED
      BY <2>0, <2>1, <3>0, <3>8 DEF FindInv
  <2>4. CASE elem_find_true(t)
    <3>0. /\ pc[t] = "find" /\ elem[t] # tail(l) /\ elem[t] = obj[t]
          /\ UNCHANGED <<obj, elem, cpu>> /\ pc' = [pc EXCEPT ![t] = "true"]
      BY <2>4 DEF elem_find_true
    <3>1. PICK i \in 1..(Len(c) + 1) : Searching(t, i)
      BY <2>2, <3>0
    <3>2. Len(c) \in Nat /\ i \in 1..Len(c) /\ c[i] = obj[t]
      BY <2>2, <3>0, <3>1 DEF Searching, Node
    <3>3. InList(obj[t], l)'
      <4>1. DOMAIN c = 1..Len(c)
        BY <1>0, <2>0
      <4> QED
        BY <2>0, <3>0, <3>2, <4>1 DEF InList
    <3> QED
      BY <1>0, <2>0, <2>1, <3>0, <3>3 DEF FindInv, ListTypeOK
  <2>5. CASE elem_find_false(t)
    <3>0. /\ pc[t] = "find" /\ elem[t] = tail(l)
          /\ UNCHANGED <<obj, elem, cpu>> /\ pc' = [pc EXCEPT ![t] = "false"]
      BY <2>5 DEF elem_find_false
    <3>1. PICK i \in 1..(Len(c) + 1) : Searching(t, i)
      BY <2>2, <3>0
    <3>2. Len(c) \in Nat /\ i = Len(c) + 1
      <4>1. i \in 1..Len(c) => c[i] \in Tags
        BY <1>0, <2>0
      <4>2. l \in Lists /\ tail(l) \notin Tags
        BY <1>0, <2>0, EndFacts DEF ListTypeOK
      <4>3. Len(c) \in Nat /\ Node(l, c, i) = tail(l)
        BY <2>2, <3>0, <3>1 DEF Searching
      <4>4. i \in 1..Len(c) => Node(l, c, i) = c[i]
        BY <4>3 DEF Node
      <4>5. i \notin 1..Len(c)
        BY <4>1, <4>2, <4>3, <4>4
      <4> QED
        BY <3>1, <4>3, <4>5
    <3>3. ~InList(obj[t], l)'
      <4>1. DOMAIN c = 1..Len(c) /\ \A j \in 1..Len(c) : c[j] # obj[t]
        BY <1>0, <2>0, <3>1, <3>2 DEF Searching
      <4> QED
        BY <2>0, <3>0, <4>1 DEF InList
    <3> QED
      BY <1>0, <2>0, <2>1, <3>0, <3>3 DEF FindInv, ListTypeOK
  <2>6. CASE elem_find_return(t)
    BY <1>0, <2>0, <2>1, <2>6 DEF elem_find_return, FindInv, ListTypeOK
  <2> QED
    BY <1>6, <2>3, <2>4, <2>5, <2>6 DEF walk
<1>7. CASE UNCHANGED listVars
  BY <1>7 DEF listVars, FindInv, Searching, InList
<1> QED
  BY <1>1, <1>2, <1>3, <1>4, <1>5, <1>6, <1>7 DEF ListNext

(* elem_find with interrupts off, on lists of any length: it stays in its  *)
(* list, and its answer is right when it is given.                         *)
THEOREM FindIsExact ==
    ASSUME ListAssumption, Preemptible = {}
    PROVE  ListSpec => []FindExact
<1>1. ASSUME ListInv, FindInv PROVE FindExact
  <2>1. ASSUME NEW t \in Tasks, pc[t] = "find" PROVE elem[t] \in Tags \union {tail(plist[t])}
    <3>1. plist[t] \in Lists /\ content[plist[t]] \in Seq(Tags)
      BY <1>1 DEF ListInv, ListTypeOK
    <3>2. PICK i \in 1..(Len(content[plist[t]]) + 1) : Searching(t, i)
      BY <1>1, <2>1 DEF FindInv
    <3> QED
      BY <3>1, <3>2 DEF Searching, Node
  <2> QED
    BY <1>1, <2>1 DEF FindInv, FindExact, FindStays
<1>2. ListInit => FindInv
  BY DEF ListInit, FindInv
<1>3. "push" \notin Preemptible
  OBVIOUS
<1>4. ListInit => ListInv
  BY ListInvInit
<1> QED
  BY <1>1, <1>2, <1>3, <1>4, ListStep, FindStep, PTL DEF ListSpec
=============================================================================
