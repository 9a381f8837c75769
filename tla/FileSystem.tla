----------------------------- MODULE FileSystem -----------------------------
(***************************************************************************)
(* The directory tree of dcc605fs on disk (fs.c): inodes, their nodeinfos, *)
(* data blocks and the list of free blocks, and the calls of fs.h as the   *)
(* sequences of block operations the code makes of them.  A call is one    *)
(* step: the image is locked by the process that opened it.                *)
(*                                                                         *)
(* The calls are restricted to what the code is written for: see Reaches,  *)
(* Creatable and RoomFor.                                                  *)
(***************************************************************************)
EXTENDS Integers, SequencesExt

CONSTANTS
  NBlocks,    \* sb->blks
  BlkSz,      \* sb->blksz, in bytes
  MaxLinks,   \* get_max_links_in_node
  Names,      \* names of entities
  MaxDepth,   \* bound: names in a path
  Contents,   \* what is written to files: sequences of bytes
  Overwrites, \* files that hold data may be written again
  Dir,        \* what the path of a directory stands for
  Garbage     \* a byte that is not from a data block

\* What fs_format asks of an image is stronger.
ASSUME FormatAssumption ==
  /\ NBlocks \in Nat /\ NBlocks > 3
  /\ BlkSz \in Nat \ {0} /\ MaxLinks \in Nat \ {0}

ASSUME CallersAssumption ==
  /\ MaxDepth \in Nat
  /\ \A c \in Contents : c \in Seq(Range(c))

\* No file holds what a directory stands for.
ASSUME DirAssumption == Dir \notin Contents

VARIABLES
  fs,   \* the image: freelist and freeblks of the superblock, and the blocks
  call, \* the last call: <<function, path, what to write, "ok" or the errno>>
  tree  \* history: what a caller sees of the image

vars == <<fs, call, tree>>

Paths == UNION {[1..n -> Names] : n \in 0..MaxDepth}
Blocks == 0..(NBlocks - 1)
root == 1

\* The structs a block may hold.  links stops before the first zero.
Super == [kind |-> "super"]
FreePage(next) == [kind |-> "free", next |-> next]
NodeInfo(size, name) == [kind |-> "info", size |-> size, name |-> name]
INode(mode, parent, meta, links) ==
  [kind |-> "inode", mode |-> mode, parent |-> parent, meta |-> meta, next |-> 0,
   links |-> links]
Data(bytes) == [kind |-> "data", bytes |-> bytes]

\* fs_format, without its lower bounds on the number and the size of blocks.
Init ==
  /\ fs = [freelist |-> 3, freeblks |-> NBlocks - 4,
           disk |-> [b \in Blocks |->
             CASE b = 0 -> Super
               [] b = root -> INode("DIR", root, 2, <<>>)
               [] b = 2 -> NodeInfo(0, "/")
               [] OTHER -> FreePage(IF b + 1 = NBlocks THEN 0 ELSE b + 1)]]
  /\ call = <<"format", <<>>, <<>>, "ok">>
  /\ tree = [p \in {<<>>} |-> Dir]

-----------------------------------------------------------------------------
(* Blocks.  S is an image. *)

Save(S, b, x) == [S EXCEPT !.disk[b] = x]

\* fs_get_block: the block it returns,
NewBlock(S) == IF S.freeblks = 0 THEN 0 ELSE S.freelist

\* and the image it leaves.
fs_get_block(S) ==
  IF S.freeblks = 0 THEN S
  ELSE [S EXCEPT !.freelist = S.disk[S.freelist].next, !.freeblks = @ - 1,
                 !.disk[0] = Super]

\* The freepage is written before the superblock.
fs_put_block(S, b) ==
  [Save(Save(S, b, FreePage(S.freelist)), 0, Super)
     EXCEPT !.freelist = b, !.freeblks = @ + 1]

\* fs_put_block of all blocks of a sequence, in its order.
PutBlocks(S, blocks) ==
  LET put[k \in 0..Len(blocks)] ==
        IF k = 0 THEN S ELSE fs_put_block(put[k - 1], blocks[k])
  IN put[Len(blocks)]

\* The blocks of a list, from its head to the first one whose next is zero: the
\* inodes of an entity from its header, the free blocks from freelist.
Nodes(S, header) ==
  LET after[k \in 0..NBlocks] == IF k = 0 THEN header ELSE S.disk[after[k - 1]].next
      Ends(n) == S.disk[after[n - 1]].next = 0
      len == CHOOSE n \in 1..NBlocks : Ends(n) /\ \A k \in 1..(n - 1) : ~Ends(k)
  IN [k \in 1..len |-> after[k - 1]]

\* The links of some inodes.
LinksOf(S, nodes) == FlattenSeq([k \in DOMAIN nodes |-> S.disk[nodes[k]].links])

InfoOf(S, b) == S.disk[S.disk[b].meta]

-----------------------------------------------------------------------------
(* Inodes *)

\* A zero at the end of links is the end of links.
Linked(links, b) == IF b = 0 THEN links ELSE Append(links, b)

\* link_node_to_nodelist with the header ref: b goes to the first inode with
\* space, or to a new one at the end.
link_node_to_nodelist(S, ref, b, nbytes) ==
  LET nodes == Nodes(S, ref)
      k == SelectInSeq(nodes, LAMBDA n : Len(S.disk[n].links) < MaxLinks)
      new == NewBlock(S)
      T == IF k # 0
           THEN [S EXCEPT !.disk[nodes[k]].links = Linked(@, b)]
           ELSE Save([fs_get_block(S) EXCEPT !.disk[Last(nodes)].next = new],
                     new, INode("CHILD", ref, Last(nodes), Linked(<<>>, b)))
      grown == IF S.disk[ref].mode = "DIR" THEN 1 ELSE nbytes
  IN [T EXCEPT !.disk[S.disk[ref].meta].size = @ + grown]

\* create_entity: the nodeinfo, the inode, and the link in the directory.
create_entity(S, parent, name, mode) ==
  LET info == NewBlock(S)
      S1 == Save(fs_get_block(S), info, NodeInfo(0, name))
      e == NewBlock(S1)
      S2 == Save(fs_get_block(S1), e, INode(mode, parent, info, <<>>))
  IN link_node_to_nodelist(S2, parent, e, 0)

\* The block of the inode that create_entity makes.
CreatedBlock(S) == NewBlock(fs_get_block(S))

\* A bug the code does not have: what remains is written even if it is nothing.
ChunksAndRest(c) ==
  [i \in 1..(Len(c) \div BlkSz + 1) |->
     SubSeq(c, (i - 1) * BlkSz + 1, IF i * BlkSz < Len(c) THEN i * BlkSz ELSE Len(c))]

\* The pieces of a file that go to one block each: the last one is not empty.
Chunks(c) ==
  [i \in 1..((Len(c) + BlkSz - 1) \div BlkSz) |->
     SubSeq(c, (i - 1) * BlkSz + 1, IF i * BlkSz < Len(c) THEN i * BlkSz ELSE Len(c))]

\* One turn of the loop of write_to_file.
WriteChunk(S, file, chunk) ==
  LET b == NewBlock(S)
  IN link_node_to_nodelist(Save(fs_get_block(S), b, Data(chunk)), file, b, Len(chunk))

write_to_file(S, file, c) ==
  LET written[k \in 0..Len(Chunks(c))] ==
        IF k = 0 THEN S ELSE WriteChunk(written[k - 1], file, Chunks(c)[k])
  IN written[Len(Chunks(c))]

\* A bug the code does not have: the child inodes are not put back.
BlocksOfFileButInodes(S, file) == LinksOf(S, Nodes(S, file))

\* The blocks free_file_data_blocks puts back, in its order.
BlocksOfFile(S, file) ==
  S.disk[file].links \o
  FlattenSeq([k \in 1..(Len(Nodes(S, file)) - 1) |->
                LET n == Nodes(S, file)[k + 1] IN Append(S.disk[n].links, n)])

\* The header keeps its links.
free_file_data_blocks(S, file) ==
  LET T == PutBlocks(S, BlocksOfFile(S, file))
  IN [Save(T, file, [S.disk[file] EXCEPT !.next = 0])
        EXCEPT !.disk[S.disk[file].meta].size = 0]

\* A bug the code does not have: the links behind the removed one are not
\* shifted, and the zero in its place ends the directory.
UnlinkWithoutShift(S, dir, b) ==
  LET n == CHOOSE k \in Range(Nodes(S, dir)) : Contains(S.disk[k].links, b)
      Before(links) == SubSeq(links, 1, SelectInSeq(links, LAMBDA l : l = b) - 1)
  IN [S EXCEPT !.disk[n].links = Before(@), !.disk[S.disk[dir].meta].size = @ - 1]

\* A bug the code does not have: the size of the directory is not reduced.
UnlinkWithoutCount(S, dir, b) ==
  LET n == CHOOSE k \in Range(Nodes(S, dir)) : Contains(S.disk[k].links, b)
  IN [S EXCEPT !.disk[n].links = RemoveFirst(@, b)]

\* unlink_node: an inode that becomes empty, if it is not the header, leaves
\* the chain with all that follow it, and block 0 is put back in its place.
unlink_node(S, dir, b) ==
  LET nodes == Nodes(S, dir)
      n == nodes[SelectInSeq(nodes, LAMBDA k : Contains(S.disk[k].links, b))]
      links == RemoveFirst(S.disk[n].links, b)
      S1 == [S EXCEPT !.disk[n].links = links]
      S2 == IF links = <<>> /\ S.disk[n].mode = "CHILD"
            THEN fs_put_block([S1 EXCEPT !.disk[S.disk[n].meta].next = 0], 0)
            ELSE S1
  IN [S2 EXCEPT !.disk[S.disk[dir].meta].size = @ - 1]

\* get_inode_block: the deepest inode on the path that exists, whether that is
\* the whole path, and the name it stopped at.  Only the first inode of a
\* directory is searched: for the next one the code reads at byte `next' of
\* the image, where there is no inode.  (Links of a file are not entities:
\* Reaches keeps the calls from a path through a file.)
Descend(S, at, name) ==
  LET links == S.disk[at.block].links
      k == SelectInSeq(links, LAMBDA e : InfoOf(S, e).name = name)
  IN CASE ~at.full_match -> at
       [] at.full_match /\ (S.disk[at.block].mode # "DIR" \/ k = 0) ->
            [at EXCEPT !.full_match = FALSE, !.left_over = name]
       [] OTHER -> [at EXCEPT !.block = links[k]]

get_inode_block(S, path) ==
  LET at[k \in 0..Len(path)] ==
        IF k = 0 THEN [block |-> root, full_match |-> TRUE, left_over |-> "/"]
        ELSE Descend(S, at[k - 1], path[k])
  IN at[Len(path)]

-----------------------------------------------------------------------------
(* Reading *)

\* The first n bytes of block b.
Read(S, b, n) ==
  IF S.disk[b].kind = "data" /\ n <= Len(S.disk[b].bytes)
  THEN SubSeq(S.disk[b].bytes, 1, n) ELSE [i \in 1..n |-> Garbage]

\* fs_read_file: `full' whole blocks, the last one from inode k, and then the
\* remaining data.  The code goes to the inode after k, if there is one,
\* whether or not it read all of k.  Where the links end too early it reads
\* block 0 or never returns.
fs_read_file(S, file) ==
  LET nodes == Nodes(S, file)
      size == InfoOf(S, file).size
      full == IF size = 0 THEN 0 ELSE (size - 1) \div BlkSz
      LinksUpTo(k) == LinksOf(S, SubSeq(nodes, 1, k))
      k == CHOOSE j \in DOMAIN nodes :
             /\ Len(LinksUpTo(j)) >= full
             /\ \A i \in 1..(j - 1) : Len(LinksUpTo(i)) < full
      rest == IF full > 0 /\ k < Len(nodes) THEN S.disk[nodes[k + 1]].links
              ELSE SubSeq(LinksUpTo(k), full + 1, Len(LinksUpTo(k)))
  IN IF size = 0 THEN <<>>
     ELSE IF Len(LinksOf(S, nodes)) < full \/ rest = <<>> THEN <<Garbage>>
     ELSE FlattenSeq([i \in 1..full |-> Read(S, LinksUpTo(k)[i], BlkSz)])
          \o Read(S, rest[1], size - full * BlkSz)

\* A bug the code does not have: the loop ends before the last inode.
ListWithoutLast(S, dir) ==
  LET entries == LinksOf(S, Front(Nodes(S, dir)))
  IN [i \in DOMAIN entries |->
        <<InfoOf(S, entries[i]).name, S.disk[entries[i]].mode = "DIR">>]

\* fs_list_dir: the entities of a directory and whether they are directories.
fs_list_dir(S, dir) ==
  LET entries == LinksOf(S, Nodes(S, dir))
  IN [i \in DOMAIN entries |->
        <<InfoOf(S, entries[i]).name, S.disk[entries[i]].mode = "DIR">>]

\* What a caller sees that looks up every path and reads every file.
SeenTree(S) ==
  LET found == {p \in Paths : get_inode_block(S, p).full_match}
      Seen(b) == IF S.disk[b].mode = "DIR" THEN Dir ELSE fs_read_file(S, b)
  IN [p \in found |-> Seen(get_inode_block(S, p).block)]

-----------------------------------------------------------------------------
(* The calls *)

At(p) == get_inode_block(fs, p)
IsDir(p) == At(p).full_match /\ fs.disk[At(p).block].mode = "DIR"
IsFile(p) == At(p).full_match /\ fs.disk[At(p).block].mode = "REG"

\* What the code takes for granted of a path ("Assuming that the path is
\* correct"): it does not go through a file,
Reaches(p) == \A n \in 1..(Len(p) - 1) : ~IsFile(SubSeq(p, 1, n))

\* and an entity that is created goes to a directory that exists and has space
\* in its first inode, the only one that is searched.
Creatable(p) ==
  \/ At(p).full_match
  \/ IsDir(Front(p)) /\ Len(fs.disk[At(p).block].links) < MaxLinks

\* fs_get_block returns zero to callers that do not look: the blocks that a
\* new entity with these contents takes are there.
RoomFor(p, c) ==
  LET n == Len(Chunks(c))
      inodes == IF n = 0 THEN 0 ELSE (n - 1) \div MaxLinks
      entity == IF At(p).full_match THEN 0 ELSE 2
  IN entity + inodes + n <= fs.freeblks

Return(f, p, c, S, ret) ==
  /\ fs' = S
  /\ call' = <<f, p, c, ret>>
  /\ tree' = SeenTree(fs')

fs_write_file(p, c) ==
  LET num_blocks == IF Len(c) < BlkSz THEN 1 ELSE Len(c) \div BlkSz
      file == IF At(p).full_match THEN At(p).block ELSE CreatedBlock(fs)
      S == IF At(p).full_match THEN free_file_data_blocks(fs, file)
           ELSE create_entity(fs, At(p).block, At(p).left_over, "REG")
  IN
  \/ num_blocks > fs.freeblks /\ Return("write", p, c, fs, "ENOSPC")
  \/ /\ num_blocks <= fs.freeblks
     /\ Reaches(p) /\ Creatable(p) /\ ~IsDir(p) /\ RoomFor(p, c)
     /\ IsFile(p) => (Overwrites \/ fs.disk[file].links = <<>>)
     /\ Return("write", p, c, write_to_file(S, file, c), "ok")

fs_mkdir(p) ==
  \/ At(p).full_match /\ Reaches(p) /\ Return("mkdir", p, <<>>, fs, "EEXIST")
  \/ /\ ~At(p).full_match
     /\ Reaches(p) /\ Creatable(p) /\ RoomFor(p, <<>>)
     /\ Return("mkdir", p, <<>>, create_entity(fs, At(p).block, At(p).left_over, "DIR"), "ok")

\* Takes entity b out of its directory, then puts back its nodeinfo and inode.
Removed(S, b) ==
  fs_put_block(fs_put_block(unlink_node(S, S.disk[b].parent, b), S.disk[b].meta), b)

fs_unlink(p) ==
  /\ Reaches(p) /\ ~IsDir(p)
  /\ \/ ~At(p).full_match /\ Return("unlink", p, <<>>, fs, "ENOENT")
     \/ /\ At(p).full_match
        /\ Return("unlink", p, <<>>, Removed(free_file_data_blocks(fs, At(p).block), At(p).block), "ok")

\* The root, which is its own parent, is not removed.
fs_rmdir(p) ==
  /\ Reaches(p)
  /\ \/ ~At(p).full_match /\ Return("rmdir", p, <<>>, fs, "ENOENT")
     \/ IsFile(p) /\ Return("rmdir", p, <<>>, fs, "ENOTDIR")
     \/ /\ IsDir(p) /\ InfoOf(fs, At(p).block).size # 0
        /\ Return("rmdir", p, <<>>, fs, "ENOTEMPTY")
     \/ /\ IsDir(p) /\ InfoOf(fs, At(p).block).size = 0 /\ p # <<>>
        /\ Return("rmdir", p, <<>>, Removed(fs, At(p).block), "ok")

Next ==
  \E p \in Paths :
    \/ \E c \in Contents : fs_write_file(p, c)
    \/ fs_mkdir(p) \/ fs_unlink(p) \/ fs_rmdir(p)

Spec == Init /\ [][Next]_vars

-----------------------------------------------------------------------------
(* Correctness properties *)

Found == {p \in Paths : At(p).full_match}
Entities == {At(p).block : p \in Found}
IsRegular(e) == fs.disk[e].mode = "REG"

\* Every block holds one of the structs of fs.h, or data, and block 0 always the
\* superblock; no size or count goes below zero.
TypeOK ==
  /\ fs.freelist \in Blocks /\ fs.freeblks \in 0..NBlocks
  /\ DOMAIN fs.disk = Blocks /\ fs.disk[0] = Super
  /\ \A b \in Blocks \ {0} :
       \/ fs.disk[b] \in [kind : {"free"}, next : Blocks]
       \/ fs.disk[b].kind = "info" /\ fs.disk[b].size \in Nat /\ fs.disk[b].name \in Names \cup {"/"}
       \/ fs.disk[b].kind = "data" /\ Len(fs.disk[b].bytes) \in 1..BlkSz
       \/ /\ fs.disk[b].kind = "inode" /\ fs.disk[b].mode \in {"DIR", "REG", "CHILD"}
          /\ {fs.disk[b].parent, fs.disk[b].meta, fs.disk[b].next} \cup Range(fs.disk[b].links)
               \subseteq Blocks
          /\ Len(fs.disk[b].links) <= MaxLinks

\* The blocks of one entity: inodes, nodeinfo and, of a file, data.
BlocksOf(e) ==
  Nodes(fs, e) \o <<fs.disk[e].meta>>
    \o (IF IsRegular(e) THEN LinksOf(fs, Nodes(fs, e)) ELSE <<>>)

FreeBlocks == Nodes(fs, fs.freelist)

\* Every block is the superblock, free, or in one place of one entity: calls
\* neither leak a block nor give it to two.
BlocksArePartitioned ==
  /\ \A e \in Entities : IsInjective(BlocksOf(e))
  /\ \A e, f \in Entities : e # f => Range(BlocksOf(e)) \cap Range(BlocksOf(f)) = {}
  /\ Blocks = {0} \cup Range(FreeBlocks) \cup UNION {Range(BlocksOf(e)) : e \in Entities}
  /\ \A e \in Entities : Range(BlocksOf(e)) \cap Range(FreeBlocks) = {}

\* The bytes in the data blocks of a file.
Bytes(S, links) ==
  LET sum[k \in 0..Len(links)] ==
        IF k = 0 THEN 0 ELSE sum[k - 1] + Len(S.disk[links[k]].bytes)
  IN sum[Len(links)]

\* inodes as fs.h describes them: a header points up to its directory, a child
\* to its header and to the inode before it, and is there only when the one
\* before is full; size counts the entries of a directory, the bytes of a file.
InodesAreLinked ==
  \A e \in Entities :
    LET nodes == Nodes(fs, e)
        links == LinksOf(fs, nodes)
    IN
    /\ e \in Range(fs.disk[fs.disk[e].parent].links) \/ e = root
    /\ \A k \in 2..Len(nodes) :
         /\ fs.disk[nodes[k]].mode = "CHILD"
         /\ fs.disk[nodes[k]].parent = e
         /\ fs.disk[nodes[k]].meta = nodes[k - 1]
         /\ Len(fs.disk[nodes[k - 1]].links) = MaxLinks
         /\ fs.disk[nodes[k]].links # <<>>
    /\ InfoOf(fs, e).size =
         IF IsRegular(e) THEN Bytes(fs, links) ELSE Len(links)

\* What fs.h says of the links of a regular inode: they "point to this file's
\* data blocks".  fs_write_file keeps it only for files that hold no data.
LinksAreDataBlocks ==
  \A e \in Entities : IsRegular(e) =>
    \A b \in Range(LinksOf(fs, Nodes(fs, e))) : fs.disk[b].kind = "data"

\* fs_list_dir shows every entity that can be looked up, once and as what it is.
ListsWhatIsThere ==
  \A p \in Found : IsDir(p) =>
    LET list == fs_list_dir(fs, At(p).block) IN
    /\ IsInjective(list)
    /\ Len(p) < MaxDepth =>
         Range(list) = {<<n, IsDir(Append(p, n))>> :
                          n \in {m \in Names : Append(p, m) \in Found}}

DT == INSTANCE DirectoryTree

\* The calls do to the tree what they are for, and nothing else.
ImplementsTree == DT!Spec
=============================================================================
