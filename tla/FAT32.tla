-------------------------------- MODULE FAT32 --------------------------------
(***************************************************************************)
(* The ramfs: FAT32's mount (the Entry tree the FAT32 constructor        *)
(* builds, fs/fat32/entry*.cpp), find_entry, file_type, file_size and      *)
(* read_file, FileContextFAT32 (open, read, copy, close) as syscall_open   *)
(* and syscall_read drive it, and FAT32::write_file with the cluster       *)
(* allocation under it.                                                    *)
(*                                                                         *)
(* The image mounted is a constant.  Its FAT is a function from cluster    *)
(* numbers to the 32-bit values stored; a cluster's directory view is a    *)
(* sequence of 32-byte slots, each a record of the fields the parser       *)
(* reads (attribute byte, name, first cluster, size).  A name is a model   *)
(* value; a long name is the one its LONG_NAME slots spell.  A data byte   *)
(* is named by where it lies on disk: <<"img", cluster, byte in cluster>>.*)
(* write_file changes the disk: `fat`, the sectors' contents in `data`     *)
(* and the size fields of directory slots in `dsize`.  A written sector   *)
(* holds the write's token: byte j is <<"w", token, j>> below the data's  *)
(* last non-zero byte and Zero after it.                                  *)
(* A path is the sequence of names parse_file_path splits it into.        *)
(***************************************************************************)
EXTENDS Integers, Sequences, TLC

CONSTANTS BytesPerSector,     \* boot sector field at 11 (512 on the ramfs)
          SectorsPerCluster,  \* boot sector field at 13
          TotalSectors,       \* boot sector field at 32
          DataStart,          \* data_region_start_cluster_offset
          Image,              \* [fat |-> .., dir |-> ..]: the ramfs contents
          Paths,              \* paths syscall_open is given
          ReadSizes,          \* n of read(fd, buf, n)
          Ctxs,               \* FileContextFAT32 objects that may exist
          SectorsPerFat,      \* boot sector field at 36
          WriteSectors,       \* sector_offset of write_file
          WriteLens,          \* 1 + the index of the last non-zero byte written
          CreatePaths,        \* paths create_file and create_dir are given
          MaxCalls            \* bound on syscalls and write_file calls

VARIABLES entries,   \* the mounted Entry objects, by the disk slot they parse
          fault,     \* "none"; "oob": a disk access outside the image;
                     \* "null", "ub": a null or out-of-range dereference
          ctx,       \* FileContextFAT32 objects: [path, pos], or NoCtx
          ret,       \* the caller's return register
          lastRead,  \* ghost: the last read's request and what it copied
          fat,       \* the FAT on disk
          data,      \* disk sector -> Orig, or the write that filled it
          dsize,     \* the size field of each mounted slot on disk
          written,   \* ghost: <<key, sector_offset>> -> the last write there
          dir,       \* disk cluster -> its sequence of directory slots
          calls

vars == <<entries, fault, ctx, ret, lastRead, fat, data, dsize, written, dir, calls>>

EEOF == -3
ENOFILE == -4
EIO == -7
NoCtx == [path |-> <<>>, pos |-> -1]
Root == <<2, 1>>              \* the slot at data_region_start * bytes_per_cluster
ReservedFatEntries == 2
BytesPerCluster == BytesPerSector * SectorsPerCluster
DiskClusters == TotalSectors \div SectorsPerCluster
Orig == [tok |-> 0, len |-> -1]     \* a sector as the image has it
Zero == <<"zero", 0, 0>>            \* a byte past the data write_file was given
Unknown == <<"any", 0, 0>>          \* a byte no write or image defines

\* parse_attribute: the attribute byte with its upper two bits masked.
Attribute(s) ==
  CASE s.attr % 64 = 8 -> "ROOT"
    [] s.attr % 64 = 16 -> "DIRECTORY"
    [] s.attr % 64 = 32 -> "FILE"
    [] s.attr % 64 = 15 -> "LONG_NAME"
    [] OTHER -> "EMPTY"

\* 0xFFFFFFFF, the one FAT value above 2^31 the model needs (TLC's
\* integers are 32-bit signed); every other value is itself.
AllOnes == -1

\* check_fat_entry_type(val).
Allocated(val) ==
  /\ val # AllOnes /\ val % 268435456 \notin {0, 268435454}
  /\ val < DiskClusters

FreeEntry(val) == val # AllOnes /\ val % 268435456 = 0

\* fat_entry_to_cluster_offset, and whether that cluster lies on the disk.
ClusterOffset(v) == (v - ReservedFatEntries) + DataStart
OnDisk(v) == ClusterOffset(v) >= 0 /\ ClusterOffset(v) < DiskClusters

\* find_cluster_allocations(first): after the first step the loop tests
\* the cluster number it moved to, not the FAT value stored there, and it
\* appends the value that ends the loop.
RECURSIVE Follow(_)
Follow(v) == IF Allocated(v) THEN <<v>> \o Follow(Image.fat[v]) ELSE <<v>>

FindClusterAllocations(first) ==
  IF first = 0 THEN <<>>
  ELSE IF Allocated(Image.fat[first]) THEN <<first>> \o Follow(Image.fat[first])
  ELSE <<first>>

\* find_long_name_entries: the LONG_NAME slots just before an entry, read
\* backwards, spell its name; with none its name is the short name.
EntryName(s) == IF s.lfn = <<>> THEN <<s.name>> ELSE s.lfn

Slot(key) == Image.dir[key[1]][key[2]]

IsSubEntry(s) == Attribute(s) \in {"FILE", "DIRECTORY"} /\ s.name \notin {".", ".."}

\* parse_root_entry and parse_dir_entry: the fields of the Entry of type t
\* for the slot at key (the root's clusters start at cluster 2).
EntryFields(key, t) ==
  LET s == Slot(key) IN
  [type |-> t, name |-> EntryName(s), size |-> s.size, subs |-> <<>>,
   allocs |-> CASE t = "ROOT" -> FindClusterAllocations(ReservedFatEntries)
                [] t \in {"FILE", "DIRECTORY"} -> FindClusterAllocations(s.first)
                [] OTHER -> <<>>]

\* Entry(fs, parent, byte_offset): parse the slot at key by its attribute;
\* the root and a DIRECTORY go on to find_sub_dir_entries.
RECURSIVE MountEntry(_, _)
RECURSIVE FindSubDirEntries(_, _, _)
RECURSIVE ScanCluster(_, _, _, _)

MountEntry(key, st) ==
  LET t == Attribute(Slot(key))
      e == EntryFields(key, t)
      st1 == [st EXCEPT !.ents = (key :> e) @@ @]
  IN IF t \in {"ROOT", "DIRECTORY"} THEN FindSubDirEntries(key, e.allocs, st1) ELSE st1

\* find_sub_dir_entries: every cluster of allocs in order; a cluster off
\* the disk is a read outside the image.
FindSubDirEntries(key, allocs, st) ==
  CASE allocs = <<>> \/ st.fault # "none" -> st
    [] ~OnDisk(Head(allocs)) -> [st EXCEPT !.fault = "oob"]
    [] OTHER -> FindSubDirEntries(key, Tail(allocs), ScanCluster(key, Head(allocs), 1, st))

\* Every FILE or DIRECTORY slot of cluster v other than . and .. becomes a
\* new Entry, parsed first and then pushed onto sub_dirs.
ScanCluster(key, v, k, st) ==
  CASE k > Len(Image.dir[v]) \/ st.fault # "none" -> st
    [] IsSubEntry(Slot(<<v, k>>)) ->
         LET st1 == MountEntry(<<v, k>>, st)
         IN ScanCluster(key, v, k + 1, [st1 EXCEPT !.ents[key].subs = Append(@, <<v, k>>)])
    [] OTHER -> ScanCluster(key, v, k + 1, st)

NotFound == <<0, 0>>

\* Entry::find_sub_dir(name): the first sub entry with that name.
FindSubDir(key, name) ==
  LET subs == entries[key].subs
      hits == {i \in 1..Len(subs) : entries[subs[i]].name = name}
  IN IF hits = {} THEN NotFound ELSE subs[CHOOSE i \in hits : \A j \in hits : i <= j]

\* FAT32::find_entry: from the root, one find_sub_dir per path name.
RECURSIVE FindFrom(_, _)
FindFrom(key, path) ==
  CASE path = <<>> -> key
    [] FindSubDir(key, Head(path)) = NotFound -> NotFound
    [] OTHER -> FindFrom(FindSubDir(key, Head(path)), Tail(path))

FindEntry(path) == FindFrom(Root, path)

Outcome(r) == [r |-> r, v |-> 0, at |-> 0, sec |-> 0]

\* Entry::read_data(sector_offset) and DiskInterface::read: "fail" is a
\* null buffer, "oob" a read outside the image; "data" says where the
\* sector lies: its cluster, its first byte in that cluster and the disk
\* sector read.
ReadData(key, sector) ==
  LET e == entries[key]
      tc == sector \div SectorsPerCluster
  IN CASE e.type # "FILE" \/ tc >= Len(e.allocs) -> Outcome("fail")
       [] ~OnDisk(e.allocs[tc + 1]) -> Outcome("oob")
       [] OTHER -> [r |-> "data", v |-> e.allocs[tc + 1],
                    at |-> (sector % SectorsPerCluster) * BytesPerSector,
                    sec |-> ClusterOffset(e.allocs[tc + 1]) * SectorsPerCluster
                              + (sector % SectorsPerCluster)]

\* Byte b of the buffer DiskInterface::read returns for the sector rd
\* names.
ByteAt(rd, b) ==
  LET c == data[rd.sec] IN
  CASE c = Orig -> <<"img", rd.v, rd.at + b>>
    [] b < c.len -> <<"w", c.tok, b>>
    [] OTHER -> Zero

\* FAT32::read_file(path, sector): find_entry, then read_data.
ReadFile(path, sector) ==
  LET key == FindEntry(path)
  IN IF key = NotFound THEN Outcome("fail") ELSE ReadData(key, sector)

\* The while (count < n) loop of FileContextFAT32::read (lastSector is
\* never updated, so every pass calls read_file).
RECURSIVE ReadLoop(_, _, _)
ReadLoop(path, st, n) ==
  LET sector == st.pos \div BytesPerSector
      offset == st.pos % BytesPerSector
      bytesLeft == BytesPerSector - offset
      rd == ReadFile(path, sector)
      c == IF n > bytesLeft THEN bytesLeft ELSE n
  IN CASE st.count >= n \/ st.fault # "none" -> st
       [] rd.r = "fail" -> st
       [] rd.r = "oob" -> [st EXCEPT !.fault = "oob"]
       [] OTHER -> ReadLoop(path, [st EXCEPT !.count = @ + c, !.pos = @ + c,
                            !.bytes = @ \o [j \in 1..c |-> ByteAt(rd, offset + j - 1)]], n)

NoRead == [key |-> NotFound, pos |-> 0, n |-> 0, count |-> 0, bytes |-> <<>>,
           size |-> 0, w |-> [x \in {} |-> Orig]]

(***************************************************************************)
(* The write path.  st is [ents, fat, data, dsize, fault, r]: the Entry    *)
(* objects, the disk, and the int the last call returned (r: success 1,   *)
(* failure 0).                                                            *)
(***************************************************************************)
ClustersPerFat == SectorsPerFat \div SectorsPerCluster

\* find_free_cluster: the first FREE entry from entry 2 on, while the
\* index is below sectors_per_fat / sectors_per_cluster; failure if none.
FindFreeCluster(f) ==
  LET free == {v \in ReservedFatEntries..(ClustersPerFat - 1) : FreeEntry(f[v])}
  IN IF free = {} THEN 0 ELSE CHOOSE v \in free : \A w \in free : v <= w

\* A FAT entry read or written through the FAT's sectors; one outside the
\* table is an access outside the image.
InFat(v) == v \in DOMAIN Image.fat

LastAlloc(st, key) == st.ents[key].allocs[Len(st.ents[key].allocs)]

(***************************************************************************)
(* Directory slots.  The model's clusters are one sector, so a slot lies  *)
(* in its cluster's sector: writing one rewrites the slot in `dir` and    *)
(* that sector in `data`.  A slot's position is <<cluster, index>>, and    *)
(* slots follow each other on disk cluster by cluster.                    *)
(***************************************************************************)
DirSlot(a, n, l, f, sz) == [attr |-> a, name |-> n, lfn |-> l, first |-> f, size |-> sz]
EmptySlot == DirSlot(0, "", <<>>, 0, 0)

SlotsPerCluster == Len(Image.dir[Root[1]])

\* byte_offset / bytes_per_dir_entry, and back.
SlotIndex(pos) == pos[1] * SlotsPerCluster + (pos[2] - 1)
SlotAt(x) == <<x \div SlotsPerCluster, (x % SlotsPerCluster) + 1>>

\* clear_entry, or a slot filled in a sector buffer and written back with
\* DiskInterface::write; a slot past the last cluster is a write outside
\* the image.
PutSlot(st, pos, s) ==
  CASE st.fault # "none" -> st
    [] pos[1] \notin DOMAIN st.dir -> [st EXCEPT !.fault = "oob"]
    [] OTHER -> [st EXCEPT !.dir[pos[1]][pos[2]] = s,
                           !.data[pos[1] * SectorsPerCluster] = [tok |-> st.tok, len |-> BytesPerSector]]

\* init_dir_cluster(c): clear the cluster's first two slots, then fill
\* "." and ".." into the sector of byte_offset, that is the entry's own
\* slot and the one after it, not cluster c.  The ".." slot is written at
\* sector_byte_offset + 32 of the same buffer: past the buffer's end when
\* the entry's slot is the last of its sector.
InitDirCluster(st, key, c) ==
  LET at == SlotIndex(key)
      cleared == PutSlot(PutSlot(st, <<c, 1>>, EmptySlot), <<c, 2>>, EmptySlot)
  IN IF key[2] = SlotsPerCluster THEN [cleared EXCEPT !.fault = "ub"]
     ELSE PutSlot(PutSlot(cleared, SlotAt(at), DirSlot(16, ".", <<>>, 0, 0)),
                  SlotAt(at + 1), DirSlot(16, "..", <<>>, 0, 0))

\* initial_cluster: claim a free cluster, end the chain there and make it
\* the first allocation; a DIRECTORY goes on to init_dir_cluster.
InitialCluster(st, key) ==
  LET nf == FindFreeCluster(st.fat)
      st1 == [st EXCEPT !.fat[nf] = AllOnes, !.ents[key].allocs = Append(@, nf), !.r = 1]
  IN CASE nf = 0 -> [st EXCEPT !.r = 0]
       [] st.ents[key].type = "DIRECTORY" -> InitDirCluster(st1, key, ClusterOffset(nf))
       [] OTHER -> st1

\* The for loop of allocate_more_clusters from FAT entry cur with i
\* clusters still to add: a found cluster is written into cur's entry
\* and becomes cur, its own entry unchanged until the next pass or the
\* end marker 0xFFFFFFFF written after the loop.
RECURSIVE AllocLoop(_, _, _, _)
AllocLoop(st, key, cur, i) ==
  LET nf == FindFreeCluster(st.fat) IN
  CASE i = 0 -> [st EXCEPT !.fat[cur] = AllOnes, !.r = 1]
    [] nf = 0 -> [st EXCEPT !.fat[cur] = AllOnes, !.r = 0]
    [] OTHER -> AllocLoop([st EXCEPT !.fat[cur] = nf, !.ents[key].allocs = Append(@, nf)],
                          key, nf, i - 1)

\* allocate_more_clusters(n): an entry with no clusters first gets one
\* from initial_cluster; the chain is extended from its last allocation.
AllocateMoreClusters(st, key, n) ==
  LET none == st.ents[key].allocs = <<>>
      st1 == IF none THEN InitialCluster(st, key) ELSE st
  IN CASE n <= 0 -> [st EXCEPT !.r = 0]
       [] none /\ (st1.r = 0 \/ st1.fault # "none") -> st1
       [] ~InFat(LastAlloc(st1, key)) -> [st1 EXCEPT !.fault = "oob"]
       [] OTHER -> AllocLoop(st1, key, LastAlloc(st1, key), IF none THEN n - 1 ELSE n)

\* DiskInterface::write(sec, data): the sector's bytes past the data are
\* zero, so every slot it holds reads as EMPTY afterwards.
Overwrite(st, sec, k, tok) ==
  LET c == sec \div SectorsPerCluster IN
  [st EXCEPT !.data[sec] = [tok |-> tok, len |-> k],
             !.dir = IF c \in DOMAIN @ THEN [@ EXCEPT ![c] = [i \in DOMAIN @ |-> EmptySlot]] ELSE @]

\* Entry::write_data(sector_offset, data) for data whose last non-zero
\* byte is byte k - 1: allocate up to the target cluster, write the
\* sector, and if the file grows, set file_size_bytes from k and the
\* slot's size field on disk to (sector_offset + 1) * bytes_per_sector.
WriteData(st, key, so, k, tok) ==
  LET e == st.ents[key]
      tc == so \div SectorsPerCluster
      st1 == IF tc >= Len(e.allocs)
             THEN AllocateMoreClusters(st, key, (tc + 1) - Len(e.allocs))
             ELSE [st EXCEPT !.r = 1]
      v == st1.ents[key].allocs[tc + 1]
      sec == ClusterOffset(v) * SectorsPerCluster + (so % SectorsPerCluster)
      required == (so + 1) * BytesPerSector
  IN CASE e.type # "FILE" -> [st EXCEPT !.r = 0]
       [] st1.fault # "none" \/ st1.r = 0 -> [st1 EXCEPT !.r = 0]
       [] sec < 0 \/ sec >= TotalSectors -> [st1 EXCEPT !.fault = "oob"]
       [] e.size < required ->
            [Overwrite(st1, sec, k, tok) EXCEPT !.ents[key].size = so * BytesPerSector + k,
                                                !.dsize[key] = required, !.r = 1]
       [] OTHER -> [Overwrite(st1, sec, k, tok) EXCEPT !.r = 1]

\* The walk of find_empty_entries from slot x: the first run of n EMPTY
\* slots in disk order, or a read past the last cluster.
RECURSIVE EmptyRun(_, _, _, _, _)
EmptyRun(d, x, start, found, n) ==
  LET pos == SlotAt(x)
      empty == Attribute(d[pos[1]][pos[2]]) = "EMPTY"
  IN CASE pos[1] \notin DOMAIN d -> [r |-> "oob", at |-> start]
       [] empty /\ found + 1 = n -> [r |-> "ok", at |-> IF found = 0 THEN x ELSE start]
       [] empty -> EmptyRun(d, x + 1, IF found = 0 THEN x ELSE start, found + 1, n)
       [] OTHER -> EmptyRun(d, x + 1, start, 0, n)

\* find_empty_entries(n) of the Entry at key.  For the root it reads
\* parent_dir->byte_offset with parent_dir null; otherwise it starts at
\* the first slot of fat_allocations[0], out of range when there is none.
\* The cluster test compares byte_offset / bytes_per_cluster (the cluster
\* of the entry's own slot) with itself, so the walk never allocates and
\* goes on past the entry's clusters to whatever follows on disk.
FindEmptyEntries(st, key, n) ==
  CASE key = Root -> [r |-> "null", at |-> 0]
    [] st.ents[key].allocs = <<>> -> [r |-> "ub", at |-> 0]
    [] OTHER -> EmptyRun(st.dir, SlotIndex(<<ClusterOffset(st.ents[key].allocs[1]), 1>>), 0, 0, n)

\* write_long_name_entry for long name parts i + 1 .. Len(name): part i + 1
\* goes Len(name) - i - 1 slots after start, so the parts are read back
\* in order walking up from the short slot.
RECURSIVE PutLongNames(_, _, _, _)
PutLongNames(st, start, name, i) ==
  IF i = Len(name) THEN st
  ELSE PutLongNames(PutSlot(st, SlotAt(start + Len(name) - i - 1), DirSlot(15, name[i + 1], <<>>, 0, 0)),
                    start, name, i + 1)

\* write_dir_entry: the short slot (attribute 0x20 or 0x10, first
\* cluster, size), then the long name slots.
WriteDirEntry(st, key, start) ==
  LET e == st.ents[key]
      short == DirSlot(IF e.type = "FILE" THEN 32 ELSE 16, "SHORT", e.name, e.allocs[1], e.size)
  IN PutLongNames(PutSlot(st, <<key[1], key[2]>>, short), start, e.name, 0)

\* Entry::new_dir_entry(par_dir, name, type) on a new Entry: one LONG_NAME
\* slot per 13-character part of the name (a part of a name is one of
\* its pieces), find_empty_entries on par_dir for them and the short slot,
\* allocate_more_clusters(1), write_dir_entry, and the push onto
\* par_dir's sub_dirs.  The Entry is keyed by its short slot and the
\* call that made it; create_file deletes it if the allocation fails.
NewDirEntry(st, par, name, t) ==
  LET n == Len(name)
      fe == FindEmptyEntries(st, par, n + 1)
      pos == SlotAt(fe.at + n)
      key == <<pos[1], pos[2], st.tok>>
      st1 == [st EXCEPT !.ents = (key :> [type |-> t, name |-> name, size |-> 0,
                                         subs |-> <<>>, allocs |-> <<>>]) @@ @]
      st2 == AllocateMoreClusters(st1, key, 1)
      size == IF t = "FILE" THEN 0 ELSE BytesPerCluster
      st3 == [st2 EXCEPT !.ents[key].size = size, !.dsize = (key :> size) @@ @]
      st4 == WriteDirEntry(st3, key, fe.at)
  IN CASE fe.r # "ok" -> [st EXCEPT !.fault = fe.r, !.r = 0]
       [] st2.fault # "none" -> st2
       [] st2.r = 0 -> [st2 EXCEPT !.ents = st.ents]
       [] OTHER -> [st4 EXCEPT !.ents[par].subs = Append(@, key), !.r = 1]

Init ==
  /\ \E st \in {MountEntry(Root, [ents |-> [k \in {} |-> 0], fault |-> "none"])} :
       /\ entries = st.ents
       /\ fault = st.fault
  /\ ctx = [c \in Ctxs |-> NoCtx]
  /\ ret = 0
  /\ lastRead = NoRead
  /\ fat = Image.fat
  /\ data = [sec \in 0..(TotalSectors - 1) |-> Orig]
  /\ dsize = [key \in DOMAIN entries |-> Slot(key).size]
  /\ written = [x \in {} |-> Orig]
  /\ dir = Image.dir
  /\ calls = 0

Call == fault = "none" /\ calls < MaxCalls /\ calls' = calls + 1

\* FAT32::file_type(path, type) succeeds and type == File.
IsFile(path) == LET key == FindEntry(path) IN key # NotFound /\ entries[key].type = "FILE"

\* syscall_open(path): ENOFILE unless file_type finds a FILE.
OpenMissing(path) ==
  /\ Call
  /\ ~IsFile(path)
  /\ ret' = ENOFILE
  /\ UNCHANGED <<entries, fault, ctx, lastRead, fat, data, dsize, written, dir>>

\* syscall_open(path): a new FileContextFAT32 at position 0, stored as fd.
OpenFile(path, c) ==
  /\ Call
  /\ ctx[c] = NoCtx
  /\ IsFile(path)
  /\ ctx' = [ctx EXCEPT ![c] = [path |-> path, pos |-> 0]]
  /\ ret' = c
  /\ UNCHANGED <<entries, fault, lastRead, fat, data, dsize, written, dir>>

\* syscall_read on the context c: FileContextFAT32::read(buffer, n).
Read(c, n) ==
  /\ Call
  /\ ctx[c] # NoCtx
  /\ \E key \in {FindEntry(ctx[c].path)} :
       \/ /\ key = NotFound
          /\ ret' = EIO
          /\ UNCHANGED <<fault, ctx, lastRead>>
       \/ /\ key # NotFound /\ ctx[c].pos >= entries[key].size
          /\ ret' = EEOF
          /\ UNCHANGED <<fault, ctx, lastRead>>
       \/ /\ key # NotFound /\ ctx[c].pos < entries[key].size
          /\ \E st \in {ReadLoop(ctx[c].path,
                          [pos |-> ctx[c].pos, count |-> 0, bytes |-> <<>>, fault |-> "none"],
                          IF ctx[c].pos + n > entries[key].size THEN entries[key].size - ctx[c].pos ELSE n)} :
               /\ ctx' = [ctx EXCEPT ![c].pos = st.pos]
               /\ ret' = st.count
               /\ fault' = st.fault
               /\ lastRead' = [key |-> key, pos |-> ctx[c].pos, n |-> n, count |-> st.count,
                               bytes |-> st.bytes, size |-> entries[key].size, w |-> written]
  /\ UNCHANGED <<entries, fat, data, dsize, written, dir>>

\* FileContextFAT32::copy(), as clone calls it: same path and position.
Copy(c, d) ==
  /\ fault = "none"
  /\ ctx[c] # NoCtx /\ ctx[d] = NoCtx
  /\ ctx' = [ctx EXCEPT ![d] = ctx[c]]
  /\ UNCHANGED <<entries, fault, ret, lastRead, fat, data, dsize, written, dir, calls>>

\* ~FileContextFAT32, when the last reference is closed.
Close(c) ==
  /\ fault = "none"
  /\ ctx[c] # NoCtx
  /\ ctx' = [ctx EXCEPT ![c] = NoCtx]
  /\ UNCHANGED <<entries, fault, ret, lastRead, fat, data, dsize, written, dir, calls>>

\* The Entry objects and the disk, as the write path's operators take them.
Disk == [ents |-> entries, fat |-> fat, data |-> data, dsize |-> dsize, dir |-> dir,
         fault |-> "none", r |-> 0, tok |-> 0]

\* FAT32::write_file(path, sector_offset, data): find_entry, then
\* write_data.  No syscall calls it (syscall_write on a FAT32 context
\* returns EIO); FAT32::test does.  The write's token is the call count.
WriteFile(path, so, k) ==
  /\ Call
  /\ \E key \in {FindEntry(path)} :
       \/ /\ key = NotFound
          /\ ret' = 0
          /\ UNCHANGED <<entries, fault, fat, data, dsize, written, dir>>
       \/ /\ key # NotFound
          /\ \E st \in {WriteData([Disk EXCEPT !.tok = calls], key, so, k, calls)} :
               /\ entries' = st.ents
               /\ fat' = st.fat
               /\ data' = st.data
               /\ dsize' = st.dsize
               /\ dir' = st.dir
               /\ fault' = st.fault
               /\ ret' = st.r
               /\ written' = IF st.r = 1 THEN (<<key, so>> :> [tok |-> calls, len |-> k]) @@ written
                              ELSE written
  /\ UNCHANGED <<ctx, lastRead>>

\* create_file and create_dir refuse: no parent, a parent FILE (for
\* create_file only: create_dir does not check), or the name taken.
Refused(path, t, par) ==
  \/ par = NotFound
  \/ t = "FILE" /\ entries[par].type # "DIRECTORY"
  \/ FindEntry(path) # NotFound

\* FAT32::create_file(path) (t = "FILE") and FAT32::create_dir(path)
\* (t = "DIRECTORY"): snip_file_path, find_entry, then new_dir_entry
\* with the path's last name.  No syscall calls them; FAT32::test does.
Create(path, t) ==
  /\ Call
  /\ \E par \in {FindEntry(SubSeq(path, 1, Len(path) - 1))} :
       \/ /\ Refused(path, t, par)
          /\ ret' = 0
          /\ UNCHANGED <<entries, fault, fat, data, dsize, dir>>
       \/ /\ ~Refused(path, t, par)
          /\ \E st \in {NewDirEntry([Disk EXCEPT !.tok = calls], par, path[Len(path)], t)} :
               /\ entries' = st.ents
               /\ fat' = st.fat
               /\ data' = st.data
               /\ dsize' = st.dsize
               /\ dir' = st.dir
               /\ fault' = st.fault
               /\ ret' = st.r
  /\ UNCHANGED <<ctx, lastRead, written>>

Next ==
  \/ \E p \in Paths : OpenMissing(p)
  \/ \E p \in Paths, c \in Ctxs : OpenFile(p, c)
  \/ \E c \in Ctxs, n \in ReadSizes : Read(c, n)
  \/ \E c, d \in Ctxs : Copy(c, d)
  \/ \E c \in Ctxs : Close(c)
  \/ \E p \in Paths, so \in WriteSectors, k \in WriteLens : WriteFile(p, so, k)
  \/ \E p \in CreatePaths, t \in {"FILE", "DIRECTORY"} : Create(p, t)

Spec == Init /\ [][Next]_vars
-----------------------------------------------------------------------------
\* The FAT chain of a file as the FAT32 format defines it: the first
\* cluster, then each FAT value while it names a data cluster.
IsCluster(val) == 2 <= val % 268435456 /\ val % 268435456 <= 268435439
RECURSIVE Chain(_)
Chain(v) == <<v>> \o (IF IsCluster(Image.fat[v]) THEN Chain(Image.fat[v]) ELSE <<>>)

\* The byte at position p of the file whose directory slot is key.
FileByte(key, p) == <<"img", Chain(Slot(key).first)[p \div BytesPerCluster + 1], p % BytesPerCluster>>

\* Byte p of the file at key, given the writes w made before: the last
\* write to p's sector, else the image's byte below the mounted size,
\* else undefined (a cluster the file gained holds whatever it held).
Expected(w, key, p) ==
  LET ws == <<key, p \div BytesPerSector>>
      b == p % BytesPerSector
  IN CASE ws \in DOMAIN w -> IF b < w[ws].len THEN <<"w", w[ws].tok, b>> ELSE Zero
       [] Len(key) = 2 /\ p < Slot(key).size -> FileByte(key, p)
       [] OTHER -> Unknown

\* Spec section 4.8 (FAT32 file context: read(buf, n) returns the file's
\* bytes from the cursor) and syscall_read's contract: a read copies at
\* most n bytes into the caller's buffer, none past the end of the file,
\* and they are the file's bytes from the position the read started at:
\* what write_file last wrote there, or the image's bytes.
ReadReturnsFileBytes ==
  lastRead # NoRead =>
    /\ lastRead.count <= lastRead.n
    /\ lastRead.pos + lastRead.count <= lastRead.size
    /\ \A j \in 1..lastRead.count :
         Expected(lastRead.w, lastRead.key, lastRead.pos + j - 1) \in {lastRead.bytes[j], Unknown}

\* The FAT32 format's cluster chains: after mounting, the clusters each
\* Entry holds (find_cluster_allocations) are exactly its file's chain.
ChainsMatchFat ==
  \A key \in {k \in DOMAIN entries : Len(k) = 2} :
    /\ entries[key].type \in {"FILE", "DIRECTORY"} /\ Slot(key).first # 0 =>
         entries[key].allocs = Chain(Slot(key).first)
    /\ entries[key].type = "ROOT" => entries[key].allocs = Chain(ReservedFatEntries)

=============================================================================
