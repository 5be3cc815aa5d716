-------------------------------- MODULE Files --------------------------------
(***************************************************************************)
(* One mounted file system and what the loader does with it: it is         *)
(* recognised, paths are opened (path_open), the open files are read       *)
(* (bulk_read_file), closed, and the file system is released.  The file    *)
(* system is FAT, ISO9660 or the network one.  The loader is one thread of *)
(* control, so an operation runs to its end: pc is where it is, in steps   *)
(* of one directory entry, one link of a chain or one device request.      *)
(*                                                                         *)
(* Data is named by where it lies on the disk: a read delivers a sequence  *)
(* of disk addresses.  Reads and allocations fail, MaxFaults times in a    *)
(* behaviour.  The volume also says what it holds (vol.tree), for the      *)
(* properties only.                                                        *)
(***************************************************************************)
EXTENDS Fat, Iso9660, TLC

CONSTANTS
    Volumes,     \* the volumes the loader meets
    Handles,     \* the open files: 1..n
    U16Range,    \* how many values a u16 has
    PageUnits,   \* PAGE_SIZE
    MaxOps,      \* bound on the operations of a behaviour
    MaxFaults    \* bound on failed reads and allocations

ASSUME FilesAssumption ==
    {MaxOps, MaxFaults} \subseteq Nat /\ {U16Range, PageUnits} \subseteq Nat \ {0}

ASSUME VolumesAssumption ==
    \A v \in Volumes :
      /\ v.kind = "fat" => /\ v.bpb \in Bpb
                          /\ \A a \in DOMAIN v.entries : v.entries[a] \in DirEntries \cup LongEntries
      /\ v.kind = "iso" => v.pvd \in Pvd /\ \A a \in DOMAIN v.records : IsRecord(v.records[a])

VARIABLES
    vol,          \* the volume; never changes
    fs,           \* the struct fat_filesystem or iso9660_fs
    pc,
    path, node,   \* path_open: what is left of the path, and the current node
    node_found, is_dir,
    ctx, rec,     \* the directory iteration, and its last record
    files,        \* the open files, and (history) the path each was opened by
    handle,       \* the file that is read
    br,           \* struct bulk_read_req: offset, bytes and the parts to come
    out,          \* the bytes that were delivered
    pages,        \* the pages the file system and its files hold, the view aside
    ops, faults,
    last          \* history: the last operation and its outcome

lookupVars == <<path, node, node_found, is_dir, ctx, rec>>
readVars == <<handle, br, out>>
vars == <<vol, fs, pc, path, node, node_found, is_dir, ctx, rec, files, handle, br, out,
          pages, ops, faults, last>>

NoFile == [open |-> FALSE]
NoRec == [name |-> <<>>, size |-> 0, first |-> 0, subdir |-> TRUE]
NoOp == [op |-> "none"]

Init ==
    /\ vol \in Volumes
    /\ fs = NoFs
    /\ pc = "detect"
    /\ path = <<>> /\ node = <<>> /\ node_found = FALSE /\ is_dir = TRUE
    /\ ctx = [vd |-> 1]
    /\ rec = NoRec
    /\ files = [h \in Handles |-> NoFile]
    /\ handle = 0
    /\ br = [parts |-> <<>>, bytes |-> 0, off |-> 0]
    /\ out = <<>>
    /\ pages = 0 /\ ops = 0 /\ faults = 0
    /\ last = NoOp

Fails(n) == faults + n <= MaxFaults /\ faults' = faults + n

-----------------------------------------------------------------------------
(* Recognising the volume                                                  *)

\* fat_detect
FatDetect ==
    LET info == DetectFat(vol)
    IN
    /\ pc = "detect" /\ vol.kind = "fat"
    /\ \E n \in 0..1 :
         /\ Fails(n)
         /\ IF n = 0 /\ info.type # 0
            THEN pc' = "idle" /\ fs' = FatMount(vol, info) /\ pages' = 1
            ELSE pc' = "refused" /\ UNCHANGED <<fs, pages>>
    /\ UNCHANGED <<vol, lookupVars, readVars, files, ops, last>>

\* iso9660_detect: one volume descriptor; iso9660_init once the primary one is
\* found.  If the directory cache cannot be allocated the first page is given back.
IsoDetect ==
    LET type == IF ctx.vd <= Len(vol.vds) THEN vol.vds[ctx.vd] ELSE "unknown"
        mounted == IsoMount(vol)
    IN
    /\ pc = "detect" /\ vol.kind = "iso"
    /\ \E n \in 0..1 :
         /\ Fails(n)
         /\ CASE n = 0 /\ 2^vol.shift <= SectorSize /\ type = "primary" /\ IsoSane(vol) ->
                   /\ pc' = "susp_first"
                   /\ fs' = mounted
                   /\ ctx' = [IsoIterInit(mounted, mounted.root, mounted.root_size)
                                EXCEPT !.base = @ % U32Range]
                   /\ pages' = 2
              [] n = 0 /\ 2^vol.shift <= SectorSize /\ type \in {"boot", "supplementary"} ->
                   ctx' = [ctx EXCEPT !.vd = @ + 1] /\ UNCHANGED <<pc, fs, pages>>
              [] OTHER -> pc' = "refused" /\ UNCHANGED <<fs, ctx, pages>>
    /\ UNCHANGED <<vol, path, node, node_found, is_dir, rec, readVars, files, ops, last>>

\* iso9660_init gives its page back when susp_init fails; the page of the
\* directory cache stays allocated.
RefuseIso == pc' = "refused" /\ pages' = 1

\* susp_init up to its loop: the first record of the root directory.
SuspFirst ==
    /\ pc = "susp_first"
    /\ \E r \in RawTurn(fs, vol, ctx), n \in 0..1 :
         /\ Fails(r.failed + n)
         /\ fs' = r.fs
         /\ CASE r.out = "again" -> ctx' = r.it /\ n = 0 /\ UNCHANGED <<pc, pages>>
              [] r.out = "bug" -> pc' = "bug" /\ n = 0 /\ UNCHANGED <<ctx, pages>>
              [] r.out = "none" -> RefuseIso /\ n = 0 /\ UNCHANGED ctx
              [] r.out = "rec" ->
                   IF n = 0 /\ SuLen(r.dr) >= SueMinLen
                   THEN /\ pc' = "susp" /\ pages' = pages + 1
                        /\ ctx' = [it |-> r.it, su |-> SuStart(r.dr, 0), found |-> {}]
                   ELSE RefuseIso /\ UNCHANGED ctx
    /\ UNCHANGED <<vol, path, node, node_found, is_dir, rec, readVars, files, ops, last>>

\* The loop of susp_init.  A volume without the SP and ER entries is refused.
Susp ==
    /\ pc = "susp"
    /\ \E t \in SuTurn(fs, vol, ctx.su) :
         /\ Fails(t.failed)
         /\ LET e == SuspEntry(fs, t.sue, ctx.found)
                done == [fs EXCEPT !.dir_cache = ReleaseRef(@, ctx.it)]
            IN CASE t.out = "again" -> ctx' = [ctx EXCEPT !.su = t.s] /\ UNCHANGED <<pc, fs, pages>>
                 [] t.out = "entry" /\ e.ok ->
                      /\ ctx' = [ctx EXCEPT !.su = t.s, !.found = e.found]
                      /\ fs' = e.fs /\ UNCHANGED <<pc, pages>>
                 [] t.out = "end" /\ ctx.found = {"SP", "ER"} ->
                      pc' = "idle" /\ fs' = done /\ UNCHANGED <<ctx, pages>>
                 [] OTHER -> RefuseIso /\ UNCHANGED <<ctx, fs>>
    /\ UNCHANGED <<vol, path, node, node_found, is_dir, rec, readVars, files, ops, last>>

\* The network file system is there once PXE is set up; its struct is static.
PxeMount ==
    /\ pc = "detect" /\ vol.kind = "pxe"
    /\ pc' = "idle" /\ fs' = [kind |-> "pxe"]
    /\ UNCHANGED <<vol, lookupVars, readVars, files, pages, ops, faults, last>>

-----------------------------------------------------------------------------
(* path_open                                                               *)

Slash == <<47>>
Dot == <<46>>
DotDot == <<46, 46>>

\* The operation ends with this outcome; asked is what the caller asked for.
Ends(result) ==
    /\ pc' = "idle"
    /\ last' = [result EXCEPT !.clean = (faults' = last.faults)]
Opening(p) == [op |-> "opening", path |-> p, faults |-> faults, clean |-> TRUE]
NotOpened == [op |-> "open", path |-> last.path, handle |-> 0, clean |-> TRUE]
Opened(h) == [NotOpened EXCEPT !.handle = h]

FreeHandle == CHOOSE h \in Handles : ~files[h].open /\ \A g \in 1..h-1 : files[g].open
CanOpen == \E h \in Handles : ~files[h].open

\* The pages of a struct file; the network one holds the contents as well.
FilePages(f) == IF fs.kind = "pxe" THEN CeilDiv(f.size + 1, PageUnits) ELSE 1 + f.extra_pages

RootCtx ==
    CASE fs.kind = "fat" -> FatIterInit(fs, 0)
      [] fs.kind = "iso" -> IsoIterInit(fs, fs.root, fs.root_size)
      [] OTHER -> ctx

PathOpen(p) ==
    /\ pc = "idle" /\ ops < MaxOps /\ CanOpen
    /\ ops' = ops + 1
    /\ last' = Opening(p)
    /\ path' = p
    /\ ctx' = RootCtx
    /\ node_found' = FALSE /\ is_dir' = TRUE
    /\ pc' = IF fs.kind = "pxe" THEN "direct" ELSE "node"
    /\ UNCHANGED <<vol, fs, node, rec, files, readVars, pages, faults>>

\* pxe_open_file: the size is asked for and the file fetched in one go.
OpenFileDirect ==
    /\ pc = "direct"
    /\ \E n \in 0..1 :
         /\ Fails(n)
         /\ IF n = 0 /\ path \in DOMAIN vol.served
            THEN LET f == [open |-> TRUE, of |-> path] @@ vol.served[path]
                 IN /\ files' = [files EXCEPT ![FreeHandle] = f]
                    /\ pages' = pages + FilePages(f)
                    /\ Ends(Opened(FreeHandle))
            ELSE Ends(NotOpened) /\ UNCHANGED <<files, pages>>
    /\ UNCHANGED <<vol, fs, lookupVars, readVars, ops>>

\* next_path_node: leading separators are skipped.
WithoutSlashes(p) ==
    LET names == {i \in DOMAIN p : p[i] # Slash}
    IN IF names = {} THEN <<>> ELSE SubSeq(p, CHOOSE i \in names : \A j \in names : i <= j, Len(p))

\* The next node of the path, or its end.
NextNode ==
    LET rest == WithoutSlashes(path)
        next == Head(rest)
    IN
    /\ pc = "node" /\ UNCHANGED faults
    /\ CASE rest = <<>> /\ node_found /\ ~is_dir ->
              pc' = "open" /\ UNCHANGED <<path, node, node_found, last>>
         [] rest = <<>> /\ ~(node_found /\ ~is_dir) ->
              Ends(NotOpened) /\ UNCHANGED <<path, node, node_found>>
         [] rest # <<>> /\ next = Dot ->
              path' = Tail(rest) /\ UNCHANGED <<pc, node, node_found, last>>
         [] rest # <<>> /\ next # Dot /\ ~is_dir ->
              Ends(NotOpened) /\ UNCHANGED <<path, node, node_found>>
         [] OTHER -> /\ path' = Tail(rest) /\ node' = next /\ node_found' = FALSE
                     /\ pc' = "scan" /\ UNCHANGED last
    /\ UNCHANGED <<vol, fs, is_dir, ctx, rec, files, readVars, pages, ops>>

\* path_open gets a record: the node it looks for, or another one.
SeesRecord(r, next) ==
    IF r.name = node
    THEN /\ pc' = "node"
         /\ node_found' = TRUE /\ is_dir' = r.subdir /\ rec' = r
         /\ ctx' = IF fs.kind = "fat" THEN FatIterInit(fs, r.first)
                   ELSE IsoIterInit(fs, r.first, r.size)
         /\ UNCHANGED last
    ELSE pc' = "scan" /\ ctx' = next /\ UNCHANGED <<node_found, is_dir, rec, last>>

\* The directory has no more records.
SeesNone == Ends(NotOpened) /\ UNCHANGED <<node_found, is_dir, ctx, rec>>

Trips == pc' = "bug" /\ UNCHANGED <<node_found, is_dir, ctx, rec, last>>

\* One entry of a FAT directory.
FatScan ==
    /\ pc = "scan" /\ fs.kind = "fat"
    /\ \E e \in DirFetch(fs, vol, ctx) :
         /\ Fails(e.failed)
         /\ fs' = e.fs
         /\ LET r == NextDirRec(e.ctx, e.entry)
            IN CASE e.out = "none" -> SeesNone
                 [] e.out = "bug" -> Trips
                 [] e.out = "entry" /\ r.out = "none" -> SeesNone
                 [] e.out = "entry" /\ r.out = "more" ->
                      ctx' = r.ctx /\ UNCHANGED <<pc, node_found, is_dir, rec, last>>
                 [] e.out = "entry" /\ r.out = "rec" -> SeesRecord(r.rec, r.ctx)
    /\ UNCHANGED <<vol, path, node, files, readVars, pages, ops>>

\* dir_next_entry, once the name and the size of a record are known.
NamedRecord(f, it, r, name, size) ==
    IF r.flags \cap {"assoc", "hidden"} # {}
    THEN /\ ctx' = it /\ pc' = "scan" /\ fs' = f
         /\ UNCHANGED <<node_found, is_dir, rec, last>>
    ELSE /\ fs' = [f EXCEPT !.dir_cache = ReleaseRef(@, it)]
         /\ SeesRecord([name |-> name, size |-> size, first |-> ExtentOf(r),
                        subdir |-> "subdir" \in r.flags], [it EXCEPT !.ref = FALSE])

\* The record has its name: a file of several extents has the others read first.
HasName(f, it, r, name) ==
    IF "multi" \in r.flags
    THEN /\ pc' = "multi" /\ fs' = f
         /\ ctx' = [it |-> it, r |-> r, name |-> name, m |-> MultiextStart(f, r)]
         /\ UNCHANGED <<node_found, is_dir, rec, last>>
    ELSE NamedRecord(f, it, r, name, r.size)

\* One record of an ISO9660 directory.
IsoScan ==
    /\ pc = "scan" /\ fs.kind = "iso"
    /\ \E r \in RawTurn(fs, vol, ctx) :
         /\ Fails(r.failed)
         /\ LET source == NameSource(fs, r.dr)
            IN CASE r.out = "none" -> fs' = r.fs /\ SeesNone
                 [] r.out = "bug" -> fs' = r.fs /\ Trips
                 [] r.out = "again" \/ (r.out = "rec" /\ source = "nameless") ->
                      /\ ctx' = r.it /\ fs' = r.fs
                      /\ UNCHANGED <<pc, node_found, is_dir, rec, last>>
                 [] r.out = "rec" /\ source = "dot" -> HasName(r.fs, r.it, r.dr, Dot)
                 [] r.out = "rec" /\ source = "dotdot" -> HasName(r.fs, r.it, r.dr, DotDot)
                 [] r.out = "rec" /\ source = "identifier" ->
                      HasName(r.fs, r.it, r.dr, Identifier(r.dr))
                 [] r.out = "rec" /\ source = "su" ->
                      /\ pc' = "su" /\ fs' = r.fs
                      /\ ctx' = [it |-> r.it, r |-> r.dr, name |-> <<>>,
                                 su |-> SuStart(r.dr, fs.su_off)]
                      /\ UNCHANGED <<node_found, is_dir, rec, last>>
    /\ UNCHANGED <<vol, path, node, files, readVars, pages, ops>>

\* find_rock_ridge_name: one System Use entry.  Without a name there, the
\* identifier of the record is used.
IsoName ==
    /\ pc = "su"
    /\ \E t \in SuTurn(fs, vol, ctx.su) :
         /\ Fails(t.failed)
         /\ LET n == RockRidge(t.sue, ctx.name)
                Final(name) == HasName(fs, ctx.it, ctx.r,
                                       IF name = <<>> THEN Identifier(ctx.r) ELSE name)
                Goes(name) == /\ ctx' = [ctx EXCEPT !.su = t.s, !.name = name]
                              /\ UNCHANGED <<pc, fs, node_found, is_dir, rec, last>>
            IN CASE t.out = "again" -> Goes(ctx.name)
                 [] t.out = "end" -> Final(ctx.name)
                 [] t.out = "entry" /\ n.out = "on" -> Goes(n.name)
                 [] t.out = "entry" /\ n.out = "done" -> Final(n.name)
                 [] t.out = "entry" /\ n.out = "failed" -> Final(<<>>)
    /\ UNCHANGED <<vol, path, node, files, readVars, pages, ops>>

\* dir_read_multiext_size: one more record of the chain, or its end.
IsoMultiext ==
    LET m == ctx.m
        Continue(f, it) == /\ ctx' = it /\ pc' = "scan" /\ fs' = f
                           /\ UNCHANGED <<node_found, is_dir, rec, last>>
    IN
    /\ pc = "multi"
    /\ IF Skipping(m) /\ ~m.more
       THEN Continue(fs, ctx.it) /\ UNCHANGED faults
       ELSE \E r \in RawTurn(fs, vol, ctx.it) :
              /\ Fails(r.failed)
              /\ LET n == MultiextRecord(fs, m, r.dr)
                 IN CASE r.out = "none" -> Continue(r.fs, r.it)
                      [] r.out = "bug" -> fs' = r.fs /\ Trips
                      [] r.out = "again" -> /\ ctx' = [ctx EXCEPT !.it = r.it] /\ fs' = r.fs
                                            /\ UNCHANGED <<pc, node_found, is_dir, rec, last>>
                      [] r.out = "rec" /\ n.out = "on" ->
                           /\ ctx' = [ctx EXCEPT !.it = r.it, !.m = n.m] /\ fs' = r.fs
                           /\ UNCHANGED <<pc, node_found, is_dir, rec, last>>
                      [] r.out = "rec" /\ n.out = "true" ->
                           NamedRecord(r.fs, r.it, ctx.r, ctx.name, n.m.size)
    /\ UNCHANGED <<vol, path, node, files, readVars, pages, ops>>

\* fat_open_file and iso9660_open_file
OpenFile ==
    /\ pc = "open"
    /\ \E n \in 0..1 :
         /\ Fails(n)
         /\ IF n = 0
            THEN /\ files' = [files EXCEPT ![FreeHandle] =
                               [of |-> last.path] @@ FatFile(rec.first, rec.size)]
                 /\ pages' = pages + 1
                 /\ Ends(Opened(FreeHandle))
            ELSE Ends(NotOpened) /\ UNCHANGED <<files, pages>>
    /\ UNCHANGED <<vol, fs, lookupVars, readVars, ops>>

-----------------------------------------------------------------------------
(* Reading, closing and releasing                                          *)

Low(n, bits) == n % 2^bits
Bytes(from, n) == [i \in 1..n |-> from + i - 1]
Reading(h, off, n) ==
    [op |-> "reading", handle |-> h, off |-> off, bytes |-> n, faults |-> faults, clean |-> TRUE]
ReadDone(ok) ==
    [op |-> "read", handle |-> last.handle, off |-> last.off, bytes |-> last.bytes,
     ok |-> ok, clean |-> TRUE]

\* The unaligned head of a request.  block_size is a u16, and may be 0 in it.
HeadBytes(off, n, shift) ==
    LET size == 2^shift % U16Range
    IN IF Low(off, shift) = 0 THEN 0
       ELSE IF size < Low(off, shift) THEN n ELSE Min2(size - Low(off, shift), n)

\* The three parts of bulk_read_file: head, whole blocks, tail.
Parts(off, n, shift) ==
    LET head == HeadBytes(off, n, shift)
        tail == Low(n - head, shift)
    IN <<head, (n - head) - tail, tail>>

\* bulk_read_file is entered, or pxe_read copies from the fetched file.  The
\* callers ask for bytes of the file: fs_check_read panics otherwise.
ReadFile(h, off, n) ==
    LET shift == IF fs.block_shift < vol.shift THEN vol.shift ELSE fs.block_shift
    IN
    /\ pc = "idle" /\ ops < MaxOps
    /\ files[h].open
    /\ n > 0 /\ off + n <= files[h].size
    /\ ops' = ops + 1
    /\ UNCHANGED faults
    /\ IF fs.kind = "pxe"
       THEN /\ out' = Bytes(files[h].first + off, n)
            /\ last' = [op |-> "read", handle |-> h, off |-> off, bytes |-> n,
                        ok |-> TRUE, clean |-> TRUE]
            /\ UNCHANGED <<pc, handle, br>>
       ELSE /\ last' = Reading(h, off, n)
            /\ pc' = "bulk" /\ handle' = h /\ out' = <<>>
            /\ br' = [parts |-> Parts(off, n, shift), bytes |-> 0, off |-> off]
    /\ UNCHANGED <<vol, fs, lookupVars, files, pages>>

\* br_wanted_block_count
WantedBlocks ==
    CeilDiv(Low(br.off, fs.block_shift) + br.bytes, 2^fs.block_shift)

\* iso9660_file_get_range and fat_file_get_range
GetRange(block, want) ==
    IF fs.kind = "fat" THEN FatGetRange(fs, files[handle], block, want)
    ELSE [off |-> (files[handle].first + block) * 2^fs.block_shift, blocks |-> want]

PartitionBegin == IF fs.kind = "fat" THEN vol.lba.begin ELSE 0

\* MUTANT: only the start of a request is tested for alignment.
Unaligned_StartOnly(off, n) == Low(off, vol.shift) # 0

\* A request that has to go through the bounce buffer.
Unaligned(off, n) == Low(off, vol.shift) # 0 \/ Low(n, vol.shift) # 0

\* What ds_read or ds_read_blocks delivers: the latter takes whole blocks.
Delivered(off, n) ==
    IF Unaligned(off, n) THEN Bytes(PartitionBegin * 2^vol.shift + off, n)
    ELSE Bytes((PartitionBegin + off \div 2^vol.shift) * 2^vol.shift,
               (n \div 2^vol.shift) * 2^vol.shift)

\* One turn of do_bulk_read, or the next part of the request.
BulkRead ==
    LET in_block == Low(br.off, fs.block_shift)
        range == GetRange(br.off \div 2^fs.block_shift, WantedBlocks)
        n == Min2(range.blocks * 2^fs.block_shift - in_block, br.bytes)
    IN
    /\ pc = "bulk"
    /\ CASE br.bytes = 0 /\ br.parts = <<>> ->
              Fails(0) /\ Ends(ReadDone(TRUE)) /\ UNCHANGED <<br, out, ctx>>
         [] br.bytes = 0 /\ br.parts # <<>> ->
              /\ br' = [br EXCEPT !.bytes = Head(br.parts), !.parts = Tail(br.parts)]
              /\ Fails(0) /\ UNCHANGED <<pc, out, last, ctx>>
         [] br.bytes # 0 /\ fs.kind = "fat" /\ RangeCount(files[handle]) = 0 ->
              /\ pc' = "chain" /\ ctx' = ChainStart(files[handle])
              /\ Fails(0) /\ UNCHANGED <<br, out, last>>
         [] OTHER ->
              IF range.blocks = 0
              THEN pc' = "bug" /\ Fails(0) /\ UNCHANGED <<br, out, last, ctx>>
              ELSE \E f \in 0..1 :
                     /\ Fails(f)
                     /\ IF f = 1 THEN Ends(ReadDone(FALSE)) /\ UNCHANGED <<br, out, ctx>>
                        ELSE /\ out' = out \o Delivered(range.off + in_block, n)
                             /\ br' = [br EXCEPT !.off = @ + n, !.bytes = @ - n]
                             /\ UNCHANGED <<pc, last, ctx>>
    /\ UNCHANGED <<vol, fs, path, node, node_found, is_dir, rec, files, handle, pages, ops>>

\* file_compute_contiguous_ranges: one entry of the table.
ComputeRanges ==
    /\ pc = "chain"
    /\ \E t \in ChainTurn(fs, vol, files[handle], ctx) :
         /\ Fails(t.failed)
         /\ fs' = t.fs
         /\ LET freed == FreeChain(t.file)
            IN IF t.out = "error"
               THEN /\ files' = [files EXCEPT ![handle] = freed.file]
                    /\ pages' = (pages + t.pages) - freed.freed
                    /\ Ends(ReadDone(FALSE)) /\ UNCHANGED ctx
               ELSE /\ files' = [files EXCEPT ![handle] = t.file]
                    /\ pages' = pages + t.pages
                    /\ pc' = IF t.out = "done" THEN "bulk" ELSE "chain"
                    /\ ctx' = IF t.out = "done" THEN NoFs ELSE t.walk
                    /\ UNCHANGED last
    /\ UNCHANGED <<vol, path, node, node_found, is_dir, rec, readVars, ops>>

\* fat_file_close, iso9660_close_file and pxe_close_file
CloseFile(h) ==
    /\ pc = "idle"
    /\ files[h].open
    /\ files' = [files EXCEPT ![h] = NoFile]
    /\ pages' = pages - IF fs.kind = "fat" THEN 1 + FreeChain(files[h]).freed
                        ELSE FilePages(files[h])
    /\ last' = NoOp
    /\ UNCHANGED <<vol, fs, pc, lookupVars, readVars, ops, faults>>

\* fst_fini releases the file system at the end of boot services: fat_release and
\* iso9660_release, whose block_cache_release has a BUG_ON.
Release ==
    /\ pc = "idle"
    /\ \A h \in Handles : ~files[h].open
    /\ pc' = IF fs.kind = "iso" /\ fs.dir_cache.refs # 0 THEN "bug" ELSE "released"
    /\ pages' = CASE fs.kind = "fat" -> pages - 1
                  [] fs.kind = "iso" -> pages - 3
                  [] OTHER -> pages
    /\ fs' = NoFs
    /\ UNCHANGED <<vol, lookupVars, files, readVars, ops, faults, last>>

Stopped == pc \in {"refused", "released", "bug"} /\ UNCHANGED vars

Steps ==
    \/ FatDetect \/ IsoDetect \/ SuspFirst \/ Susp \/ PxeMount
    \/ OpenFileDirect \/ NextNode \/ FatScan \/ IsoScan \/ IsoName \/ IsoMultiext
    \/ OpenFile \/ BulkRead \/ ComputeRanges
Next ==
    \/ Steps
    \/ \E p \in vol.asked : PathOpen(p)
    \/ \E h \in Handles, r \in vol.requests : ReadFile(h, r[1], r[2])
    \/ \E h \in Handles : CloseFile(h)
    \/ Release
    \/ Stopped

\* The loader is one thread of control, and the firmware's calls return: what has
\* begun runs on.
Spec == Init /\ [][Next]_vars /\ WF_vars(Steps)

-----------------------------------------------------------------------------
(* Properties                                                              *)

\* A path that no volume has: its name is the end of a string.
Missing == <<<<0>>>>

\* The reference for a lookup, by the tree of the volume: one node of a path.
Child(at, name) ==
    CASE at = Missing \/ ~vol.tree[at].dir -> Missing
      [] name = DotDot /\ at = <<>> -> IF vol.kind = "iso" THEN at ELSE Missing
      [] name = DotDot /\ at # <<>> -> Front(at)
      [] OTHER -> IF Append(at, name) \in DOMAIN vol.tree THEN Append(at, name) ELSE Missing

\* What a path names: the file or directory that its nodes lead to.
Resolve(p) ==
    IF vol.kind = "pxe" THEN IF p \in DOMAIN vol.tree THEN p ELSE Missing
    ELSE FoldLeft(Child, <<>>, SelectSeq(p, LAMBDA n : n \notin {Slash, Dot}))

IsFile(at) == at # Missing /\ ~vol.tree[at].dir

\* path_open finds exactly the file that the path names, through '.', '..', long
\* and Rock Ridge names, deleted entries and directories of several clusters or
\* sectors, and reports a file as missing only if there is none or a read or an
\* allocation failed.
PathsOpenTheirFiles ==
    last.op = "open" =>
        LET at == Resolve(last.path)
        IN IF last.handle = 0 THEN last.clean => ~IsFile(at)
           ELSE IsFile(at) /\ files[last.handle].first = vol.tree[at].first

\* A read that succeeds has delivered the bytes of the file at the offset, in
\* order, whatever its fragments, the alignment of the request and the block sizes
\* of the file system and of the disk; it fails only if a device call failed or
\* the chain of the file is broken.  Bytes past the end of a chain that is shorter
\* than the file are left out: the size is corrected after the request is checked.
ReadsAreExact ==
    last.op = "read" =>
        LET ref == vol.tree[Resolve(files[last.handle].of)]
        IN /\ (~last.ok /\ last.clean) => ref.broken
           /\ last.ok => /\ ~ref.broken
                         /\ Len(out) = last.bytes
                         /\ \A i \in 1..Len(out) : last.off + i <= Len(ref.data) =>
                              out[i] = ref.data[last.off + i]

\* The view never holds anything but the table: whichever reads of it failed,
\* every entry that the view answers for has its value on the disk.
ViewIsTheTable ==
    (fs.kind = "fat" /\ fs.view_offset # -1) =>
        \A i \in DOMAIN vol.table :
          (fs.type # 32 \/ i \in fs.view_offset..fs.view_offset + FatViewCells - 1) =>
              GetFatEntry(fs, vol, i) = vol.table[i]

\* The pages held are those of the mounted file system and of its open files, in
\* every path through a failed allocation or a broken chain: none is leaked and
\* none is given back twice.  The ranges of a file have room in the pages it has.
PagesAreOwned ==
    LET Held(h) == IF files[h].open THEN FilePages(files[h]) ELSE 0
        own == CASE fs.kind = "fat" -> 1 [] fs.kind = "iso" -> 3 [] OTHER -> 0
    IN /\ pc \in {"idle", "released", "chain"} =>
            pages = FoldFunction(+, own, [h \in Handles |-> Held(h)])
       /\ \A h \in Handles : (fs.kind = "fat" /\ files[h].open) =>
            Len(files[h].extra) <= files[h].extra_pages * RangesPerPage

\* A record of a directory lies in the directory cache, all of it, for as long as
\* the iteration refers to it, and no legal volume makes the loader trip over one of
\* its own BUG_ONs: a reference to no bytes, a refill under a reference, a range that
\* does not hold its offset.
RecordsAreCached ==
    LET r == ctx.r
        start == ctx.it.base + ctx.it.cur - r.len
        c == fs.dir_cache
    IN /\ pc # "bug"
       /\ pc = "su" =>
            /\ ~c.empty /\ c.refs = 1
            /\ start \div 2^vol.shift >= c.base
            /\ start + r.len <= (c.base * 2^vol.shift) + CacheUnits

\* A volume is set up as it was formatted: the same kind of table and the same
\* data area; and only a volume that is not one, or a failure, is refused.
MountsAsFormatted ==
    /\ fs.kind = "fat" => fs.type = vol.format.type /\ fs.data = vol.format.data
    /\ fs.kind = "iso" => vol.format.type = "iso"
    /\ (pc = "refused" /\ faults = 0) => vol.format.type = "none"

\* Every operation comes to an end, on chains that are loops too.
OperationsEnd == (pc \in {"detect", "direct", "node", "bulk"}) ~> (pc \in {"idle", "refused"})
=============================================================================
