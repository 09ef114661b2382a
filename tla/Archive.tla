------------------------------- MODULE Archive -------------------------------
(***************************************************************************)
(* BA2 archives: the writer, the reader and the extractor of the ba2 tool, *)
(* and the second reader that the esm tool has of its own.                 *)
(*                                                                         *)
(* A file is a sequence of pieces, [len, is]: what stands there, in how    *)
(* many bytes.  Data is pieces of some one value; a header, a record, a    *)
(* name or a compressed blob is a piece of its own.  Offsets are offsets   *)
(* in bytes, so a structure is read only where it was written.             *)
(*                                                                         *)
(* Left out: a write to the temp file that fails only when the buffer is   *)
(* dropped, whose error the writer does not see (writer.rs:261, 457), and  *)
(* files and chunks of 4 GiB and more.                                     *)
(***************************************************************************)
EXTENDS Integers, FiniteSetsExt, SequencesExt

\* An operation that is seen to fail gives up the whole command.
Bail == [what |-> "error"]
Failed(x) == x.what = "error"

Piece(len, is) == [len |-> len, is |-> is]
NoData == <<Piece(0, Bail)>>
Unread(data) == data = NoData
Size(file) == FoldLeft(LAMBDA n, p : n + p.len, 0, file)
Smaller(a, b) == IF a < b THEN a ELSE b
Larger(a, b) == IF a < b THEN b ELSE a

\* The bytes of a file from an offset on.
Cut(file, from, len) ==
  LET start(i) == Size(SubSeq(file, 1, i - 1))
      part(i) == Smaller(start(i) + file[i].len, from + len) - Larger(start(i), from)
      parts == [i \in DOMAIN file |-> Piece(part(i), file[i].is)]
      some(p) == p.len > 0
  IN  SelectSeq(parts, some)

\* The structure of some kind at an offset, or what else the bytes there mean.
At(file, from, len, what) ==
  LET as(found) == IF Len(found) = 1 /\ found[1].len = len /\ found[1].is.what = what THEN found[1].is ELSE Bail
  IN  as(Cut(file, from, len))

-----------------------------------------------------------------------------
(* Compression.  The codecs are external: a blob of either unpacks to what it *)
(* was made of and takes a byte per piece of it; an LZ4 block that begins with *)
(* the right literal begins like a zlib stream.                               *)

ZlibLike == 120
PackedLength(codec, data) == Len(data) + IF codec = "zlib" THEN 2 ELSE 1
Packed(codec, data) ==
  <<Piece(PackedLength(codec, data), [what |-> "packed", codec |-> codec, of |-> data])>>

CompressEntry(data, opts) ==
  LET length == PackedLength(opts.codec, data)
  IN  IF opts.codec # "store" /\ length < (Size(data) * opts.shrink) \div 100
      THEN [blob |-> Packed(opts.codec, data), packed |-> length]
      ELSE [blob |-> data, packed |-> 0]

\* Unpacking is given the size to expect, and no more than the limit of it.
Decompress1(codec, raw, expected, limit) ==
  IF expected > limit \/ Len(raw) # 1 \/ raw[1].is.what # "packed" THEN NoData
  ELSE LET blob == raw[1].is
       IN  IF blob.codec = codec /\ raw[1].len = PackedLength(codec, blob.of) /\ Size(blob.of) = expected
           THEN blob.of ELSE NoData

IsZlib(raw) ==
  /\ Size(raw) >= 2
  /\ LET first == raw[1].is
     IN  first.what = "packed" /\ (first.codec = "zlib" \/ first.of[1].is.v = ZlibLike)

\* A codec that is not given is guessed; a wrong guess of zlib is tried as LZ4.
Decompress(raw, expected, codec, limit) ==
  LET as(c) == Decompress1(c, raw, expected, limit)
  IN  IF codec # "auto" THEN as(codec)
      ELSE IF IsZlib(raw) /\ ~Unread(as("zlib")) THEN as("zlib")
      ELSE as("lz4")

-----------------------------------------------------------------------------
(* Names are components, [word, upper] as somebody spelled them and in an *)
(* archive the words alone.                                              *)

NormalizeName(name) == [i \in DOMAIN name |-> name[i].word]
NameLength(path) == 2 + Len(path)
WriteNameTable(paths) ==
  [i \in DOMAIN paths |-> Piece(NameLength(paths[i]), [what |-> "name", path |-> paths[i]])]

-----------------------------------------------------------------------------
(* The formats of textures, and the headers of .dds files *)

Format(bits, block, pixels) == [bits |-> bits, block |-> block, pixels |-> pixels]
Formats ==
  (10 :> Format(64, FALSE, "DX10")) @@ (11 :> Format(64, FALSE, "DX10"))
    @@ (28 :> Format(32, FALSE, "rgba")) @@ (29 :> Format(32, FALSE, "DX10")) @@ (61 :> Format(8, FALSE, "luminance"))
    @@ (71 :> Format(4, TRUE, "DXT1")) @@ (72 :> Format(4, TRUE, "DX10")) @@ (77 :> Format(8, TRUE, "DXT5"))
    @@ (78 :> Format(8, TRUE, "DX10")) @@ (80 :> Format(4, TRUE, "BC4U")) @@ (83 :> Format(8, TRUE, "BC5U"))
    @@ (84 :> Format(8, TRUE, "BC5S")) @@ (87 :> Format(32, FALSE, "bgra")) @@ (98 :> Format(8, TRUE, "DX10"))
    @@ (99 :> Format(8, TRUE, "DX10"))

DdsHeaderSize == 128
ExtensionSize == 20

\* Half of each side per level; blocks are of four by four pixels.
Halved(side, level) == Larger(side \div 2 ^ level, 1)
MipSize(desc, level) ==
  LET side(n, block) == IF block THEN 4 * ((Halved(n, level) + 3) \div 4) ELSE Halved(n, level)
      size(f) == (side(desc.width, f.block) * side(desc.height, f.block) * f.bits) \div 8
  IN  size(Formats[desc.format])

\* The header written before the mips of a texture that is read.
SynthHeader(desc) ==
  LET head(pixels, ext) == [what |-> "dds", height |-> desc.height, width |-> desc.width, mips |-> Larger(desc.mips, 1),
                            pixels |-> pixels, cube |-> desc.cube, ext |-> ext]
      header(pixels) ==
        IF pixels = "DX10"
        THEN <<Piece(DdsHeaderSize + ExtensionSize, head(pixels, [format |-> desc.format, cube |-> desc.cube]))>>
        ELSE <<Piece(DdsHeaderSize, head(pixels, <<>>))>>
  IN  IF desc.format \notin DOMAIN Formats THEN NoData ELSE header(Formats[desc.format].pixels)

\* The only format whose pixels a header without extension can name.
LegacyFormat(pixels) ==
  CASE pixels = "DXT1" -> 71 [] pixels = "DXT5" -> 77 [] pixels = "BC4U" -> 80 [] pixels = "BC5U" -> 83
    [] pixels = "BC5S" -> 84 [] pixels = "rgba" -> 28 [] pixels = "bgra" -> 87 [] pixels = "luminance" -> 61
    [] OTHER -> 0

ParseHeader(dds) ==
  IF Size(dds) < DdsHeaderSize \/ dds[1].is.what # "dds" THEN Bail
  ELSE
    LET h == dds[1].is
        extended == h.pixels = "DX10"
        length == DdsHeaderSize + IF extended THEN ExtensionSize ELSE 0
        format == IF extended THEN h.ext.format ELSE LegacyFormat(h.pixels)
    IN  IF \/ Size(dds) < length \/ format \notin DOMAIN Formats
           \/ h.width \notin 1..65535 \/ h.height \notin 1..65535 \/ h.mips > 255
        THEN Bail
        ELSE [what |-> "meta",
              desc |-> [format |-> format, width |-> h.width, height |-> h.height, mips |-> Larger(h.mips, 1),
                        cube |-> h.cube \/ (extended /\ h.ext.cube)],
              length |-> length]

\* A chunk more for each mip that is still of 512 by 512 pixels, up to four.
Dx10ChunkCount(desc) ==
  IF desc.cube THEN 1
  ELSE 1 + Cardinality({k \in 0..2 : /\ k + 1 < Larger(desc.mips, 1)
                                     /\ (desc.width \div 2 ^ k) * (desc.height \div 2 ^ k) >= 512 * 512})

-----------------------------------------------------------------------------
(* The writer: compressed blobs first, then the file around them.  What has  *)
(* been packed so far is [entries, blobs].                                   *)

HeaderSize == 24
RecordSize == 36
TexRecordSize == 24
TexChunkSize == 24
Version == 1

Header(kind, count, names) ==
  Piece(HeaderSize, [what |-> "header", version |-> Version, kind |-> kind, count |-> count, names |-> names])

\* A blob after those already packed.
PlacedBlob(blobs, data, opts) ==
  LET entry == CompressEntry(data, opts)
  IN  [at |-> [offset |-> Size(blobs), packed |-> entry.packed, unpacked |-> Size(data)],
       blobs |-> blobs \o entry.blob]

PackGnrl(packed, file, opts) ==
  LET path == NormalizeName(file.name)
      add(placed) == [what |-> "packed",
                      entries |-> Append(packed.entries, [path |-> path, blob |-> placed.at]), blobs |-> placed.blobs]
  IN  IF Failed(packed) \/ Size(file.data) > opts.maxFile \/ Len(path) > opts.maxName THEN Bail
      ELSE add(PlacedBlob(packed.blobs, file.data, opts))

\* One chunk per mip, and the last takes the rest.
PackChunk(packed, i, length, desc, last, mips, opts) ==
  LET chunk(blob) == [what |-> "chunk", blob |-> blob, first |-> i, last |-> IF last THEN desc.mips - 1 ELSE i]
      add(placed) == [what |-> "packed", chunks |-> Append(packed.chunks, chunk(placed.at)),
                      taken |-> packed.taken + length, blobs |-> placed.blobs]
  IN  IF packed.taken + length > Size(mips) THEN Bail
      ELSE add(PlacedBlob(packed.blobs, Cut(mips, packed.taken, length), opts))
PackChunks(blobs, desc, mips, count, opts) ==
  LET length(p, i) == IF i = count THEN Size(mips) - p.taken ELSE MipSize(desc, i - 1)
      pack(p, i) == IF Failed(p) THEN Bail ELSE PackChunk(p, i - 1, length(p, i), desc, i = count, mips, opts)
  IN  FoldLeft(pack, [what |-> "packed", chunks |-> <<>>, taken |-> 0, blobs |-> blobs], [i \in 1..count |-> i])

PackDx10(packed, file, opts) ==
  LET path == NormalizeName(file.name)
      add(desc, chunked) ==
        IF Failed(chunked) THEN Bail
        ELSE [what |-> "packed",
              entries |-> Append(packed.entries, [path |-> path, tex |-> desc, chunks |-> chunked.chunks]),
              blobs |-> chunked.blobs]
      pack(meta) ==
        IF Failed(meta) THEN Bail
        ELSE add(meta.desc, PackChunks(packed.blobs, meta.desc, Cut(file.data, meta.length, Size(file.data) - meta.length),
                                       Dx10ChunkCount(meta.desc), opts))
  IN  IF Failed(packed) \/ Len(path) > opts.maxName THEN Bail ELSE pack(ParseHeader(file.data))

PackAll(files, opts) ==
  LET pack(p, f) == IF opts.kind = "GNRL" THEN PackGnrl(p, f, opts) ELSE PackDx10(p, f, opts)
  IN  FoldLeft(pack, [what |-> "packed", entries |-> <<>>, blobs |-> <<>>], files)

WriteRecord(blob) == Piece(RecordSize, [what |-> "record", blob |-> blob])
WriteTexRecord(entry) == Piece(TexRecordSize, [what |-> "tex", desc |-> entry.tex, chunks |-> Len(entry.chunks)])
WriteTexChunk(chunk) == Piece(TexChunkSize, chunk)

\* Offsets are among the blobs until it is known where the blobs begin.
Moved(blob, by) == [blob EXCEPT !.offset = @ + by]
GnrlRecords(entries, dataStart) == [i \in DOMAIN entries |-> WriteRecord(Moved(entries[i].blob, dataStart))]
Dx10Records(entries, dataStart) ==
  LET chunks(e) == [i \in DOMAIN e.chunks |-> WriteTexChunk([e.chunks[i] EXCEPT !.blob = Moved(@, dataStart)])]
  IN  FlattenSeq([i \in DOMAIN entries |-> <<WriteTexRecord(entries[i])>> \o chunks(entries[i])])

\* Mutant: the chunk records of a texture are not counted.
DataStart_FilesOnly(entries, kind) ==
  HeaderSize + (IF kind = "GNRL" THEN RecordSize ELSE TexRecordSize) * Len(entries)

DataStart(entries, kind) ==
  HeaderSize
    + IF kind = "GNRL" THEN RecordSize * Len(entries)
      ELSE FoldLeft(LAMBDA n, e : n + TexRecordSize + TexChunkSize * Len(e.chunks), 0, entries)

\* A new archive is renamed over the old one when it is complete.
Publish(old, made) == IF Failed(made) THEN old ELSE made.of

WriteBa2(files, opts) ==
  LET records(entries, start) ==
        IF opts.kind = "GNRL" THEN GnrlRecords(entries, start) ELSE Dx10Records(entries, start)
      file(entries, blobs, start) ==
        <<Header(opts.kind, Len(entries), start + Size(blobs))>> \o records(entries, start) \o blobs
          \o WriteNameTable([i \in DOMAIN entries |-> entries[i].path])
      write(packed) ==
        IF Failed(packed) THEN Bail
        ELSE [what |-> "file", of |-> file(packed.entries, packed.blobs, DataStart(packed.entries, opts.kind))]
  IN  write(PackAll(files, opts))

-----------------------------------------------------------------------------
(* The reader *)

ReadRecord(file, at) == At(file, at, RecordSize, "record")
ReadTexRecord(file, at) == At(file, at, TexRecordSize, "tex")
ReadTexChunk(file, at) == At(file, at, TexChunkSize, "chunk")
ReadHeader(file) == IF Size(file) < HeaderSize THEN Bail ELSE At(file, 0, HeaderSize, "header")

\* Each name after the one before, or an error at the first that is cut off.
ParseNames(file, start, count) ==
  LET add(read, name) ==
        IF name.is.what # "name" THEN Bail
        ELSE IF read.pos + NameLength(name.is.path) > Size(file) THEN Bail
        ELSE [what |-> "names", names |-> Append(read.names, name.is.path), pos |-> read.pos + name.len]
      next(read, i) ==
        IF Failed(read) \/ read.pos + 2 > Size(file) THEN Bail
        ELSE add(read, Head(Cut(file, read.pos, Size(file))))
  IN  FoldLeft(next, [what |-> "names", names |-> <<>>, pos |-> start], [i \in 1..count |-> i])

ParseGnrlEntries(file, count, start) ==
  LET raw == [i \in 1..count |-> ReadRecord(file, HeaderSize + (i - 1) * RecordSize)]
      named(records, names) ==
        IF Failed(names) \/ \E i \in 1..count : Failed(records[i]) THEN Bail
        ELSE [what |-> "entries", of |-> [i \in 1..count |-> [path |-> names.names[i], blob |-> records[i].blob]]]
  IN  IF HeaderSize + count * RecordSize > Size(file) THEN Bail
      ELSE named(raw, ParseNames(file, start, count))

\* The chunks of a texture follow its record, so records are read in order.
ParseDx10Entries(file, count, start) ==
  LET chunks(at, n) == [c \in 1..n |-> ReadTexChunk(file, at + TexRecordSize + (c - 1) * TexChunkSize)]
      add(read, tex, its) ==
        IF \E c \in DOMAIN its : Failed(its[c]) THEN Bail
        ELSE [what |-> "raw", pos |-> read.pos + TexRecordSize + tex.chunks * TexChunkSize,
              of |-> Append(read.of, [tex |-> tex.desc, chunks |-> its])]
      entry(read, tex) == IF Failed(tex) THEN Bail ELSE add(read, tex, chunks(read.pos, tex.chunks))
      next(read, i) == IF Failed(read) THEN Bail ELSE entry(read, ReadTexRecord(file, read.pos))
      named(raw, names) ==
        IF Failed(names) THEN Bail
        ELSE [what |-> "entries", of |-> [i \in 1..count |-> [path |-> names.names[i]] @@ raw.of[i]]]
      finish(raw) ==
        IF Failed(raw) THEN Bail
        ELSE IF raw.pos > start THEN Bail
        ELSE named(raw, ParseNames(file, start, count))
  IN  finish(FoldLeft(next, [what |-> "raw", pos |-> HeaderSize, of |-> <<>>], [i \in 1..count |-> i]))

Open(file) ==
  LET open(h) ==
        IF Failed(h) THEN Bail
        ELSE IF h.version # Version \/ h.kind \notin {"GNRL", "DX10"} \/ h.names > Size(file) THEN Bail
        ELSE IF h.kind = "GNRL" THEN ParseGnrlEntries(file, h.count, h.names)
        ELSE ParseDx10Entries(file, h.count, h.names)
  IN  open(ReadHeader(file))

IsCompressed(blob) == blob.packed # 0
StoredLength(blob) == IF IsCompressed(blob) THEN blob.packed ELSE blob.unpacked

ReadBlob(file, blob, codec, limit) ==
  IF blob.offset + StoredLength(blob) > Size(file) THEN NoData
  ELSE LET raw == Cut(file, blob.offset, StoredLength(blob))
       IN  IF IsCompressed(blob) THEN Decompress(raw, blob.unpacked, codec, limit) ELSE raw

\* Of entries with one name the last is the one that is found.
Find(entries, path) ==
  LET hits == {i \in DOMAIN entries : entries[i].path = path} IN IF hits = {} THEN 0 ELSE Max(hits)

\* A texture comes back as a .dds file.
ReadTexture(file, entry, codec, limit) ==
  LET mips == [i \in DOMAIN entry.chunks |-> ReadBlob(file, entry.chunks[i].blob, codec, limit)]
      wrong(data, i) == Unread(data) \/ Size(data) # entry.chunks[i].blob.unpacked
      dds(header, of) ==
        IF Unread(header) \/ \E i \in DOMAIN of : wrong(of[i], i) THEN NoData ELSE header \o FlattenSeq(of)
  IN  dds(SynthHeader(entry.tex), mips)

Read(file, entries, path, codec, limit) ==
  LET i == Find(entries, path)
  IN  IF i = 0 THEN NoData
      ELSE IF "blob" \in DOMAIN entries[i] THEN ReadBlob(file, entries[i].blob, codec, limit)
      ELSE ReadTexture(file, entries[i], codec, limit)

\* The size a listing gives an entry.
UnpackedSize(entry) ==
  IF "blob" \in DOMAIN entry THEN entry.blob.unpacked
  ELSE Size(SynthHeader(entry.tex)) + FoldLeft(LAMBDA n, c : n + c.blob.unpacked, 0, entry.chunks)

-----------------------------------------------------------------------------
(* The reader of the esm tool: general archives of any version, and LZ4 only *)

EsmOpen(file) ==
  LET open(h) ==
        IF Failed(h) THEN Bail
        ELSE IF h.kind # "GNRL" \/ h.names >= Size(file) THEN Bail
        ELSE ParseGnrlEntries(file, h.count, h.names)
  IN  open(ReadHeader(file))

EsmRead(file, entries, path, limit) ==
  LET i == Find(entries, path)
  IN  IF i = 0 THEN NoData ELSE ReadBlob(file, entries[i].blob, "lz4", limit)

-----------------------------------------------------------------------------
(* The extractor.  A tree is a function from paths to what the files hold. *)

SafeOutputPath(path) ==
  LET kept(word) == word \notin {"", "."}
  IN  IF Head(path) = "" \/ ".." \in ToSet(path) THEN Bail
      ELSE [what |-> "path", of |-> SelectSeq(path, kept)]

\* A file cannot be where a directory must be, nor a directory where a file is.
Obstructed(tree, path) ==
  path = <<>> \/ \E other \in DOMAIN tree : IsStrictPrefix(other, path) \/ IsStrictPrefix(path, other)

\* Entries are read by their names; the first failure ends the extraction.
WriteEntry(out, dest, data) ==
  IF Failed(dest) \/ Unread(data) THEN [out EXCEPT !.ok = FALSE]
  ELSE IF Obstructed(out.tree, dest.of) THEN [out EXCEPT !.ok = FALSE]
  ELSE [ok |-> TRUE, count |-> out.count + 1, tree |-> (dest.of :> data) @@ out.tree]
ExtractEntry(out, file, entries, i, codec, limit) ==
  IF ~out.ok THEN out
  ELSE WriteEntry(out, SafeOutputPath(entries[i].path), Read(file, entries, entries[i].path, codec, limit))

ExtractAll(file, entries, filter, codec, limit) ==
  LET step(out, i) ==
        IF filter # {} /\ entries[i].path \notin filter THEN out
        ELSE ExtractEntry(out, file, entries, i, codec, limit)
  IN  FoldLeft(step, [ok |-> TRUE, count |-> 0, tree |-> <<>>], [i \in DOMAIN entries |-> i])

-----------------------------------------------------------------------------
(* What a create command packs: the files under a directory, the files named *)
(* on the command line, or the lines of a list                               *)

NoName == <<Bail>>

\* The path below the base, or without a base the name of the file alone.
DeriveArchivePath(src, base) ==
  IF base = <<>> THEN IF Last(src).word = ".." THEN NoName ELSE <<Last(src)>>
  ELSE IF IsPrefix(base, src) THEN SubSeq(src, Len(base) + 1, Len(src)) ELSE NoName

CollectFromDir(found, dir) ==
  [i \in DOMAIN found |-> [name |-> SubSeq(found[i].at, Len(dir) + 1, Len(found[i].at)), data |-> found[i].data]]

CollectFromFiles(files, base) ==
  [i \in DOMAIN files |-> [name |-> DeriveArchivePath(files[i].at, base), data |-> files[i].data]]

\* A line may give the name its file is to have in the archive.
CollectFromList(lines, base) ==
  LET real(line) == ~line.comment
      pair(line) == [name |-> IF line.name = <<>> THEN DeriveArchivePath(line.at, base) ELSE line.name,
                     data |-> line.data]
      kept == SelectSeq(lines, real)
  IN  [i \in DOMAIN kept |-> pair(kept[i])]

Collect(how, sources, base) ==
  CASE how = "from" -> CollectFromDir(sources, base)
    [] how = "files" -> CollectFromFiles(sources, base)
    [] how = "list" -> CollectFromList(sources, base)

DefaultCodec(kind) == IF kind = "GNRL" THEN "lz4" ELSE "zlib"

CmdCreate(how, sources, base, opts) ==
  LET codec == IF opts.codec = "default" THEN DefaultCodec(opts.kind) ELSE opts.codec
      create(pairs) ==
        IF pairs = <<>> \/ \E i \in DOMAIN pairs : pairs[i].name = NoName THEN Bail
        ELSE WriteBa2(pairs, [opts EXCEPT !.codec = codec])
  IN  create(Collect(how, sources, base))
=============================================================================
