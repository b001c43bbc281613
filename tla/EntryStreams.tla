---------------------------- MODULE EntryStreams ----------------------------
(* How the data of an entry is packed and read back (libpna): the options   *)
(* that a caller builds, the builders and the streaming writers of entries  *)
(* and blocks, the chunks they cut the data into, what may be changed in a  *)
(* finished entry, and the reader, which needs the password.                *)
(* Ciphers, password hashes and compression are libraries: a byte they put  *)
(* out is the byte that went in with what it takes to get it back.  When a  *)
(* cipher hands out its bytes is the matter of GcmStream and CbcStream; here *)
(* those that do not pass bytes through hand them out at the end.           *)
EXTENDS Integers, Sequences, SequencesExt

CONSTANTS Passwords, Compressions, Levels,
          Names, Renamed,              \* names of entries, and those they may get later
          ChunkSizes,                  \* for max_chunk_size; the largest stands for no limit
          MaxContent, KEY_CACHE_CAP, Absent

VARIABLES
  builder,   \* WriteOptionsBuilder
  options,   \* WriteOptions that were built
  salts,     \* random values drawn so far
  work,      \* the builder or stream of an entry, or of a block
  content,   \* what has been written into it
  entry,     \* the finished entry
  reader     \* ReadOptions: the password and the keys derived so far
svars == <<builder, options, salts, work, content, entry, reader>>
----------------------------------------------------------------------------
(* Options. *)
Level(name, value) == [name |-> name, value |-> value]
Methods == [compression |-> Compressions, compression_level |-> Levels,
            encryption |-> {"NO", "AES", "private"},
            cipher_mode |-> {"CBC", "CTR", "GCM", "private"},
            hash_algorithm |-> {"argon2id", "pbkdf2"}, password |-> {Absent} \cup Passwords]
NewBuilder == [compression |-> "NO", compression_level |-> Level("Default", 0),
               encryption |-> "NO", cipher_mode |-> Absent,
               hash_algorithm |-> Absent, password |-> Absent]
Or(value, default) == IF value = Absent THEN default ELSE value

\* External: the key and the PHC string of a password and a salt.
Key(password, phsf) == [password |-> password, phsf |-> phsf]
PHC(algorithm, salt) == [algorithm |-> algorithm, salt |-> salt]

\* A level in the range of a method: by name, or cut off at the ends; a negative
\* one is a large one to deflate, which reads it without a sign.
LevelRange(method) ==
  CASE method = "ZSTANDARD" -> [min |-> -131072, default |-> 3, max |-> 22]
    [] OTHER -> [min |-> 0, default |-> 6, max |-> 9]
Clamped(v, r) == IF v < r.min THEN r.min ELSE IF v > r.max THEN r.max ELSE v
LevelOf(method, l) ==
  LET r == LevelRange(method)
  IN IF method = "NO" THEN 0
     ELSE CASE l.name = "Min" -> r.min
            [] l.name = "Max" -> r.max
            [] l.name = "Default" -> r.default
            [] OTHER -> IF method = "DEFLATE" /\ l.value < 0 THEN r.max ELSE Clamped(l.value, r)

try_build(b) ==
  IF \/ b.encryption = "private" \/ b.compression = "private"
     \/ b.encryption # "NO" /\ b.password = Absent
  THEN Absent
  ELSE [compression |-> b.compression, level |-> LevelOf(b.compression, b.compression_level),
        cipher |-> IF b.encryption = "NO" THEN Absent
                   ELSE [algorithm |-> b.encryption, mode |-> Or(b.cipher_mode, "GCM"),
                         hash |-> Or(b.hash_algorithm, "argon2id"), password |-> b.password,
                         phsf |-> PHC(Or(b.hash_algorithm, "argon2id"), salts)]]
Encryption(o) == IF o.cipher = Absent THEN "NO" ELSE o.cipher.algorithm
cipher_mode(o) == IF o.cipher = Absent THEN "CTR" ELSE o.cipher.mode
store == [compression |-> "NO", level |-> 0, cipher |-> Absent]

LevelAgain(o) == IF o.compression = "NO" THEN Level("Default", 0) ELSE Level("Custom", o.level)
into_builder_AsReported(o) ==
  [compression |-> o.compression, compression_level |-> LevelAgain(o),
   encryption |-> Encryption(o), cipher_mode |-> cipher_mode(o),
   hash_algorithm |-> IF o.cipher = Absent THEN Absent ELSE o.cipher.hash,
   password |-> IF o.cipher = Absent THEN Absent ELSE o.cipher.password]
into_builder(o) ==
  [compression |-> o.compression, compression_level |-> LevelAgain(o), encryption |-> Encryption(o),
   cipher_mode |-> IF o.cipher = Absent THEN Absent ELSE o.cipher.mode,
   hash_algorithm |-> IF o.cipher = Absent THEN Absent ELSE o.cipher.hash,
   password |-> IF o.cipher = Absent THEN Absent ELSE o.cipher.password]
----------------------------------------------------------------------------
(* Headers and the bytes of a stream. *)
EntryHeader(kind, o, mode, name) ==
  [ty |-> "FHED", kind |-> kind, compression |-> o.compression, encryption |-> Encryption(o),
   mode |-> mode, name |-> name]
SolidHeader(o) == [EntryHeader("block", o, cipher_mode(o), <<>>) EXCEPT !.ty = "SHED"]
LinkMode(o) == IF o.cipher = Absent THEN "CBC" ELSE cipher_mode(o)

Byte(part, v) == [part |-> part, v |-> v, via |-> "", seal |-> Absent]
\* What takes part in a key: that of a stream of segments is bound to the header
\* chunk and the PHSF chunk around it.
Binding(key, mode, nonce, header, phsf) ==
  [key |-> key, nonce |-> nonce,
   context |-> IF mode = "GCM" THEN <<header, phsf>> ELSE <<>>]
\* The initialisation vector, or the longer header of a stream of segments, which
\* also tells the right key from a wrong one.
PrefixLen(mode) == IF mode = "GCM" THEN 3 ELSE 2
Prefix(o, nonce) ==
  IF o.cipher = Absent THEN <<>>
  ELSE LET confirms == IF o.cipher.mode = "GCM" THEN Key(o.cipher.password, o.cipher.phsf) ELSE Absent
       IN [i \in 1..PrefixLen(o.cipher.mode) |->
             [Byte("prefix", i) EXCEPT !.seal = Binding(confirms, "", nonce, <<>>, Absent)]]

Compressed(o, bytes) ==
  IF o.compression = "NO" THEN bytes ELSE <<[Byte("frame", 0) EXCEPT !.via = o.compression]>> \o bytes
\* Blocks are filled up, segments get a tag.
Sealed(o, nonce, header, bytes, ends) ==
  IF o.cipher = Absent THEN bytes
  ELSE LET c == o.cipher
           by == Binding(Key(c.password, c.phsf), c.mode, nonce, header, c.phsf)
           tail == IF c.mode = "CTR" \/ ~ends THEN <<>> ELSE <<Byte("tail", 0)>>
           all == bytes \o tail
       IN [i \in DOMAIN all |-> [all[i] EXCEPT !.seal = by]]
\* Bytes that pass through as they are written; the others come at the end.
PassesThrough(o) == o.compression = "NO" /\ cipher_mode(o) = "CTR"

Pieces(bytes, max) ==
  [i \in 1..((Len(bytes) + max - 1) \div max) |->
     SubSeq(bytes, (i - 1) * max + 1, IF i * max < Len(bytes) THEN i * max ELSE Len(bytes))]
\* FlattenWriter: the last chunk is filled up first.
Flatten(data, bytes, max) ==
  IF bytes = <<>> THEN data
  ELSE IF data = <<>> \/ Len(Last(data)) >= max THEN data \o Pieces(bytes, max)
  ELSE LET head == IF Len(bytes) < max - Len(Last(data)) THEN Len(bytes) ELSE max - Len(Last(data))
       IN Front(data) \o <<Last(data) \o SubSeq(bytes, 1, head)>>
          \o Pieces(SubSeq(bytes, head + 1, Len(bytes)), max)
\* ChunkStreamWriter: a chunk for every write, cut where it is too long.
Put(w, bytes) ==
  IF w.streamed THEN w.data \o Pieces(bytes, w.max) ELSE Flatten(w.data, bytes, w.max)
----------------------------------------------------------------------------
(* Writers. *)
NoLimit == CHOOSE n \in ChunkSizes : \A m \in ChunkSizes : m <= n

\* The setters may come in any order and again after into_builder.
SetOption ==
  /\ builder # Absent
  /\ \E f \in DOMAIN Methods : \E m \in Methods[f] : builder' = [builder EXCEPT ![f] = m]
  /\ UNCHANGED <<options, salts, work, content, entry, reader>>
Build ==
  /\ builder # Absent /\ salts < 2
  /\ try_build(builder) # Absent
  /\ options' = try_build(builder) /\ builder' = Absent /\ salts' = salts + 1
  /\ UNCHANGED <<work, content, entry, reader>>
Reopen ==
  /\ options # Absent /\ work = Absent /\ entry = Absent
  /\ builder' = into_builder(options) /\ options' = Absent
  /\ UNCHANGED <<salts, work, content, entry, reader>>

encryption_writer(o) == cipher_mode(o) \in {"CBC", "CTR", "GCM"}
\* get_writer_context and get_writer; the streaming writers put the prefix first.
Begin(o, header, streamed, max, written) ==
  /\ encryption_writer(o)
  /\ work' = [option |-> o, header |-> header, streamed |-> streamed, max |-> max, held |-> written,
              data |-> IF streamed THEN Pieces(Prefix(o, salts), max) ELSE <<>>,
              size |-> Len(written), store_file_size |-> ~streamed, nonce |-> salts]
  /\ content' = written /\ salts' = salts + 1
  /\ UNCHANGED <<builder, options, entry, reader>>

FileEntry(name) == Begin(options, EntryHeader("file", options, cipher_mode(options), name), FALSE, NoLimit, <<>>)
OpaqueEntry(name, kind) ==
  Begin(options, EntryHeader(kind, options, cipher_mode(options), name), FALSE, NoLimit, <<>>)
LinkEntry(name) ==
  Begin(options, EntryHeader("link", options, LinkMode(options), name), FALSE, NoLimit,
        <<Byte("data", 1), Byte("data", 2)>>)
DirEntry(name) == Begin(store, EntryHeader("dir", store, "CBC", name), FALSE, NoLimit, <<>>)
StreamEntry(name, kind, max) ==
  Begin(options, EntryHeader(kind, options, cipher_mode(options), name), TRUE, max, <<>>)
SolidEntry == Begin(options, SolidHeader(options), FALSE, NoLimit, <<>>)
SolidStream(max) == Begin(options, SolidHeader(options), TRUE, max, <<>>)

MayWrite == work # Absent /\ work.header.kind \in {"file", "private", "block"}
Write(n) ==
  LET bytes == [i \in 1..n |-> Byte("data", Len(content) + i)]
  IN /\ MayWrite /\ Len(content) + n <= MaxContent
     /\ content' = content \o bytes
     /\ work' = IF PassesThrough(work.option)
                THEN [work EXCEPT !.data = Put(work, Sealed(work.option, work.nonce, work.header, bytes, FALSE)),
                                  !.size = @ + n]
                ELSE [work EXCEPT !.held = @ \o bytes, !.size = @ + n]
     /\ UNCHANGED <<builder, options, salts, entry, reader>>
set_max_chunk_size(n) ==
  /\ MayWrite /\ ~work.streamed /\ work' = [work EXCEPT !.max = n]
  /\ UNCHANGED <<builder, options, salts, content, entry, reader>>
store_file_size ==
  /\ MayWrite /\ ~work.streamed /\ work' = [work EXCEPT !.store_file_size = FALSE]
  /\ UNCHANGED <<builder, options, salts, content, entry, reader>>

\* build, or the end of the stream: what is held is compressed and sealed; a
\* builder then puts the prefix before the data, in chunks of the size set last.
Finish ==
  /\ work # Absent
  /\ LET w == work
         o == w.option
         last == IF PassesThrough(o) THEN w.held ELSE Compressed(o, w.held)
         data == Put(w, IF w.header.kind = "dir" THEN <<>> ELSE Sealed(o, w.nonce, w.header, last, TRUE))
         chunks == IF w.streamed THEN data ELSE Pieces(Prefix(o, w.nonce), w.max) \o data
     IN entry' = [header |-> w.header, path |-> Absent, data |-> chunks,
                  phsf |-> IF o.cipher = Absent THEN Absent ELSE o.cipher.phsf,
                  raw_file_size |-> IF w.store_file_size /\ w.header.kind = "file" THEN w.size ELSE Absent,
                  compressed_size |-> Len(FlattenSeq(chunks))]
  /\ work' = Absent
  /\ UNCHANGED <<builder, options, salts, content, reader>>
----------------------------------------------------------------------------
(* A finished entry. *)
allows_header_rewrite_Always(mode) == TRUE
allows_header_rewrite(mode) == mode \in {"CBC", "CTR"}
IsEntry == entry # Absent /\ entry.header.ty = "FHED"
\* The name as it is used in paths is worked out once.
Path ==
  /\ IsEntry /\ entry.path = Absent /\ entry' = [entry EXCEPT !.path = entry.header.name.clean]
  /\ UNCHANGED <<builder, options, salts, work, content, reader>>
try_with_name(name) ==
  /\ IsEntry /\ (entry.header.encryption = "NO" \/ allows_header_rewrite(entry.header.mode))
  /\ entry' = [entry EXCEPT !.header.name = name, !.path = Absent]
  /\ UNCHANGED <<builder, options, salts, work, content, reader>>

\* KeyCache: the keys derived with the password of this ReadOptions.
Cached(phsf) == \E k \in reader.cache : k.phsf = phsf
resolve_key(phsf) ==
  IF Cached(phsf) THEN CHOOSE k \in reader.cache : k.phsf = phsf ELSE Key(reader.password, phsf)
Insert(phsf) ==
  IF Cached(phsf) THEN reader.cache
  ELSE {resolve_key(phsf)} \cup (IF Len(SetToSeq(reader.cache)) >= KEY_CACHE_CAP THEN {} ELSE reader.cache)

Failed == [ok |-> FALSE, bytes |-> <<>>]
Read(bytes) == [ok |-> TRUE, bytes |-> bytes]
Garbled == Read(<<Byte("garbled", 0)>>)
Unsealed(bytes) ==
  LET whole == SelectSeq(bytes, LAMBDA b : b.part # "tail")
  IN [i \in DOMAIN whole |-> [whole[i] EXCEPT !.seal = Absent]]
decrypt_reader(e) ==
  LET h == e.header
      bytes == FlattenSeq(e.data)
      n == PrefixLen(h.mode)
      rest == SubSeq(bytes, n + 1, Len(bytes))
      key == resolve_key(e.phsf)
      by == Binding(key, h.mode, bytes[1].seal.nonce, h, e.phsf)
      opens == \A i \in DOMAIN rest : rest[i].seal = by
  IN IF h.encryption = "NO" THEN Read(bytes)
     ELSE IF e.phsf = Absent \/ reader.password = Absent \/ h.mode \notin {"CBC", "CTR", "GCM"}
             \/ Len(bytes) < n
          THEN Failed
     ELSE IF h.mode = "GCM" /\ (bytes[1].seal.key # key \/ ~opens) THEN Failed
     ELSE IF opens THEN Read(Unsealed(rest)) ELSE Garbled
decompress_reader(r, compression) ==
  IF ~r.ok \/ compression = "NO" THEN r
  ELSE IF r.bytes # <<>> /\ r.bytes[1].part = "frame" /\ r.bytes[1].via = compression
       THEN Read(Tail(r.bytes)) ELSE Failed
\* Of a directory no data is read.
Content(e) ==
  IF e.header.kind = "dir" THEN Read(<<>>)
  ELSE decompress_reader(decrypt_reader(e), e.header.compression)

NewReader(p) ==
  /\ entry # Absent /\ reader = Absent /\ reader' = [password |-> p, cache |-> {}]
  /\ UNCHANGED <<builder, options, salts, work, content, entry>>
\* Reading an entry, this one or another of the archive, leaves its key behind.
ReadEntry(phsf) ==
  /\ reader # Absent /\ reader.password # Absent /\ phsf # Absent
  /\ reader' = [reader EXCEPT !.cache = Insert(phsf)]
  /\ UNCHANGED <<builder, options, salts, work, content, entry>>
----------------------------------------------------------------------------
StreamsInit ==
  /\ builder = NewBuilder /\ options = Absent /\ salts = 0 /\ work = Absent
  /\ content = <<>> /\ entry = Absent /\ reader = Absent
StreamsNext ==
  \/ SetOption \/ Build \/ Reopen \/ Finish \/ Path \/ store_file_size
  \/ /\ options # Absent /\ work = Absent /\ entry = Absent
     /\ \/ \E name \in Names :
              \/ FileEntry(name) \/ LinkEntry(name) \/ DirEntry(name) \/ OpaqueEntry(name, "private")
              \/ \E kind \in {"file", "private"}, max \in ChunkSizes : StreamEntry(name, kind, max)
        \/ SolidEntry \/ \E max \in ChunkSizes : SolidStream(max)
  \/ \E n \in 1..2 : Write(n)
  \/ \E n \in ChunkSizes : set_max_chunk_size(n)
  \/ \E name \in Renamed : try_with_name(name)
  \/ \E p \in Passwords \cup {Absent} : NewReader(p)
  \/ entry # Absent /\ \E phsf \in {entry.phsf, PHC("argon2id", -1)} : ReadEntry(phsf)
----------------------------------------------------------------------------
\* However an entry or a block was put together, cut into chunks and renamed, the
\* reader gives back exactly what was written, to whoever has the password or
\* needs none; another password never yields the content, and where the cipher
\* can tell, it is an error.  The sizes recorded are true, and the path is that
\* of the name.
EntryReadsBack ==
  /\ entry # Absent /\ reader # Absent =>
       LET r == Content(entry)
           open == entry.header.encryption = "NO"
           tells == entry.header.mode = "GCM" \/ reader.password = Absent
       IN IF open \/ reader.password = options.cipher.password THEN r = Read(content)
          ELSE IF tells THEN ~r.ok
          ELSE content # <<>> => r # Read(content)
  /\ entry # Absent =>
       /\ entry.compressed_size = Len(FlattenSeq(entry.data))
       /\ entry.raw_file_size \in {Absent, Len(content)}
       /\ IsEntry => entry.path \in {Absent, entry.header.name.clean}

\* Options that are opened again and built anew are the same options, up to the
\* salt; and what was never chosen is still open: once encryption is asked for,
\* it is the authenticated mode.
ReopenedIsSame ==
  options # Absent /\ builder = Absent /\ work = Absent /\ entry = Absent =>
    LET b == into_builder(options)
        again == try_build(b)
    IN /\ IF options.cipher = Absent THEN again = options
          ELSE [again EXCEPT !.cipher.phsf = options.cipher.phsf] = options
       /\ options.cipher = Absent =>
            \A p \in Passwords :
              try_build([b EXCEPT !.encryption = "AES", !.password = p]).cipher.mode = "GCM"
=============================================================================
