--------------------------- MODULE FileAttributes ---------------------------
(***************************************************************************)
(* The attributes of one file from disk to disk: read when its entry is    *)
(* created, stored as facets, and restored step by step when the entry is  *)
(* extracted, under the options that the flags of both commands come to.   *)
(* An entry may also come from another program.                            *)
(*                                                                         *)
(* Linux.  Names and ids are looked up in the user database of the host;   *)
(* one database serves users and groups.  Times are ticks, modes sets of   *)
(* bits; an attribute the file system holds back is "unsupported".         *)
(***************************************************************************)
EXTENDS CommandOptions

CONSTANTS Here, There,      \* the databases of the two hosts: id -> name
          IdSpan,           \* 2^32: the number of ids of a host
          Umask,            \* bits that the mask of the extracting user clears
          Now, Override,    \* the time of the extraction, and that of --mtime
          TimeLimit,        \* times of the platform are in -TimeLimit..TimeLimit
          Absent,
          Made, Used,       \* KeepOptions of the creating and the extracting command
          SourceFiles, ForeignEntries

VARIABLES source, made, entry, used, target, step, warned

avars == <<source, made, entry, used, target, step, warned>>

OverrideName == "alice"
OverrideId == 1
LongName == "a name of more than 255 bytes"
CutName == "its first 255 bytes"
----------------------------------------------------------------------------
(* The host.                                                                *)

FromId(db, id) == IF id % IdSpan \in DOMAIN db THEN id % IdSpan ELSE Absent
FromName(db, name) ==
  IF \E id \in DOMAIN db : db[id] = name THEN CHOOSE id \in DOMAIN db : db[id] = name ELSE Absent
is_acl_xattr(name) == name = "system.posix_acl_access"

\* External: lchown clears the bit, and needs the right to change anything.
Chowned(f, uid, gid) ==
  LET new(id, old) == IF id = Absent THEN old ELSE id
  IN [f EXCEPT !.uid = new(uid, @), !.gid = new(gid, @),
               !.mode = IF f.kind = "file" /\ {uid, gid} # {Absent} THEN @ \ {"suid"} ELSE @]
----------------------------------------------------------------------------
(* Creation.                                                                *)

\* Duration holds every time of a platform; not so the other way round.
platform_clamp_target(into_future) ==
  LET powers == {p \in {1, 2, 4, 8, 16, 32, 64} : p <= TimeLimit}
      greatest == CHOOSE p \in powers : \A q \in powers : q <= p
  IN IF into_future THEN greatest ELSE -greatest
saturating_duration_to_system_time(d) ==
  IF d = Absent \/ d \in -TimeLimit..TimeLimit THEN d ELSE platform_clamp_target(d >= 0)

resolve(how, time) ==
  IF how = "override" THEN Override
  ELSE IF how = "clamp" /\ time # Absent /\ time > Override THEN Override ELSE time

owner_name_opt(name) ==
  IF name = "" THEN Absent ELSE IF name = LongName THEN CutName ELSE name
NameGiven(flag) == IF flag = "numeric_owner" THEN "" ELSE OverrideName
IdGiven(flag, id) == IF flag = "source" THEN id ELSE OverrideId

NoFacets == [created |-> Absent, mtime |-> Absent, atime |-> Absent, uid |-> Absent,
             gid |-> Absent, uname |-> Absent, gname |-> Absent, mode |-> Absent,
             xattrs |-> {}, acl |-> Absent, flags |-> {}]

\* Whoever is not in the database cannot be archived under a name.
Nameless(f, k) ==
  /\ k.permission.owner.kept
  /\ \/ k.permission.owner.uname = "source"
        /\ FromId(Here, IdGiven(k.permission.owner.uid, f.uid)) = Absent
     \/ k.permission.owner.gname = "source"
        /\ FromId(Here, IdGiven(k.permission.owner.gid, f.gid)) = Absent

OwnerFacets(f, o) ==
  LET uid == IdGiven(o.uid, f.uid)
      gid == IdGiven(o.gid, f.gid)
      name(how, id) == IF how = "source" THEN Here[id] ELSE NameGiven(how)
  IN [uid |-> uid, gid |-> gid, uname |-> owner_name_opt(name(o.uname, uid)),
      gname |-> owner_name_opt(name(o.gname, gid)), mode |-> f.mode]

\* What an entry stores of a file.  The mode goes with the owner.
build_entry_metadata(f, k) ==
  LET time(how, t) == IF k.timestamp.preserve THEN resolve(how, t) ELSE Absent
      o == IF k.permission.owner.kept THEN OwnerFacets(f, k.permission.owner) ELSE NoFacets
  IN [NoFacets EXCEPT
        !.created = time(k.timestamp.ctime, f.created), !.mtime = time(k.timestamp.mtime, f.mtime),
        !.atime = time(k.timestamp.atime, f.atime), !.uid = o.uid, !.gid = o.gid,
        !.uname = o.uname, !.gname = o.gname, !.mode = o.mode,
        !.xattrs = IF "keep_xattr" \in k.facets THEN {x \in f.xattrs : ~is_acl_xattr(x)} ELSE {}]
collect_extra_chunks(m, f, k) ==
  [m EXCEPT !.acl = IF "keep_acl" \in k.facets THEN f.acl ELSE Absent,
            !.flags = IF "keep_fflags" \in k.facets /\ f.kind # "symlink" THEN f.flags ELSE {}]

create_entry ==
  /\ step = "create"
  /\ IF Nameless(source, made)
     THEN step' = "error" /\ UNCHANGED entry
     ELSE /\ entry' = collect_extra_chunks(build_entry_metadata(source, made), source, made)
          /\ step' = "times"
  /\ UNCHANGED <<source, made, used, target, warned>>
----------------------------------------------------------------------------
(* Extraction, in the order of restore_timestamps and restore_metadata.     *)

Immutable == "schg" \in target.flags
Go(from, to) == step = from /\ step' = IF Immutable THEN "error" ELSE to
Keep == UNCHANGED <<source, made, entry, used>>

RestoreTimes ==
  LET time(how, t, old) ==
        IF resolve(how, saturating_duration_to_system_time(t)) = Absent THEN old
        ELSE resolve(how, saturating_duration_to_system_time(t))
  IN /\ Go("times", "owner")
     /\ target' = IF ~used.timestamp.preserve THEN target
                  ELSE [target EXCEPT !.mtime = time(used.timestamp.mtime, entry.mtime, @),
                                      !.atime = time(used.timestamp.atime, entry.atime, @)]
     /\ Keep /\ UNCHANGED warned

\* An id or a name that is not empty; a mode alone is not an owner.
has_posix_owner_identity(e) ==
  \E f \in {"uid", "gid", "uname", "gname"} : e[f] # Absent
has_overrides(o) == {o.uname, o.gname, o.uid, o.gid} # {"source"}
should_restore_owner_Always(e, o) == TRUE
should_restore_owner(e, o) == has_posix_owner_identity(e) \/ has_overrides(o)

\* The id given; else the name given, else stored; else the id stored, or 0.
search_owner_IdFirst(id_given, name_given, name, id) ==
  IF id_given # "source" THEN FromId(There, OverrideId)
  ELSE FromId(There, IF id = Absent THEN 0 ELSE id)
search_owner(id_given, name_given, name, id) ==
  LET sought == IF name_given # "source" THEN NameGiven(name_given)
                ELSE IF name = Absent THEN "" ELSE name
  IN IF id_given # "source" THEN FromId(There, OverrideId)
     ELSE IF FromName(There, sought) # Absent THEN FromName(There, sought)
     ELSE FromId(There, IF id = Absent THEN 0 ELSE id)

RestoreOwner ==
  LET o == used.permission.owner
      new == Chowned(target, search_owner(o.uid, o.uname, entry.uname, entry.uid),
                     search_owner(o.gid, o.gname, entry.gname, entry.gid))
      denied == target.by # 0 /\ <<new.uid, new.gid>> # <<target.uid, target.gid>>
  IN /\ Go("owner", "mode")
     /\ IF o.kept /\ should_restore_owner(entry, o)
        THEN target' = (IF denied THEN target ELSE new) /\ warned' = (warned \/ denied)
        ELSE UNCHANGED <<target, warned>>
     /\ Keep

RestoreMode ==
  /\ Go("mode", "xattrs")
  /\ target' = IF target.kind = "symlink" \/ entry.mode = Absent
                  \/ used.permission.mode = "never" THEN target
               ELSE [target EXCEPT !.mode = IF used.permission.mode = "preserve" THEN entry.mode
                                            ELSE (entry.mode \ {"suid"}) \ Umask]
  /\ Keep /\ UNCHANGED warned

\* The file system may not know the attribute: a warning.
Supported(facet, to) == target' = to /\ UNCHANGED warned
Unsupported == UNCHANGED target /\ warned' = TRUE

RestoreXattrs ==
  /\ Go("xattrs", "acl")
  /\ IF "keep_xattr" \in used.facets
     THEN \/ Supported("xattrs", [target EXCEPT !.xattrs = @ \cup {x \in entry.xattrs : ~is_acl_xattr(x)}])
          \/ Unsupported
     ELSE UNCHANGED <<target, warned>>
  /\ Keep
restore_acls ==
  /\ Go("acl", "flags")
  /\ IF "keep_acl" \in used.facets /\ entry.acl # Absent
     THEN Supported("acl", [target EXCEPT !.acl = entry.acl]) \/ Unsupported
     ELSE UNCHANGED <<target, warned>>
  /\ Keep
\* Flags that this platform does not have are left out.
RestoreFlags ==
  /\ Go("flags", "done")
  /\ IF "keep_fflags" \in used.facets /\ entry.flags # {}
     THEN \/ /\ target.kind # "symlink"
             /\ Supported("flags", [target EXCEPT !.flags = @ \cup (entry.flags \ {"uchg"})])
          \/ Unsupported
     ELSE UNCHANGED <<target, warned>>
  /\ Keep
----------------------------------------------------------------------------
\* A new file, or a directory that was there; by the user who extracts.
Targets(kind) ==
  {[kind |-> kind, by |-> who, uid |-> IF old THEN 1 ELSE who, gid |-> who, mode |-> {"u+r"},
    mtime |-> Now, atime |-> Now, xattrs |-> {}, acl |-> Absent, flags |-> {}] :
      who \in {0, 3}, old \in {kind = "dir", FALSE}}

AttributesInit ==
  /\ source \in SourceFiles /\ made \in Made \cup {Absent} /\ used \in Used
  /\ target \in Targets(source.kind)
  /\ warned = FALSE
  /\ \/ step = "create" /\ entry = NoFacets /\ made # Absent
     \/ step = "times" /\ entry \in ForeignEntries /\ made = Absent

AttributesNext ==
  \/ create_entry \/ RestoreTimes \/ RestoreOwner \/ RestoreMode \/ RestoreXattrs
  \/ restore_acls \/ RestoreFlags
----------------------------------------------------------------------------
\* An account that both hosts know under one name and number.
SameAccount(id) == /\ id \in DOMAIN Here \cap DOMAIN There
                   /\ Here[id] = There[id] /\ Here[id] # LongName
Kept(facet) == facet \in made.facets \cap used.facets
FromSource(field) ==
  made.timestamp[field] = "source" /\ used.timestamp[field] = "source"

\* Created and extracted by root without a warning, what is kept at both ends is
\* what the file had: the times as far as the platform has them, the mode with
\* its special bits although a change of owner clears them, the owner by name
\* and else by number, and the flags although an immutable file takes nothing
\* more.
AttributesReturn ==
  step = "done" /\ made # Absent /\ ~warned /\ target.by = 0 =>
    /\ \A t \in {"mtime", "atime"} : FromSource(t) => target[t] = source[t]
    /\ source.kind # "symlink" /\ made.permission.owner.kept =>
         /\ used.permission.mode = "preserve" => target.mode = source.mode
         /\ used.permission.mode = "masked" => "suid" \notin target.mode /\ target.mode \subseteq source.mode
    /\ made.permission.owner.kept /\ used.permission.owner.kept
         /\ ~has_overrides(made.permission.owner) /\ ~has_overrides(used.permission.owner) =>
         /\ SameAccount(source.uid) => target.uid = source.uid
         /\ FromName(There, Here[source.uid]) # Absent => There[target.uid] = Here[source.uid]
    /\ Kept("keep_xattr") => target.xattrs = {x \in source.xattrs : ~is_acl_xattr(x)}
    /\ Kept("keep_acl") => target.acl = source.acl
    /\ Kept("keep_fflags") /\ source.kind # "symlink" => target.flags = source.flags \ {"uchg"}

\* No step touches what the entry does not carry or the options do not ask for:
\* a mode alone gives no owner, a missing time does not become 1970.
NothingUnaskedStep ==
  (  /\ \A t \in {"mtime", "atime"} : target'[t] # target[t] =>
          used.timestamp.preserve /\ (used.timestamp[t] = "override" \/ entry[t] # Absent)
     /\ <<target'.uid, target'.gid>> # <<target.uid, target.gid>> =>
          /\ used.permission.owner.kept
          /\ \/ \E f \in {"uid", "gid", "uname", "gname"} : entry[f] # Absent
             \/ has_overrides(used.permission.owner)
     /\ target'.mode # target.mode =>
          used.permission.owner.kept \/ (used.permission.mode # "never" /\ entry.mode # Absent)
     /\ target'.xattrs # target.xattrs =>
          "keep_xattr" \in used.facets /\ target'.xattrs \subseteq target.xattrs \cup entry.xattrs
     /\ target'.acl # target.acl => "keep_acl" \in used.facets /\ entry.acl # Absent
     /\ target'.flags # target.flags =>
          "keep_fflags" \in used.facets /\ target'.flags \subseteq target.flags \cup entry.flags
  )

\* "It causes user and group names in the archive to be ignored in favor of the
\* numeric user and group ids" (cli-reference.md, extract --numeric-owner).
NumericOwnerRestores ==
  step = "done" /\ ~warned /\ target.by = 0 /\ used.permission.owner.kept
    /\ used.permission.owner.uname = "numeric_owner" /\ used.permission.owner.uid = "source"
    /\ entry.uid # Absent /\ entry.uid < IdSpan => target.uid = entry.uid
=============================================================================
