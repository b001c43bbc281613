----------------------------- MODULE EntryEdits -----------------------------
(***************************************************************************)
(* What the editing commands make of the metadata of an archive's entries: *)
(* chmod, chown, acl, xattr, strip, migrate and sort (cli/src/command),    *)
(* with the access rules of chunk/acl.rs, and the dumps that acl get and   *)
(* xattr get write and that acl set and xattr set restore from.            *)
(*                                                                         *)
(* Names of entries are numbers, in their order.  Names and values of      *)
(* attributes are bytes, since a dump has to quote them.  The list of an   *)
(* entry's ACL chunks is kept: a list belongs to the platform before it.   *)
(* What these commands do around the entries is in RewriteArchive.         *)
(***************************************************************************)
EXTENDS Integers, Sequences, FiniteSets, SequencesExt

CONSTANTS Archives, Selections,            \* what is edited; names that are asked for
          Modes, Owners, Rules, Attributes, Keeps, SortKeys,     \* and what for
          MaxEdits, Absent

VARIABLES archive, edits,   \* entries [name, kind, own, times, link_type, raw_size, xattrs, chunks]
          before, last,     \* the archive before the last command, and that command
          dump              \* Absent, or what get wrote, and of which archive
eevars == <<archive, edits, before, last, dump>>

MaxId == 99999              \* u64::MAX
----------------------------------------------------------------------------
(* Owners' names. *)

\* owner_name_opt: an empty name is none.
owner_name_opt(name) == IF name \in {Absent, ""} THEN Absent ELSE name
Rebuilt(own) == [own EXCEPT !.uname = owner_name_opt(@), !.gname = owner_name_opt(@)]
----------------------------------------------------------------------------
(* Modes: the bits of each class, and the special ones. *)

Classes == {"u", "g", "o"}
default_permission_mode(kind) ==
  CASE kind = "dir" -> [u |-> {"r", "w", "x"}, g |-> {"r", "x"}, o |-> {"r", "x"}, special |-> {}]
    [] kind \in {"file", "symlink", "hardlink"} -> [u |-> {"r", "w"}, g |-> {"r"}, o |-> {"r"}, special |-> {}]
    [] OTHER -> [u |-> {}, g |-> {}, o |-> {}, special |-> {}]
\* Bits copied from a class are those at the time of the action.
resolve(bits, mode) == bits.literal \cup UNION {mode[c] : c \in bits.copy_from}
ApplyAction(mode, action) ==
  LET m == resolve(action, mode)
  IN [c \in DOMAIN mode |->
        IF c \notin action.who THEN mode[c]
        ELSE CASE action.op = "=" -> m [] action.op = "+" -> mode[c] \cup m
               [] action.op = "-" -> mode[c] \ m]
apply_to(spec, mode) ==
  IF spec.numeric # Absent THEN spec.numeric ELSE FoldLeft(ApplyAction, mode, spec.actions)

\* NormalEntry::with_metadata keeps the sizes, which are none of the metadata's.
with_own(e, own) == [e EXCEPT !.own = own]
chmod(e, spec) ==
  with_own(e, [Rebuilt(e.own) EXCEPT !.mode =
    apply_to(spec, IF @ = Absent THEN default_permission_mode(e.kind) ELSE @)])
----------------------------------------------------------------------------
(* Owners. *)

IdOf(who) == CASE who.as = "Name" -> MaxId [] OTHER -> who.id
NameOf(who) == CASE who.as = "ID" -> Absent [] OTHER -> owner_name_opt(who.name)
chown(e, owner) ==
  with_own(e, [e.own EXCEPT
    !.uid = IF owner.user = Absent THEN @ ELSE IdOf(owner.user),
    !.gid = IF owner.group = Absent THEN @ ELSE IdOf(owner.group),
    !.uname = IF owner.user = Absent THEN owner_name_opt(@) ELSE NameOf(owner.user),
    !.gname = IF owner.group = Absent THEN owner_name_opt(@) ELSE NameOf(owner.group)])
----------------------------------------------------------------------------
(* Access rules: a function from platforms to lists of Ace.  An entry chunk whose body
   is Absent cannot be parsed. *)

Rights == {"r", "w", "x"}
IsAcl(c) == c.ty \in {"faCl", "faCe"}
IsOther(c) == ~IsAcl(c)
Push(acls, p, ace) ==
  [q \in DOMAIN acls \cup {p} |->
     IF q # p THEN acls[q] ELSE IF p \in DOMAIN acls THEN Append(acls[p], ace) ELSE <<ace>>]
AddChunk(s, c) ==
  CASE c.ty = "faCl" -> [s EXCEPT !.platform = c.platform]
    [] c.ty = "faCe" -> [s EXCEPT !.acls = Push(@, IF c.platform = Absent THEN s.platform ELSE c.platform, c.body)]
    [] OTHER -> s
AclFails(e) == \E i \in DOMAIN e.chunks : e.chunks[i].ty = "faCe" /\ e.chunks[i].body = Absent
acl(e) == FoldLeft(AddChunk, [platform |-> "", acls |-> <<>>], e.chunks).acls
acl_or_default(e) == IF AclFails(e) THEN <<>> ELSE acl(e)

\* A list says its platform once.  The lists come in any order, which is lost on reading.
OneList(p, aces) ==
  <<[ty |-> "faCl", platform |-> p, body |-> Absent]>>
    \o [i \in DOMAIN aces |-> [ty |-> "faCe", platform |-> Absent, body |-> aces[i]]]
AclChunks(acls) ==
  LET order == SetToSeq(DOMAIN acls)
  IN FlattenSeq([i \in DOMAIN order |-> OneList(order[i], acls[order[i]])])
WithAcls(e, acls) == [e EXCEPT !.chunks = AclChunks(acls) \o SelectSeq(@, IsOther)]

is_match(rule, ace) ==
  /\ rule.default = ("default" \in ace.flags)
  /\ rule.owner = ace.owner
  /\ rule.allow \in {Absent, ace.allow}
to_ace(rule) ==
  [flags |-> IF rule.default THEN {"default"} ELSE {}, owner |-> rule.owner,
   allow |-> IF rule.allow = Absent THEN "allow" ELSE rule.allow, permission |-> rule.permissions]
Cleared(aces, set) == IF set = Absent THEN aces ELSE <<to_ace(set)>>
\* Of the rules that match only the first is modified, and only its permission.
Modified(aces, rule) ==
  IF rule = Absent THEN aces
  ELSE LET found == {i \in DOMAIN aces : is_match(rule, aces[i])}
       IN IF found = {} THEN Append(aces, to_ace(rule))
          ELSE [aces EXCEPT ![Min(found)].permission = to_ace(rule).permission]
Removed(aces, rule) == IF rule = Absent THEN aces ELSE SelectSeq(aces, LAMBDA a : ~is_match(rule, a))
transform_acl(acls, rule) ==
  LET aces == IF rule.platform \in DOMAIN acls THEN acls[rule.platform] ELSE <<>>
  IN [p \in DOMAIN acls \cup {rule.platform} |->
        IF p # rule.platform THEN acls[p]
        ELSE Removed(Modified(Cleared(aces, rule.set), rule.modify), rule.remove)]
set_acl(e, rule) == WithAcls(e, transform_acl(acl_or_default(e), rule))

\* ace_convert_platform, by way of the generic rights.
ReadRights == {"r", "read_data", "readattr", "readextattr", "readsecurity"}
WriteRights == {"w", "write_data", "writeattr", "writeextattr", "writesecurity", "append", "delete"}
to_general_permission(p) ==
  {"r" : x \in p \cap ReadRights} \cup {"w" : x \in p \cap WriteRights} \cup (p \cap {"x"})
GeneralFlags(platform, flags) ==
  CASE platform \in {"", "freebsd"} -> flags
    [] platform = "macos" -> flags \ {"default"}
    [] platform = "linux" -> flags \cap {"default"}
    [] OTHER -> {}
ace_to_generic(platform, ace) ==
  IF platform = "" THEN ace
  ELSE [ace EXCEPT !.flags = GeneralFlags(platform, @), !.permission = to_general_permission(@)]
mapping_permission(to, p) ==
  LET every == IF to = "windows" THEN {"readattr", "sync"} ELSE {}
  IN (IF "r" \in p THEN ReadRights \cup every ELSE {})
       \cup (IF "w" \in p THEN WriteRights \cup every ELSE {})
       \cup (IF "x" \in p THEN {"x"} \cup every ELSE {})
ace_convert_platform(from, to, ace) ==
  IF from = to /\ to \in {"windows", "macos", "linux", "freebsd"} THEN ace
  ELSE IF to \in {"windows", "macos"}
       THEN [ace_to_generic(from, ace) EXCEPT !.permission = mapping_permission(to, @)]
       ELSE ace_to_generic(from, ace)
----------------------------------------------------------------------------
(* Extended attributes, as an IndexMap: a name keeps its place. *)

Insert(xattrs, x) ==
  IF \E i \in DOMAIN xattrs : xattrs[i][1] = x[1]
  THEN [i \in DOMAIN xattrs |-> IF xattrs[i][1] = x[1] THEN x ELSE xattrs[i]]
  ELSE Append(xattrs, x)
IndexMap(pairs) == FoldLeft(Insert, <<>>, pairs)
transform_xattr(xattrs, a) ==
  LET named == IF a.name = Absent THEN IndexMap(xattrs) ELSE Insert(IndexMap(xattrs), <<a.name, a.value>>)
  IN SelectSeq(named, LAMBDA x : a.remove = Absent \/ x[1] # a.remove)
set_xattr(e, a) == [e EXCEPT !.xattrs = transform_xattr(@, a)]

\* Bytes of a dump: " \ = 0 x s, and octal digits.
Quote == 34
Backslash == 92
Newline == 10
Octal == 48..55
HexDigit(n) == IF n < 10 THEN 48 + n ELSE 87 + n
hex(v) == FlattenSeq([i \in DOMAIN v |-> <<HexDigit(v[i] \div 16), HexDigit(v[i] % 16)>>])
Unhex(s) ==
  LET Digit(c) == IF c < 58 THEN c - 48 ELSE c - 87
  IN [i \in 1..(Len(s) \div 2) |-> 16 * Digit(s[2 * i - 1]) + Digit(s[2 * i])]
escape_xattr_value_text(v) ==
  FlattenSeq([i \in DOMAIN v |->
    CASE v[i] \in {Quote, Backslash} -> <<Backslash, v[i]>>
      [] v[i] \in {0, Newline, 13} -> <<Backslash, 48 + (v[i] \div 64), 48 + ((v[i] % 64) \div 8), 48 + (v[i] % 8)>>
      [] OTHER -> <<v[i]>>])
\* Base64 stands for another text without quotes; here it is written like hex.
write_encoded_value(v, encoding) ==
  LET e == IF encoding # Absent THEN encoding ELSE IF 255 \in {v[i] : i \in DOMAIN v} THEN "base64" ELSE "text"
  IN CASE e = "text" -> <<Quote>> \o escape_xattr_value_text(v) \o <<Quote>>
       [] e = "hex" -> <<48, 120>> \o hex(v)
       [] e = "base64" -> <<48, 115>> \o hex(v)

\* The second and third digit are taken even if they are none; the sum wraps.
Value3(a, b, c) ==
  LET Shift(n, d) == IF d \in Octal THEN (8 * n + d - 48) % 256 ELSE n
  IN Shift(Shift(a - 48, b), c)
unescape_xattr_value_text(s) ==
  LET from[i \in 1..Len(s) + 1] ==
        IF i > Len(s) THEN [ok |-> TRUE, value |-> <<>>]
        ELSE LET Then(k, byte) == [ok |-> from[k].ok, value |-> <<byte>> \o from[k].value]
             IN IF s[i] # Backslash THEN Then(i + 1, s[i])
                ELSE IF i < Len(s) /\ s[i + 1] \in {Quote, Backslash} THEN Then(i + 2, s[i + 1])
                ELSE IF i + 3 <= Len(s) /\ s[i + 1] \in Octal
                     THEN Then(i + 4, Value3(s[i + 1], s[i + 2], s[i + 3]))
                     ELSE [ok |-> FALSE, value |-> <<>>]
  IN from[1]
\* A closing quote is one that is not itself quoted.
EndsWith(s, t) == Len(s) >= Len(t) /\ SubSeq(s, Len(s) - Len(t) + 1, Len(s)) = t
Unclosed_AnyBackslash(s) == EndsWith(s, <<Backslash, Quote>>) \/ ~EndsWith(s, <<Quote>>)
Unclosed(s) ==
  \/ EndsWith(s, <<Backslash, Quote>>) /\ ~EndsWith(s, <<Backslash, Backslash, Quote>>)
  \/ ~EndsWith(s, <<Quote>>)
Value_try_from(s) ==
  LET rest == Tail(s)
  IN CASE Len(s) >= 2 /\ s[1] = 48 /\ s[2] \in {120, 115} -> [ok |-> TRUE, value |-> Unhex(Tail(rest))]
       [] s # <<>> /\ s[1] = Quote /\ Unclosed(rest) -> [ok |-> FALSE, value |-> <<>>]
       [] s # <<>> /\ s[1] = Quote /\ ~Unclosed(rest) -> unescape_xattr_value_text(Front(rest))
       [] OTHER -> [ok |-> TRUE, value |-> s]
----------------------------------------------------------------------------
(* strip, migrate and sort. *)

NoOwner == [uid |-> Absent, gid |-> Absent, uname |-> Absent, gname |-> Absent,
            usid |-> Absent, gsid |-> Absent, mode |-> Absent]
NoTimes == [created |-> Absent, modified |-> Absent, accessed |-> Absent]
\* An empty list of kinds of private chunks asks for all of them.
IsKept(keep, c) ==
  \/ keep.private = {}
  \/ keep.acl /\ IsAcl(c)
  \/ keep.private # Absent /\ c.ty \in keep.private
strip_entry_metadata(e, keep) ==
  [e EXCEPT !.own = IF keep.permission THEN Rebuilt(@) ELSE NoOwner,
            !.times = IF keep.timestamp THEN @ ELSE NoTimes,
            !.link_type = Absent,
            !.xattrs = IF keep.xattr THEN @ ELSE <<>>,
            !.chunks = SelectSeq(@, LAMBDA c : IsKept(keep, c))]

convert_entry_to_owner_facet(e) == WithAcls(with_own(e, Rebuilt(e.own)), acl(e))

\* None comes before every time.
SortValue(e, by) ==
  CASE by = "name" -> e.name [] OTHER -> IF e.times[by] = Absent THEN -1 ELSE e.times[by]
Less(a, b, keys) ==
  \E k \in DOMAIN keys :
    /\ \A j \in 1..(k - 1) : SortValue(a, keys[j].by) = SortValue(b, keys[j].by)
    /\ IF keys[k].order = "asc" THEN SortValue(a, keys[k].by) < SortValue(b, keys[k].by)
                                ELSE SortValue(a, keys[k].by) > SortValue(b, keys[k].by)
Sorted(es, keys) ==
  LET Precedes(i, j) == Less(es[i], es[j], keys) \/ (i < j /\ ~Less(es[j], es[i], keys))
      Place(i) == 1 + Cardinality({j \in DOMAIN es : Precedes(j, i)})
  IN [k \in DOMAIN es |-> es[CHOOSE i \in DOMAIN es : Place(i) = k]]
----------------------------------------------------------------------------
(* Dumps, line by line. *)

Line(is, value) == <<[is |-> is, value |-> value]>>
AclLines(p, aces) == Line("platform", p) \o FlattenSeq([i \in DOMAIN aces |-> Line("ace", aces[i])])
archive_get_acl(e, platforms) ==
  LET shown == SetToSeq({p \in DOMAIN acl(e) : platforms = {} \/ p \in platforms})
  IN Line("file", e.name) \o FlattenSeq([i \in DOMAIN shown |-> AclLines(shown[i], acl(e)[shown[i]])])
Equals == 61
archive_get_xattr(e, encoding) ==
  Line("file", e.name)
    \o FlattenSeq([i \in DOMAIN e.xattrs |->
         Line("attribute", e.xattrs[i][1] \o <<Equals>> \o write_encoded_value(e.xattrs[i][2], encoding))])

\* The platform is that of the last line that names one, in whichever file.
ReadAclLine(s, line) ==
  CASE line.is = "file" -> [s EXCEPT !.file = line.value]
    [] line.is = "platform" -> [s EXCEPT !.platform = line.value]
    [] line.is = "ace" ->
         LET old == IF s.file \in DOMAIN s.files THEN s.files[s.file] ELSE <<>>
         IN [s EXCEPT !.files = [f \in DOMAIN @ \cup {s.file} |->
                                   IF f = s.file THEN Push(old, s.platform, line.value) ELSE @[f]]]
parse_acl_dump(lines) ==
  FoldLeft(ReadAclLine, [file |-> Absent, platform |-> "", files |-> <<>>], lines).files

\* A line end that is not quoted cuts a line off.
Cut(line) == IF Newline \in Range(line) THEN SubSeq(line, 1, Min({i \in DOMAIN line : line[i] = Newline}) - 1) ELSE line
FirstEquals(line) == Min({i \in DOMAIN line : line[i] = Equals})
KeyOf(line) == SubSeq(line, 1, FirstEquals(line) - 1)
ValueOf(line) == Value_try_from(SubSeq(line, FirstEquals(line) + 1, Len(line)))
ReadXattrLine(s, line) ==
  IF line.is = "file" THEN [s EXCEPT !.file = line.value]
  ELSE LET text == Cut(line.value)
       IN [s EXCEPT !.ok = @ /\ ValueOf(text).ok,
                    !.files = Push(@, s.file, <<KeyOf(text), ValueOf(text).value>>)]
parse_dump(lines) == FoldLeft(ReadXattrLine, [file |-> Absent, files |-> <<>>, ok |-> TRUE], lines)

restore_acl(e, files) == IF e.name \in DOMAIN files THEN WithAcls(e, files[e.name]) ELSE e
restore_xattr(e, files) ==
  IF e.name \in DOMAIN files THEN [e EXCEPT !.xattrs = IndexMap(@ \o files[e.name])] ELSE e
----------------------------------------------------------------------------
EditsInit ==
  /\ archive \in Archives /\ edits = 0 /\ dump = Absent
  /\ before = archive /\ last = [command |-> "none", names |-> {}, arg |-> Absent, ok |-> TRUE]

Named(names) == {i \in DOMAIN archive : archive[i].name \in names}
AllMatched(names) == \A n \in names : n \in {archive[i].name : i \in DOMAIN archive}
\* A rewrite: all of it, or nothing.  Only restoring goes over the bound.
Rewrite(command, names, arg, ok, result) ==
  /\ edits < (IF command = "restore" THEN MaxEdits + 1 ELSE MaxEdits)
  /\ edits' = edits + 1
  /\ before' = archive
  /\ LET succeeds == ok /\ AllMatched(names)
     IN /\ archive' = IF succeeds THEN result ELSE archive
        /\ last' = [command |-> command, names |-> names, arg |-> arg, ok |-> succeeds]
  /\ UNCHANGED dump
Each(names, new) == [i \in DOMAIN archive |-> IF i \in Named(names) THEN new[i] ELSE archive[i]]

Chmod == \E names \in Selections, mode \in Modes :
  Rewrite("chmod", names, mode, TRUE, Each(names, [i \in DOMAIN archive |-> chmod(archive[i], mode)]))
Chown == \E names \in Selections, owner \in Owners :
  Rewrite("chown", names, owner, TRUE, Each(names, [i \in DOMAIN archive |-> chown(archive[i], owner)]))
SetAcl == \E names \in Selections, rule \in Rules :
  Rewrite("acl", names, rule, TRUE, Each(names, [i \in DOMAIN archive |-> set_acl(archive[i], rule)]))
SetXattr == \E names \in Selections, a \in Attributes :
  Rewrite("xattr", names, a, TRUE, Each(names, [i \in DOMAIN archive |-> set_xattr(archive[i], a)]))
\* Without operands strip takes every entry.
Strip == \E names \in Selections \cup {{archive[i].name : i \in DOMAIN archive}}, keep \in Keeps :
  Rewrite("strip", names, keep, TRUE,
          Each(names, [i \in DOMAIN archive |-> strip_entry_metadata(archive[i], keep)]))
Migrate ==
  Rewrite("migrate", {}, Absent, \A i \in DOMAIN archive : ~AclFails(archive[i]),
          [i \in DOMAIN archive |-> convert_entry_to_owner_facet(archive[i])])
Sort == \E keys \in SortKeys : Rewrite("sort", {}, keys, TRUE, Sorted(archive, keys))

Get(of, names, lines) ==
  /\ edits = 0 /\ dump = Absent /\ AllMatched(names)
  /\ dump' = [of |-> of, names |-> names, from |-> archive,
              lines |-> FlattenSeq([i \in DOMAIN archive |-> IF i \in Named(names) THEN lines[i] ELSE <<>>])]
  /\ UNCHANGED <<archive, edits, before, last>>
GetAcl == \E names \in Selections :
  /\ \A i \in Named(names) : ~AclFails(archive[i])
  /\ Get("acl", names, [i \in Named(names) |-> archive_get_acl(archive[i], {})])
GetXattr == \E names \in Selections, encoding \in {Absent, "text", "hex", "base64"} :
  Get("xattr", names, [i \in Named(names) |-> archive_get_xattr(archive[i], encoding)])
Restore ==
  /\ dump # Absent
  /\ IF dump.of = "acl"
     THEN LET files == parse_acl_dump(dump.lines)
          IN Rewrite("restore", {}, Absent, TRUE, [i \in DOMAIN archive |-> restore_acl(archive[i], files)])
     ELSE LET read == parse_dump(dump.lines)
          IN Rewrite("restore", {}, Absent, read.ok,
                     [i \in DOMAIN archive |-> restore_xattr(archive[i], read.files)])
EditsNext == Chmod \/ Chown \/ SetAcl \/ SetXattr \/ Strip \/ Migrate \/ Sort
               \/ GetAcl \/ GetXattr \/ Restore
EditsSpec == EditsInit /\ [][EditsNext]_eevars
----------------------------------------------------------------------------
(* What the commands promise. *)

Facets == {"own", "times", "link_type", "xattrs", "chunks"}
About(command) ==
  CASE command \in {"chmod", "chown"} -> {"own"} [] command = "acl" -> {"chunks"}
    [] command = "xattr" -> {"xattrs"} [] command = "restore" -> {"xattrs", "chunks"}
    [] command = "strip" -> Facets [] OTHER -> {}
OtherChunks(e) == SelectSeq(e.chunks, IsOther)
Known(own) == [own EXCEPT !.uname = IF @ = "" THEN Absent ELSE @,
                          !.gname = IF @ = "" THEN Absent ELSE @]
Attribute(xattrs, n) == {x \in {xattrs[i] : i \in DOMAIN xattrs} : x[1] = n}

\* A command changes the entries and the parts of them that it is about: chmod the
\* classes that it names, chown the one of the two owners, acl the lists of its
\* platform (if they can be read at all), xattr its attributes.  Of an owner's name
\* that is empty, which is none, a command may leave nothing.
ChmodKeeps(old, new, mode) ==
  /\ [Known(new.own) EXCEPT !.mode = Absent] = [Known(old.own) EXCEPT !.mode = Absent]
  /\ mode.numeric = Absent => \A c \in Classes :
       LET acts == {i \in DOMAIN mode.actions : c \in mode.actions[i].who}
           act == mode.actions[Max(acts)]
       IN IF acts = {} THEN old.own.mode # Absent => new.own.mode[c] = old.own.mode[c]
          ELSE CASE act.op = "+" -> act.literal \subseteq new.own.mode[c]
                 [] act.op = "-" -> act.literal \cap new.own.mode[c] = {}
                 [] act.op = "=" -> act.copy_from = {} => new.own.mode[c] = act.literal
ChownKeeps(old, new, owner) ==
  /\ \A f \in {"mode", "usid", "gsid"} : new.own[f] = old.own[f]
  /\ owner.user = Absent => new.own.uid = old.own.uid /\ Known(new.own).uname = Known(old.own).uname
  /\ owner.group = Absent => new.own.gid = old.own.gid /\ Known(new.own).gname = Known(old.own).gname
AclKeeps(old, new, rule) ==
  /\ OtherChunks(new) = OtherChunks(old) /\ ~AclFails(new)
  /\ ~AclFails(old) => \A p \in DOMAIN acl(old) \ {rule.platform} :
                         p \in DOMAIN acl(new) /\ acl(new)[p] = acl(old)[p]
  /\ (rule.set = Absent /\ rule.platform \in DOMAIN acl_or_default(old)) =>
       \A ace \in Range(acl(old)[rule.platform]) :
         (\A r \in {rule.modify, rule.remove} \ {Absent} : ~is_match(r, ace)) =>
           ace \in Range(acl(new)[rule.platform])
XattrKeeps(old, new, a) ==
  \A i \in DOMAIN old.xattrs :
    LET n == old.xattrs[i][1]
    IN n \notin {a.name, a.remove} => Attribute(new.xattrs, n) = Attribute(old.xattrs, n)
StripKeeps(old, new, keep) ==
  /\ new.own = (IF keep.permission THEN Known(old.own) ELSE NoOwner)
  /\ new.times = (IF keep.timestamp THEN old.times ELSE NoTimes)
  /\ new.xattrs = (IF keep.xattr THEN old.xattrs ELSE <<>>)
  /\ keep.acl => AclFails(new) = AclFails(old) /\ acl_or_default(new) = acl_or_default(old)
  /\ keep.private = Absent => OtherChunks(new) = <<>>
EditedAsAsked(old, new) ==
  /\ \A f \in Facets \ About(last.command) : last.command # "migrate" => new[f] = old[f]
  /\ \A f \in {"name", "kind", "raw_size"} : new[f] = old[f]
  /\ CASE last.command = "chmod" -> ChmodKeeps(old, new, last.arg)
       [] last.command = "chown" -> ChownKeeps(old, new, last.arg)
       [] last.command = "acl" -> AclKeeps(old, new, last.arg)
       [] last.command = "xattr" -> XattrKeeps(old, new, last.arg)
       [] last.command = "strip" -> StripKeeps(old, new, last.arg)
       [] last.command = "migrate" ->
            /\ ~AclFails(old) /\ \A f \in Facets \ {"chunks", "own"} : new[f] = old[f]
            /\ new.own = Known(old.own)
            /\ acl(new) = acl(old) /\ OtherChunks(new) = OtherChunks(old)
       [] last.command = "restore" -> OtherChunks(new) = OtherChunks(old)
       [] OTHER -> TRUE
Occurrences(es, e) == Cardinality({i \in DOMAIN es : es[i] = e})
Differ(keys, a, b) == {k \in DOMAIN keys : SortValue(a, keys[k].by) # SortValue(b, keys[k].by)}
InOrder(keys) ==
  \A i, j \in DOMAIN archive : i < j =>
    LET differ == Differ(keys, archive[i], archive[j])
    IN IF differ = {}
       THEN \E k, l \in DOMAIN before : k < l /\ before[k] = archive[i] /\ before[l] = archive[j]
       ELSE LET k == keys[Min(differ)]
            IN (k.order = "asc") = (SortValue(archive[i], k.by) < SortValue(archive[j], k.by))
EditsKeepTheRest ==
  CASE ~last.ok -> archive = before
    [] last.ok /\ last.command = "sort" ->
         /\ \A i \in DOMAIN before : Occurrences(archive, before[i]) = Occurrences(before, before[i])
         /\ InOrder(last.arg)
    [] OTHER ->
         \A i \in DOMAIN archive :
           IF before[i].name \in last.names \/ last.command \in {"none", "migrate", "restore"}
           THEN EditedAsAsked(before[i], archive[i]) ELSE archive[i] = before[i]

\* What get has dumped, set restores, whatever was done to the archive in between:
\* for entries of a name that occurs once, access rules that are not empty, and
\* attributes without an equals sign in their name.
Unique(es, i) == \A k \in DOMAIN es : es[k].name = es[i].name => k = i
DumpRestores ==
  (last.command = "restore" /\ dump # Absent) =>
    /\ last.ok
    /\ \A i \in DOMAIN dump.from, j \in DOMAIN archive :
         LET old == dump.from[i]
             new == archive[j]
         IN (old.name = new.name /\ old.name \in dump.names /\ Unique(dump.from, i)) =>
              IF dump.of = "acl" THEN acl(old) = <<>> \/ acl(new) = acl(old)
              ELSE \A x \in {old.xattrs[k] : k \in DOMAIN old.xattrs} :
                     (\A k \in DOMAIN x[1] : x[1][k] # Equals) => Attribute(new.xattrs, x[1]) = {x}

\* Rules of one platform that are restored on another allow what they allowed: only
\* Windows adds reading of attributes, and so of everything on the way back.
Means == [r |-> ReadRights, w |-> WriteRights, x |-> {"x"}]
Granted(permission) == {r \in Rights : permission \cap Means[r] # {}}
RightsSurvive ==
  \A i \in DOMAIN archive : \A p \in DOMAIN acl_or_default(archive[i]) \ {""} :
    \A ace \in Range(acl(archive[i])[p]), q \in {"windows", "macos", "linux", "freebsd"} :
      LET there == ace_convert_platform(p, q, ace)
          windows == IF q = "windows" THEN {"r"} ELSE {}
      IN /\ Granted(ace.permission) \subseteq Granted(there.permission)
         /\ Granted(there.permission) \subseteq Granted(ace.permission) \cup windows
         /\ there.owner = ace.owner /\ there.allow = ace.allow
=============================================================================
