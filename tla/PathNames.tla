----------------------------- MODULE PathNames -----------------------------
(***************************************************************************)
(* The names of entries: how libpna normalises a name or a reference       *)
(* (entry/name.rs, entry/reference.rs), and how the commands edit the path *)
(* of a file, the name of an entry or the target of a link                 *)
(* (core/path.rs).                                                         *)
(*                                                                         *)
(* A path is a sequence of characters; it is split as Unix does, and       *)
(* "\\" is a character like any other, but for the checks that also read   *)
(* it as Windows would.                                                    *)
(***************************************************************************)
EXTENDS Integers, Sequences, SequencesExt

CONSTANTS Tokens,       \* what paths are put together from
          MaxTokens,
          Garbled,      \* a byte that is not UTF-8
          Absent

VARIABLES path,         \* as the file system, a link or an archive gives it
          tokens,       \* how many tokens it is made of
          editor,       \* [strip, absolute_paths, preserve_curdir]
          named         \* what became of it

nvars == <<path, tokens, editor, named>>

Dot == <<".">>
DotDot == <<".", ".">>
Root == <<"/">>
Separators == {"/", "\\"}
----------------------------------------------------------------------------
(* Components of a path, as std::path and camino have them. *)
RECURSIVE Split(_, _)
Split(s, seps) ==
  LET at == SelectInSeq(s, LAMBDA c : c \in seps)
  IN IF at = 0 THEN <<s>>
     ELSE <<SubSeq(s, 1, at - 1)>> \o Split(SubSeq(s, at + 1, Len(s)), seps)

components(s) ==
  LET parts == Split(s, {"/"})
      first == IF s # <<>> /\ s[1] = "/" THEN <<Root>> ELSE IF parts[1] = Dot THEN <<Dot>> ELSE <<>>
  IN first \o SelectSeq(parts, LAMBDA c : c \notin {<<>>, Dot})
Normal(c) == c \notin {Root, Dot, DotDot}

RECURSIVE Joined(_)
Joined(cs) == IF cs = <<>> THEN <<>> ELSE IF Len(cs) = 1 THEN cs[1] ELSE cs[1] \o Root \o Joined(Tail(cs))
\* PathBuf::from_iter: a root has its separator already.
Collected(cs) ==
  IF cs # <<>> /\ cs[1] = Root THEN Root \o Joined(Tail(cs)) ELSE Joined(cs)

\* The component that comes to a normalised path.
Pushed(buf, c) ==
  IF c = Dot THEN buf
  ELSE IF c # DotDot THEN Append(buf, c)
  ELSE IF buf = <<>> \/ Last(buf) = DotDot THEN Append(buf, c)
  ELSE IF Last(buf) = Root THEN buf
  ELSE Front(buf)
normalize_utf8path(s) == FoldLeft(Pushed, <<>>, components(s))

SanitizedName(s) == Joined(SelectSeq(normalize_utf8path(s), Normal))
SanitizedReference(s) == Joined(SelectSeq(components(s), LAMBDA c : c # Root))

\* The conversions of libpna: lossy ones replace what is not UTF-8, the others fail.
Utf8(s) == \A i \in DOMAIN s : s[i] # Garbled
Lossy(s) == [i \in DOMAIN s |-> IF s[i] = Garbled THEN "?" ELSE s[i]]
try_from(s) == IF Utf8(s) THEN [name |-> SanitizedName(s), reference |-> SanitizedReference(s)] ELSE Absent
from_lossy(s) == [name |-> SanitizedName(Lossy(s)), reference |-> SanitizedReference(Lossy(s))]
from_path_preserve_root(s) == IF Utf8(s) THEN s ELSE Absent
from_path_lossy_preserve_root(s) == Lossy(s)
----------------------------------------------------------------------------
(* Absolute prefixes of Unix and Windows. *)
Letters == {"a", "b", "C", "U", "N"}
At(s, i, set) == Len(s) >= i /\ s[i] \in set
From(s, i) == SubSeq(s, i, Len(s))

matches_windows_api_prefix(s) ==
  At(s, 1, Separators) /\ At(s, 2, Separators) /\ At(s, 3, {".", "?"}) /\ At(s, 4, Separators)
matches_unc_api_prefix(s) ==
  /\ matches_windows_api_prefix(s) /\ s[3] = "?"
  /\ At(s, 5, {"U"}) /\ At(s, 6, {"N"}) /\ At(s, 7, {"C"}) /\ At(s, 8, Separators)
is_drive_letter_prefix(s) == At(s, 1, Letters) /\ At(s, 2, {":"})

\* The separators at the front, each with the "." or ".." between it and the next.
RECURSIVE SkipSeparators(_)
SkipSeparators(s) ==
  IF ~At(s, 1, Separators) THEN s
  ELSE IF At(s, 2, {"."}) /\ At(s, 3, {"."}) /\ At(s, 4, Separators) THEN SkipSeparators(From(s, 4))
  ELSE IF At(s, 2, {"."}) /\ At(s, 3, Separators) THEN SkipSeparators(From(s, 3))
  ELSE SkipSeparators(Tail(s))
StripOnce(s) == SkipSeparators(IF is_drive_letter_prefix(s) THEN From(s, 3) ELSE s)
RECURSIVE StripAll(_)
StripAll_Once(s) == StripOnce(s)
StripAll(s) == IF StripOnce(s) = s THEN s ELSE StripAll(StripOnce(s))
strip_absolute_path_bsdtar(s) ==
  StripAll(IF matches_unc_api_prefix(s) THEN From(s, 9)
           ELSE IF matches_windows_api_prefix(s) THEN From(s, 5) ELSE s)
HadRoot(s) == strip_absolute_path_bsdtar(s) # s

has_parent_dir_component(s) == Contains(components(s), DotDot) \/ Contains(Split(s, Separators), DotDot)
is_unsafe_link_path(s) == HadRoot(s) \/ has_parent_dir_component(strip_absolute_path_bsdtar(s))
----------------------------------------------------------------------------
(* PathnameEditor. *)
is_effectively_empty_path(s) ==
  IF editor.preserve_curdir THEN s = <<>> ELSE \A i \in DOMAIN components(s) : components(s)[i] = Dot

strip_components(s) ==
  IF editor.strip = 0 THEN s
  ELSE IF Len(components(s)) <= editor.strip THEN Absent
  ELSE Collected(SubSeq(components(s), editor.strip + 1, Len(components(s))))

transform_and_strip(s) ==
  IF is_effectively_empty_path(s) \/ strip_components(s) = Absent THEN Absent
  ELSE IF is_effectively_empty_path(strip_components(s)) THEN Absent
  ELSE strip_components(s)

rewrite_path_for_extraction(s) == IF editor.absolute_paths THEN s ELSE strip_absolute_path_bsdtar(s)

sanitize_preserve_curdir_str(s) == Joined(SelectSeq(components(s), LAMBDA c : c # Root))
sanitize_preserve_curdir(s) ==
  IF sanitize_preserve_curdir_str(s) = <<>> THEN Dot ELSE sanitize_preserve_curdir_str(s)

check_nodotdot_Unchecked(s) == IF s = <<>> THEN Absent ELSE s
check_nodotdot(s) ==
  IF s = <<>> THEN Absent
  ELSE IF editor.preserve_curdir /\ ~editor.absolute_paths /\ has_parent_dir_component(s) THEN Absent
  ELSE s

edit_entry_name(s) ==
  IF transform_and_strip(s) = Absent THEN Absent
  ELSE LET rewritten == rewrite_path_for_extraction(transform_and_strip(s))
       IN check_nodotdot(IF editor.absolute_paths THEN rewritten
                         ELSE IF editor.preserve_curdir THEN sanitize_preserve_curdir(rewritten)
                         ELSE SanitizedName(rewritten))

edit_hardlink_NotStripped(s) ==
  LET rewritten == rewrite_path_for_extraction(s)
  IN check_nodotdot(IF editor.absolute_paths THEN rewritten
                    ELSE IF editor.preserve_curdir THEN sanitize_preserve_curdir_str(rewritten)
                    ELSE SanitizedReference(rewritten))
edit_hardlink(s) ==
  IF transform_and_strip(s) = Absent THEN Absent
  ELSE LET rewritten == rewrite_path_for_extraction(transform_and_strip(s))
       IN check_nodotdot(IF editor.absolute_paths THEN rewritten
                         ELSE IF editor.preserve_curdir THEN sanitize_preserve_curdir_str(rewritten)
                         ELSE SanitizedReference(rewritten))
edit_symlink(s) == from_path_lossy_preserve_root(s)
----------------------------------------------------------------------------
NamesInit ==
  /\ path = <<>> /\ tokens = 0 /\ named = Absent
  /\ editor \in [strip : 0..2, absolute_paths : BOOLEAN, preserve_curdir : BOOLEAN]

Extend ==
  /\ named = Absent /\ tokens < MaxTokens
  /\ \E t \in Tokens : path' = path \o t
  /\ tokens' = tokens + 1
  /\ UNCHANGED <<editor, named>>
Edit ==
  /\ named = Absent
  /\ named' = [name |-> edit_entry_name(Lossy(path)), link |-> edit_hardlink(Lossy(path)),
               symlink |-> edit_symlink(path)]
  /\ UNCHANGED <<path, tokens, editor>>

NamesNext == Extend \/ Edit
----------------------------------------------------------------------------
Relative(s) == s # <<>> /\ s[1] # "/" /\ ~Contains(components(s), DotDot)
Edited == named # Absent /\ named.name # Absent

\* What is given as the name of an entry, to the commands without -P or to the
\* library, stays below the directory it is put in, whatever "..", roots and
\* prefixes it is given; bsdtar's mode keeps this on Windows, too.
NamesContained ==
  /\ Edited /\ ~editor.absolute_paths =>
       /\ Relative(named.name)
       /\ editor.preserve_curdir => ~is_unsafe_link_path(named.name)
  /\ named # Absent => from_lossy(path).name = <<>> \/ Relative(from_lossy(path).name)

\* A name that create has edited is left as it is by extract, by the library's
\* conversions, and when it is edited once more.
NamesStable ==
  /\ Edited /\ editor.strip = 0 /\ ~(~editor.preserve_curdir /\ HadRoot(named.name)) =>
       edit_entry_name(named.name) = named.name
  /\ named # Absent =>
       LET once == from_lossy(path)
       IN /\ from_lossy(once.name).name = once.name
          /\ from_lossy(once.reference).reference = once.reference
          /\ try_from(path) \in {Absent, once}
          /\ Edited /\ ~editor.absolute_paths /\ ~editor.preserve_curdir =>
               from_lossy(named.name).name = named.name

\* A hard link stored for a file refers to the name that the file was stored
\* under.
LinksFollowNames ==
  Edited /\ named.link # Absent /\ (editor.preserve_curdir \/ ~Contains(components(named.link), DotDot)) =>
    SelectSeq(components(named.link), LAMBDA c : c # Dot) = SelectSeq(components(named.name), LAMBDA c : c # Dot)
=============================================================================
