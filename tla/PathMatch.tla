----------------------------- MODULE PathMatch -----------------------------
(***************************************************************************)
(* The patterns of the command line (utils/globs.rs): one is matched with  *)
(* the name of a file or an entry as an exclusion, which may begin at any  *)
(* component, as an inclusion, or exactly (-n); each but the exact one     *)
(* also covers what is below the name it matches.                          *)
(*                                                                         *)
(* Patterns and names are sequences of characters.                         *)
(***************************************************************************)
EXTENDS Integers, Sequences, SequencesExt

CONSTANTS Alphabet,     \* of the patterns
          Names,
          Absent

VARIABLES pattern, name, found    \* found: how the pattern was found to match

mvars == <<pattern, name, found>>

Start == "NO_ANCHOR_START"
End == "NO_ANCHOR_END"
----------------------------------------------------------------------------
skip_first_char(s) == IF s = <<>> THEN s ELSE Tail(s)
StartsWith(s, c) == s # <<>> /\ s[1] = c
From(s, i) == SubSeq(s, i, Len(s))
RECURSIVE trim_start_matches(_, _)
trim_start_matches(s, c) == IF StartsWith(s, c) THEN trim_start_matches(Tail(s), c) ELSE s

\* "./", ".//", "./././" and the like at the front, and a last ".".
RECURSIVE DropDots(_)
DropDots(s) ==
  IF Len(s) >= 2 /\ s[1] = "." /\ s[2] = "/" THEN DropDots(trim_start_matches(From(s, 3), "/"))
  ELSE IF s = <<".">> THEN <<>> ELSE s
pm_slashskip(s) == DropDots(trim_start_matches(s, "/"))
SkipLeading(s) ==
  IF Len(s) >= 2 /\ s[1] = "." /\ s[2] = "/" THEN pm_slashskip(From(s, 3)) ELSE s

\* The position behind which a class ends: a "]" that is not escaped, or 0.
RECURSIVE Closing(_, _, _)
Closing(s, i, escaped) ==
  IF i > Len(s) THEN 0
  ELSE IF s[i] = "\\" THEN Closing(s, i + 1, ~escaped)
  ELSE IF s[i] = "]" /\ ~escaped THEN i
  ELSE Closing(s, i + 1, FALSE)
split_once_unescaped(s) == Closing(s, 1, FALSE)

\* Characters are ordered as in Order.
Order == <<"-", ".", "/", "a", "b", "c", "d">>
Rank(c) == IF \E i \in DOMAIN Order : Order[i] = c THEN CHOOSE i \in DOMAIN Order : Order[i] = c
           ELSE 0

\* Whether a class, without its negation, lists c; start is where a range may begin.
RECURSIVE Lists(_, _, _)
Lists(class, c, start) ==
  IF class = <<>> THEN FALSE
  ELSE LET p == class[1]
           rest == Tail(class)
       IN IF p = "-" /\ start # "" /\ rest # <<>>
          THEN LET end == IF rest[1] = "\\" /\ Len(rest) > 1 THEN 2 ELSE 1
               IN \/ Rank(start) <= Rank(c) /\ Rank(c) <= Rank(rest[end])
                  \/ Lists(From(rest, end + 1), c, "")
          ELSE IF p = "-" THEN p = c \/ Lists(rest, c, "")
          ELSE IF p = "\\" /\ rest # <<>> THEN rest[1] = c \/ Lists(Tail(rest), c, rest[1])
          ELSE p = c \/ Lists(rest, c, p)
pm_list(class, c) ==
  IF StartsWith(class, "!") \/ StartsWith(class, "^") THEN ~Lists(Tail(class), c, "")
  ELSE Lists(class, c, "")

AtEnd_NothingBelow(s, flags) == (IF StartsWith(s, "/") THEN pm_slashskip(s) ELSE s) = <<>>
AtEnd(s, flags) ==
  \/ StartsWith(s, "/") /\ End \in flags
  \/ (IF StartsWith(s, "/") THEN pm_slashskip(s) ELSE s) = <<>>

RECURSIVE Step(_, _, _)
pm(p, s, flags) == Step(SkipLeading(p), SkipLeading(s), flags)
Step(p, s, flags) ==
  LET same(q) == q # <<>> /\ s # <<>> /\ q[1] = s[1] /\ Step(Tail(q), Tail(s), flags)
  IN IF p = <<>> THEN AtEnd(s, flags)
     ELSE IF p[1] = "?" THEN s # <<>> /\ Step(Tail(p), Tail(s), flags)
     ELSE IF p[1] = "*"
     THEN LET rest == trim_start_matches(p, "*")
          IN rest = <<>> \/ \E i \in 1..Len(s) : pm(rest, From(s, i), flags)
     ELSE IF p[1] = "[" /\ split_once_unescaped(Tail(p)) # 0
     THEN LET end == split_once_unescaped(Tail(p))
          IN /\ s # <<>> /\ pm_list(SubSeq(p, 2, end), s[1])
             /\ Step(From(p, end + 2), Tail(s), flags)
     ELSE IF p[1] = "\\" /\ Len(p) > 1 THEN same(Tail(p))
     ELSE IF p[1] = "/"
     THEN /\ s = <<>> \/ s[1] = "/"
          /\ \/ pm_slashskip(p) = <<>> /\ End \in flags
             \/ Step(pm_slashskip(p), pm_slashskip(s), flags)
     ELSE IF p = <<"$">> /\ End \in flags THEN pm_slashskip(s) = <<>>
     ELSE same(p)

\* The rests of a name that begin with a component.
Rests_FirstOnly(s) == {IF StartsWith(s, "/") THEN Tail(s) ELSE s}
Rests(s) ==
  LET t == IF StartsWith(s, "/") THEN Tail(s) ELSE s
  IN {t} \cup {From(t, i + 1) : i \in {j \in 1..Len(t) : t[j] = "/"}}

archive_pathmatch(pat, s, flags) ==
  LET anchored == StartsWith(pat, "^")
      p == IF anchored THEN Tail(pat) ELSE pat
  IN IF pat = <<>> THEN s = <<>>
     ELSE /\ StartsWith(p, "/") => StartsWith(s, "/")
          /\ IF StartsWith(p, "*") \/ StartsWith(p, "/")
             THEN pm(trim_start_matches(p, "/"), trim_start_matches(s, "/"), flags)
             ELSE IF Start \in flags /\ ~anchored THEN \E r \in Rests(s) : pm(p, r, flags)
             ELSE pm(p, s, flags)

match_exclusion(p, s) == archive_pathmatch(p, s, {Start, End})
match_inclusion(p, s) == archive_pathmatch(p, s, {End})
match_inclusion_exact(p, s) == archive_pathmatch(p, s, {})
----------------------------------------------------------------------------
MatchInit == pattern = <<>> /\ name = Absent /\ found = Absent

\* Characters of a pattern are given one by one, and then a name.
Extend(max) ==
  /\ name = Absent /\ Len(pattern) < max
  /\ \E c \in Alphabet : pattern' = Append(pattern, c)
  /\ UNCHANGED <<name, found>>
Match ==
  /\ name = Absent
  /\ name' \in Names
  /\ found' = {how \in {"exclusion", "inclusion", "exact"} :
                 IF how = "exclusion" THEN match_exclusion(pattern, name')
                 ELSE IF how = "inclusion" THEN match_inclusion(pattern, name')
                 ELSE match_inclusion_exact(pattern, name')}
  /\ UNCHANGED pattern

MatchNext(max) == Extend(max) \/ Match
----------------------------------------------------------------------------
\* The components of a name, without what says nothing.
RECURSIVE Components(_)
Components(s) ==
  IF ~\E i \in DOMAIN s : s[i] = "/" THEN IF s \in {<<>>, <<".">>} THEN <<>> ELSE <<s>>
  ELSE LET i == CHOOSE j \in DOMAIN s : s[j] = "/" /\ \A k \in 1..(j - 1) : s[k] # "/"
       IN Components(SubSeq(s, 1, i - 1)) \o Components(From(s, i + 1))
Below(s) == {s \o <<"/", "b">>, s \o <<"/", "a", "/", "b">>}
\* A name as entries have it: no "." within, no doubled or last slash.
Stored(s) ==
  /\ s # <<>> /\ s[Len(s)] # "/"
  /\ \A i \in DOMAIN s : s[i] = "/" =>
       /\ i = Len(s) \/ s[i + 1] # "/"
       /\ ~(s[i + 1] = "." /\ (i + 1 = Len(s) \/ s[i + 2] = "/"))
  /\ s[1] = "." => Len(s) > 1 /\ s[2] # "/"
Plain(p) == \A i \in DOMAIN p : p[i] \notin {"*", "?", "[", "]", "\\", "^", "$", "!"}

\* What holds for a directory holds for all that is below it: leaving out a
\* directory on the walk of create leaves out what extract would; only "$" says
\* otherwise.
CoversBelow ==
  name # Absent /\ pattern # <<>> /\ pattern[Len(pattern)] # "$" /\ Stored(name)
    /\ name[Len(name)] # "." =>
    \A s \in Below(name) :
      /\ "exclusion" \in found => match_exclusion(pattern, s)
      /\ "inclusion" \in found => match_inclusion(pattern, s)

\* A pattern without special characters names a file by its components, from
\* the first one as an inclusion, and from any as an exclusion; "." and doubled
\* or last slashes make no difference.
PlainNamesComponents ==
  name # Absent /\ pattern # <<>> /\ Plain(pattern) /\ Components(pattern) # <<>>
    /\ (StartsWith(pattern, "/") <=> StartsWith(name, "/")) =>
      LET p == Components(pattern)
          n == Components(name)
          at(i) == i + Len(p) - 1 <= Len(n) /\ SubSeq(n, i, i + Len(p) - 1) = p
      IN /\ "inclusion" \in found <=> at(1)
         /\ "exact" \in found <=> n = p
         /\ "exclusion" \in found <=>
              IF StartsWith(pattern, "/") THEN at(1) ELSE \E i \in DOMAIN n : at(i)

\* An exclusion is the widest kind of match, an exact match the narrowest, a
\* last "$" apart.
KindsNested ==
  name # Absent /\ Stored(name) /\ name[1] # "/" /\ (pattern = <<>> \/ pattern[Len(pattern)] # "$") =>
    /\ "exact" \in found => "inclusion" \in found
    /\ "inclusion" \in found => "exclusion" \in found
=============================================================================
