---------------------------- MODULE Transformers ----------------------------
(***************************************************************************)
(* The rewriting of names by -s and --transform                            *)
(* (core/path_transformer.rs, core/re/bsd.rs, core/re/gnu.rs).             *)
(*                                                                         *)
(* Regular expressions are external: one is a character, or nothing, that  *)
(* may be repeated ("*"), anchored ("^") or a group.  A rule is given as   *)
(* the parts between its delimiters; names and replacements are sequences. *)
(***************************************************************************)
EXTENDS Integers, Sequences, SequencesExt

CONSTANTS Regexes, Replacements, Flags, NamesToEdit, MaxRules, Absent

VARIABLES given,        \* the rules of the command line
          style,        \* "bsd" or "gnu"
          rules,        \* the rules as parsed
          input, output

tvars == <<given, style, rules, input, output>>

From(s, i) == SubSeq(s, i, Len(s))
Kinds == {"file", "symlink", "hardlink"}
----------------------------------------------------------------------------
(* External: the leftmost match of a regular expression in s, as the number *)
(* of characters before and within it.                                      *)
RECURSIVE Run(_, _)
Run(s, c) == IF s # <<>> /\ s[1] = c THEN 1 + Run(Tail(s), c) ELSE 0
LengthAt(re, s) ==
  IF re.char = "" THEN 0
  ELSE IF re.star THEN Run(s, re.char)
  ELSE IF s # <<>> /\ s[1] = re.char THEN 1 ELSE -1
captures(re, s) ==
  LET places == {i \in 0..(IF re.anchored THEN 0 ELSE Len(s)) : LengthAt(re, From(s, i + 1)) >= 0}
  IN IF places = {} THEN Absent
     ELSE LET i == CHOOSE i \in places : \A j \in places : i <= j
          IN [before |-> i, text |-> SubSeq(s, i + 1, i + LengthAt(re, From(s, i + 1))),
              group |-> re.group]
Group1(m) == IF m.group THEN m.text ELSE <<>>
----------------------------------------------------------------------------
(* Parsing: a rule's parts, and its flags one after the other. *)
Applies0 == [file |-> TRUE, symlink |-> TRUE, hardlink |-> TRUE]
WithFlag(rule, f) ==
  IF rule = Absent THEN Absent
  ELSE IF f \in {"g", "G"} /\ (f = "g" \/ style = "bsd") THEN [rule EXCEPT !.global = TRUE]
  ELSE IF f = "b" /\ style = "bsd" THEN [rule EXCEPT !.from_begin = TRUE]
  ELSE IF f \in {"i", "x"} /\ style = "gnu" THEN rule
  ELSE IF f \in {"0", "1", "2"} /\ style = "gnu"
  THEN [rule EXCEPT !.match_number = CHOOSE n \in 0..2 : <<"0", "1", "2">>[n + 1] = f]
  ELSE IF f \in {"s", "S"} THEN [rule EXCEPT !.applies.symlink = (f = "s")]
  ELSE IF f \in {"h", "H"} THEN [rule EXCEPT !.applies.hardlink = (f = "h")]
  ELSE IF f \in {"r", "R"} THEN [rule EXCEPT !.applies.file = (f = "r")]
  ELSE Absent
parse(parts) ==
  IF Len(parts) < 3 THEN Absent
  ELSE FoldLeft(WithFlag, [re |-> parts[1], replacement |-> parts[2], global |-> FALSE,
                           from_begin |-> FALSE, match_number |-> Absent, applies |-> Applies0],
                parts[3])
----------------------------------------------------------------------------
(* -s: each rule goes on behind what the rules before it have matched. *)
RECURSIVE append_replacement(_, _)
append_replacement(r, m) ==
  IF r = <<>> THEN <<>>
  ELSE IF r[1] = "~" THEN m.text \o append_replacement(Tail(r), m)
  ELSE IF r[1] # "\\" THEN <<r[1]>> \o append_replacement(Tail(r), m)
  ELSE IF Len(r) = 1 THEN <<"\\">>
  ELSE (IF r[2] \in {"~", "\\"} THEN <<r[2]>> ELSE IF r[2] = "1" THEN Group1(m) ELSE <<"\\", r[2]>>)
       \o append_replacement(From(r, 3), m)

RECURSIVE Substitute(_, _)
Substitute_SamePlace(rule, at) ==
  LET m == captures(rule.re, at.source)
  IN IF m = Absent THEN at
     ELSE [at EXCEPT !.got_match = TRUE, !.result = <<>>,
             !.source = at.result \o SubSeq(at.source, 1, m.before)
                          \o append_replacement(rule.replacement, m)
                          \o From(at.source, m.before + Len(m.text) + 1)]
Substitute(rule, at) ==
  LET rest == at.source
      m == captures(rule.re, rest)
  IN IF m = Absent THEN at
     ELSE LET end == m.before + Len(m.text)
              step == IF end > 0 \/ rest = <<>> THEN end ELSE 1
              next == [at EXCEPT !.got_match = TRUE, !.source = From(rest, step + 1),
                         !.result = at.result \o SubSeq(rest, 1, m.before)
                                      \o append_replacement(rule.replacement, m)
                                      \o SubSeq(rest, end + 1, step)]
          IN IF ~rule.global \/ rest = <<>> THEN next ELSE Substitute(rule, next)

apply_substitutions(rs, s, kind) ==
  LET one(at, rule) ==
        IF ~rule.applies[kind] THEN at
        ELSE Substitute(rule, IF rule.from_begin /\ at.got_match
                              THEN [at EXCEPT !.source = at.result \o at.source, !.result = <<>>]
                              ELSE at)
      end == FoldLeft(one, [source |-> s, result |-> <<>>, got_match |-> FALSE], rs)
  IN end.result \o end.source
----------------------------------------------------------------------------
(* --transform: each rule is applied to what the one before it has made. *)
\* External: the matches of replace_all, none of them empty right behind another.
RECURSIVE Matches(_, _, _, _)
Matches(re, s, from, touching) ==
  LET m == IF re.anchored /\ from > 0 THEN Absent ELSE captures(re, From(s, from + 1))
  IN IF from > Len(s) \/ m = Absent THEN <<>>
     ELSE LET b == from + m.before
              e == b + Len(m.text)
          IN IF m.text # <<>>
             THEN <<[at |-> b, text |-> m.text, group |-> m.group]>> \o Matches(re, s, e, e)
             ELSE (IF b = touching THEN <<>> ELSE <<[at |-> b, text |-> <<>>, group |-> m.group]>>)
                  \o Matches(re, s, b + 1, -1)
Expanded(r, m) == FlattenSeq([i \in DOMAIN r |-> IF r[i] = "$0" THEN m.text
                                                 ELSE IF r[i] = "$1" THEN Group1(m) ELSE <<r[i]>>])
ReplaceChosen(s, ms, texts) ==
  LET piece(i) == SubSeq(s, IF i = 1 THEN 1 ELSE ms[i - 1].at + Len(ms[i - 1].text) + 1, ms[i].at) \o texts[i]
  IN IF ms = <<>> THEN s
     ELSE FlattenSeq([i \in DOMAIN ms |-> piece(i)]) \o From(s, Last(ms).at + Len(Last(ms).text) + 1)

TransformOnce(s, rule) ==
  LET all == Matches(rule.re, s, 0, -1)
      ms == IF rule.global \/ rule.match_number # Absent \/ all = <<>> THEN all ELSE <<all[1]>>
      text(i) == IF rule.match_number # Absent
                 THEN IF i = rule.match_number THEN rule.replacement ELSE ms[i].text
                 ELSE Expanded(rule.replacement, ms[i])
  IN ReplaceChosen(s, ms, [i \in DOMAIN ms |-> text(i)])
apply_transforms(rs, s, kind) ==
  FoldLeft(LAMBDA out, rule : IF rule.applies[kind] THEN TransformOnce(out, rule) ELSE out, s, rs)

PathTransformers(rs, s, kind) ==
  IF style = "bsd" THEN apply_substitutions(rs, s, kind) ELSE apply_transforms(rs, s, kind)
----------------------------------------------------------------------------
TransformersInit ==
  /\ given = <<>> /\ rules = <<>> /\ style \in {"bsd", "gnu"}
  /\ input = Absent /\ output = Absent

GiveRule ==
  /\ input = Absent /\ Len(given) < MaxRules /\ rules # Absent
  /\ \E re \in Regexes, r \in Replacements, fs \in Flags :
       LET rule == parse(<<re, r, fs>>)
       IN /\ given' = Append(given, [re |-> re, replacement |-> r, flags |-> fs])
          /\ rules' = IF rule = Absent THEN Absent ELSE Append(rules, rule)
  /\ UNCHANGED <<style, input, output>>
Apply ==
  /\ input = Absent /\ rules # Absent
  /\ input' \in NamesToEdit
  /\ output' = [k \in Kinds |-> PathTransformers(rules, input', k)]
  /\ UNCHANGED <<given, style, rules>>

TransformersNext == GiveRule \/ Apply
----------------------------------------------------------------------------
\* Replaced text marked, so that no rule matches it.
Marked(r) == [r EXCEPT !.replacement = [i \in DOMAIN @ |-> IF @[i] = "x" THEN "X" ELSE @[i]]]
Unmark(s) == [i \in DOMAIN s |-> IF s[i] = "X" THEN "x" ELSE s[i]]

\* What one -s rule has put in is never changed by a later one, unless that one
\* has the flag b; what no rule matches stays, and a rule that does not apply to
\* the kind of entry does nothing.
PlacedTextStays ==
  input # Absent =>
    /\ style = "bsd" /\ ~(\E i \in DOMAIN rules : rules[i].from_begin) =>
         \A k \in Kinds :
           Unmark(PathTransformers([i \in DOMAIN rules |-> Marked(rules[i])], input, k)) = output[k]
    /\ \A k \in Kinds :
         (\A i \in DOMAIN rules : ~rules[i].applies[k] \/ captures(rules[i].re, input) = Absent) =>
           output[k] = input
    /\ \A i \in DOMAIN given : Last(<<"r">> \o SelectSeq(given[i].flags, LAMBDA f : f \in {"r", "R"})) = "R" =>
         output["file"] = PathTransformers(RemoveAt(rules, i), input, "file")

\* A numbered rule replaces the n-th match by what the rule would put in for it
\* when it is to replace all of them.
NumberedLikeGlobal ==
  input # Absent /\ style = "gnu" /\ Len(rules) = 1 /\ rules[1].match_number # Absent =>
    LET all == [rules[1] EXCEPT !.match_number = Absent, !.global = TRUE]
    IN rules[1].match_number = 1 /\ Len(Matches(all.re, input, 0, -1)) = 1 =>
         output["file"] = TransformOnce(input, all)
=============================================================================
