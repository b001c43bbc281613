---------------------------- MODULE SmallArchives ----------------------------
(* The small archives and command lines that CreateAppend and               *)
(* RewriteArchive are checked with.                                         *)
EXTENDS Naturals, Sequences, TLC

Old(k) == <<0, k, 1>>
OldEntry(k) == <<[ty |-> "FHED", e |-> Old(k)], [ty |-> "FEND", e |-> Old(k)]>>
Layout(d, h, w, c) == [disk |-> d, held |-> h, whole |-> w, concatenated |-> c]
NoneHeld == (0 :> <<>>) @@ (1 :> <<>>)
One == <<[ty |-> "AHED", number |-> 0]>> \o OldEntry(1) \o <<[ty |-> "AEND"]>>
Cut1 == <<[ty |-> "AHED", number |-> 0]>> \o OldEntry(1) \o <<[ty |-> "FHED", e |-> Old(2)], [ty |-> "ANXT"], [ty |-> "AEND"]>>
Cut2(n) == <<[ty |-> "AHED", number |-> n], [ty |-> "FEND", e |-> Old(2)], [ty |-> "AEND"]>>
Second == <<[ty |-> "AHED", number |-> 0]>> \o OldEntry(2) \o <<[ty |-> "AEND"]>>

\* Nothing; one archive; one cut in two parts; two in one file; two parts
\* of which the second is missing or out of place; one without an end; and an
\* archive beside parts of an older one.
SmallLayouts ==
  {Layout(<<>>, NoneHeld, (0 :> FALSE) @@ (1 :> FALSE), c) : c \in BOOLEAN}
  \cup {Layout(0 :> One, (0 :> <<Old(1)>>) @@ NoneHeld, (0 :> TRUE) @@ (1 :> FALSE), c) : c \in BOOLEAN}
  \cup {Layout((1 :> Cut1) @@ (2 :> Cut2(1)), (1 :> <<Old(1), Old(2)>>) @@ NoneHeld,
               (0 :> FALSE) @@ (1 :> TRUE), c) : c \in BOOLEAN}
  \cup {Layout(0 :> One \o Second,
               (0 :> IF c THEN <<Old(1), Old(2)>> ELSE <<Old(1)>>) @@ NoneHeld,
               (0 :> TRUE) @@ (1 :> FALSE), c) : c \in BOOLEAN}
  \cup {Layout(1 :> Cut1, (1 :> <<Old(1)>>) @@ NoneHeld, (0 :> FALSE) @@ (1 :> FALSE), c) : c \in BOOLEAN}
  \cup {Layout((1 :> Cut1) @@ (2 :> Cut2(2)), (1 :> <<Old(1)>>) @@ NoneHeld,
               (0 :> FALSE) @@ (1 :> FALSE), FALSE)}
  \cup {Layout(0 :> SubSeq(One, 1, k), (0 :> IF k = 3 THEN <<Old(1)>> ELSE <<>>) @@ NoneHeld,
               (0 :> FALSE) @@ (1 :> FALSE), FALSE) : k \in {0, 2, 3}}
  \cup {Layout((0 :> One) @@ (2 :> Cut2(1)), (0 :> <<Old(1)>>) @@ NoneHeld,
               (0 :> TRUE) @@ (1 :> FALSE), FALSE)}

CreateLine(k, s, o, c, a) ==
  [kind |-> k, solid |-> s, overwrite |-> o, concatenated |-> c, at |-> a]
SmallCommands ==
  {CreateLine(k, s, o, FALSE, 0) : k \in {"create", "create_split"}, s, o \in BOOLEAN}
  \cup {CreateLine("split", FALSE, o, FALSE, 0) : o \in BOOLEAN}
  \cup {CreateLine("append", FALSE, FALSE, c, a) : c \in BOOLEAN, a \in {0, 1}}

File(r) == [batch |-> FALSE, out |-> r]
Archive(r) == [batch |-> TRUE, out |-> r]
SmallResults ==
  {<<>>}
  \cup {<<Archive(r)>> : r \in {<<"ok", "err">>, <<"ok", "ok">>}}
  \cup {<<File(<<p[1]>>), File(<<p[2]>>)>> :
          p \in {<<"ok", "ok">>, <<"err", "ok">>, <<"ok", "err">>}}
  \cup {<<File(<<"ok">>), Archive(<<"ok">>), File(<<>>)>>}
----------------------------------------------------------------------------
\* A plain or an encrypted block, and two commands.
SolidBlock(enc, key, es) == [solid |-> TRUE, enc |-> enc, key |-> key, entries |-> es]
PlainItem(x) == [solid |-> FALSE, enc |-> "none", key |-> "none", entries |-> <<x>>]
NamedEntry(n, i) == [name |-> n, id |-> i, meta |-> 0]
Secret(i) == [solid |-> FALSE, enc |-> "gcm", key |-> "right", entries |-> <<NamedEntry("a", i)>>]
SmallArchiveSet ==
  { <<PlainItem(NamedEntry("a", 1)), SolidBlock("none", "none", <<NamedEntry("b", 2), NamedEntry("a", 3)>>)>>,
    <<SolidBlock("gcm", "right", <<NamedEntry("a", 1), NamedEntry("b", 2)>>), Secret(3)>>,
    <<SolidBlock("ctr", "right", <<NamedEntry("a", 1)>>), PlainItem(NamedEntry("b", 2))>> }

Line(kind, m, named, ps, ex, keep, pw) ==
  [kind |-> kind, meta |-> m, named |-> named, patterns |-> ps,
   exclude |-> ex, keep_solid |-> keep, password |-> pw]
SmallPasswords == {"none", "right", "wrong"}
SmallOps ==
  {Line("set", 1, {}, <<{"a"}>>, {}, keep, pw) : keep \in BOOLEAN, pw \in SmallPasswords}
  \cup {Line("set", 2, {"a", "b"}, <<>>, {}, keep, pw) : keep \in BOOLEAN, pw \in SmallPasswords}
  \cup {Line("delete", 0, {}, <<{"a", "b"}, {"b"}>>, {"a"}, keep, pw) :
          keep \in BOOLEAN, pw \in SmallPasswords}
  \cup {Line("delete", 0, {}, <<{"a"}, {"c"}>>, {}, TRUE, "right")}
=============================================================================
