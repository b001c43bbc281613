-------------------------- MODULE SmallFileSystems --------------------------
(* What FileCollection walks when TLC checks it: three small file systems,  *)
(* each with the options and operands that matter in it.                    *)
EXTENDS Integers

Unset == -1         \* NoTime of FileCollection
Lost == "nowhere"   \* its Nowhere

Path(p) == [path |-> p, slash |-> FALSE]
Slash(p) == [path |-> p, slash |-> TRUE]

AnyTime == [newer |-> Unset, older |-> Unset, include |-> TRUE, assume |-> Unset]
Newer(t) == [AnyTime EXCEPT !.newer = t]
Defaults ==
  [recursive |-> TRUE, keep_dir |-> TRUE, gitignore |-> FALSE, nodump |-> FALSE,
   follow_links |-> FALSE, follow_command_links |-> FALSE, one_file_system |-> FALSE,
   include |-> {}, exclude |-> {}, ctime |-> AnyTime, mtime |-> AnyTime,
   strip_components |-> 0]
Following(o) == {[o EXCEPT !.follow_links = l, !.follow_command_links = h] : l, h \in BOOLEAN}

\* A file with two links here and a third elsewhere, and one that is here
\* twice; links to a file, to a directory above, and to nothing.
Links ==
  [kind |-> [top |-> "dir", d |-> "dir", f |-> "file", g |-> "file", s |-> "link",
             up |-> "link", b |-> "link"],
   dev |-> [n \in {"top", "d", "f", "g", "s", "up", "b"} |-> 1],
   mtime |-> [top |-> 1, d |-> 1, f |-> 1, g |-> 3, s |-> 3, up |-> 1, b |-> 1],
   ctime |-> [top |-> 1, d |-> 1, f |-> Unset, g |-> 1, s |-> 1, up |-> 1, b |-> 1],
   links |-> [top |-> 1, d |-> 1, f |-> 3, g |-> 2, s |-> 1, up |-> 1, b |-> 1],
   nodump |-> {"g"},
   kids |-> [top |-> [a |-> "f", d |-> "d", l |-> "up", k |-> "b"],
             d |-> [a |-> "f", c |-> "g", e |-> "g", s |-> "s"]],
   to |-> [s |-> "f", up |-> "d", b |-> Lost],
   rules |-> [top |-> <<>>, d |-> <<>>]]
LinkOptions ==
  UNION {Following(o) :
    o \in {Defaults, [Defaults EXCEPT !.recursive = FALSE], [Defaults EXCEPT !.keep_dir = FALSE],
           [Defaults EXCEPT !.nodump = TRUE], [Defaults EXCEPT !.strip_components = 1],
           [Defaults EXCEPT !.exclude = {<<"d", "c">>, <<"l">>}],
           [Defaults EXCEPT !.exclude = {<<"d">>, <<"k">>}],
           [Defaults EXCEPT !.mtime = Newer(1)], [Defaults EXCEPT !.mtime.older = 3],
           [Defaults EXCEPT !.ctime = [Newer(0) EXCEPT !.assume = 1]],
           [Defaults EXCEPT !.ctime = [Newer(0) EXCEPT !.include = FALSE]]}}
LinkOperands ==
  {<<Path(<<"a">>), Path(<<"d">>)>>, <<Path(<<"d">>), Path(<<"a">>)>>,
   <<Path(<<"a">>), Path(<<"a">>)>>, <<Path(<<"d", "c">>), Path(<<"l">>)>>,
   <<Slash(<<"l">>), Path(<<"k">>)>>, <<Slash(<<"k">>)>>, <<Slash(<<"d">>)>>}

\* A directory of another file system, and a socket.
Mounts ==
  [kind |-> [top |-> "dir", d |-> "dir", m |-> "dir", f |-> "file", g |-> "file",
             o |-> "other", s |-> "link", b |-> "link"],
   dev |-> [top |-> 1, d |-> 1, m |-> 2, f |-> 1, g |-> 2, o |-> 1, s |-> 1, b |-> 1],
   mtime |-> [n \in {"top", "d", "m", "f", "g", "o", "s", "b"} |-> 1],
   ctime |-> [n \in {"top", "d", "m", "f", "g", "o", "s", "b"} |-> 1],
   links |-> [n \in {"top", "d", "m", "f", "g", "o", "s", "b"} |-> 1],
   nodump |-> {"m"},
   kids |-> [top |-> [d |-> "d", k |-> "b"],
             d |-> [a |-> "f", m |-> "m", o |-> "o", s |-> "s"], m |-> [c |-> "g"]],
   to |-> [s |-> "m", b |-> Lost],
   rules |-> [top |-> <<>>, d |-> <<>>, m |-> <<>>]]
MountOptions ==
  UNION {{[o EXCEPT !.one_file_system = x] : o \in Following(p), x \in BOOLEAN} :
    p \in {Defaults, [Defaults EXCEPT !.exclude = {<<"d", "o">>}],
           [Defaults EXCEPT !.exclude = {<<"d", "m">>, <<"d", "o">>}],
           [Defaults EXCEPT !.include = {<<"d">>, <<"d", "a">>, <<"d", "m">>}],
           [Defaults EXCEPT !.nodump = TRUE, !.exclude = {<<"d", "o">>}]}}
MountOperands == {<<Path(<<"d">>), Path(<<"k">>)>>, <<Slash(<<"d", "s">>)>>}

\* A rule that a deeper directory takes back, and a loop.
Rules ==
  [kind |-> [top |-> "dir", d |-> "dir", e |-> "dir", f |-> "file", g |-> "file",
             h |-> "file", i |-> "dir", up |-> "link"],
   dev |-> [n \in {"top", "d", "e", "f", "g", "h", "i", "up"} |-> 1],
   mtime |-> [n \in {"top", "d", "e", "f", "g", "h", "i", "up"} |-> 1],
   ctime |-> [n \in {"top", "d", "e", "f", "g", "h", "i", "up"} |-> 1],
   links |-> [n \in {"top", "d", "e", "f", "g", "h", "i", "up"} |-> 1],
   nodump |-> {},
   kids |-> [top |-> [d |-> "d"], d |-> [x |-> "f", y |-> "g", e |-> "e"],
             e |-> [x |-> "h", i |-> "i", up |-> "up"], i |-> [x |-> "f"]],
   to |-> [up |-> "d"],
   rules |-> [top |-> [y |-> "ignore"], d |-> [x |-> "ignore", i |-> "ignore"],
              e |-> [x |-> "keep"], i |-> <<>>]]
RuleOptions ==
  UNION {Following([Defaults EXCEPT !.gitignore = g, !.keep_dir = k]) : g, k \in BOOLEAN}
RuleOperands == {<<Path(<<>>)>>, <<Path(<<"d">>)>>, <<Path(<<"d", "e">>), Path(<<"d">>)>>}

Cross(w, os, xs) == {[fs |-> w, options |-> o, operands |-> x] : o \in os, x \in xs}
SmallCases == Cross(Links, LinkOptions, LinkOperands) \cup Cross(Mounts, MountOptions, MountOperands)
           \cup Cross(Rules, RuleOptions, RuleOperands)
=============================================================================
