-------------------------- MODULE MCParallelExtract --------------------------
(* Instances of ParallelExtract for TLC.                                   *)
EXTENDS ParallelExtract
CONSTANTS p, q, w1, w2, main

MCPaths == {p, q}
Entry(x, k, t, b) == [path |-> x, kind |-> k, mtime |-> t, bad |-> b]
F(x, t) == Entry(x, "file", t, FALSE)
Bad(x) == Entry(x, "file", 2, TRUE)
L(x) == Entry(x, "link", 2, FALSE)
D(x) == Entry(x, "dir", 2, FALSE)

Opt(s, u, w, t) ==
  [strategy |-> s, unlink_first |-> u, safe_writes |-> w, keep_timestamp |-> t]
Under(n, m) == (p :> n @@ q :> m)
Old(t) == Node("file", 0, TRUE, t)

\* Two threads beside the reader; one thread, that of the reader; and one
\* thread that the reader is not on, where it works sequentially.
Pool(ws, r) == [workers |-> ws, reader |-> r]
MCThreads == {w1, w2}
AllPools == {Pool({w1, w2}, main), Pool({w1}, w1), Pool({w1}, main)}
TwoWorkers == {Pool({w1, w2}, main)}
Cases(as, os, ps, ds) == [archive : as, opt : os, pool : ps, disk : ds]

\* Files only: several on one path, on another in between, one without a time,
\* and a broken one at each position.
FileArchives == { <<F(p, 1), F(p, 3), F(p, 2)>>, <<F(p, 1), F(q, 1), F(p, 3)>>,
                  <<F(p, 3), F(p, 3)>>, <<F(p, 1), F(p, 0), F(p, 3)>>, <<Bad(p), F(p, 2), F(q, 2)>>,
                  <<F(p, 2), Bad(p), F(p, 3)>>, <<F(q, 3), F(p, 2), Bad(p)>> }
FileOptions == [strategy : {"Always", "Never", "KeepNewer", "KeepOlder"},
                unlink_first : BOOLEAN, safe_writes : BOOLEAN,
                keep_timestamp : {TRUE}]
FileDisks == { Under(Absent, Absent), Under(Old(2), Old(2)),
               Under(Node("dir", 0, TRUE, 2), Node("link", 0, TRUE, 2)) }

\* Directories and links among the files.
MixedArchives == { <<D(p), F(q, 1), L(p)>>, <<F(p, 1), D(p), F(q, 1)>>,
                   <<F(p, 1), D(q), F(p, 2)>>, <<L(p), F(p, 2), D(q)>>,
                  <<F(p, 1), F(q, 2), L(q)>> }
MixedOptions == { Opt("Always", FALSE, FALSE, TRUE), Opt("Never", FALSE, FALSE, FALSE),
                  Opt("Never", TRUE, FALSE, TRUE), Opt("KeepNewer", FALSE, TRUE, FALSE) }

MCInputs == Cases(FileArchives, FileOptions, AllPools, FileDisks)
            \cup Cases(MixedArchives, MixedOptions, TwoWorkers, FileDisks)

\* A link that an entry of the same name follows.
LinkFirst == Cases({<<L(p), F(p, 2)>>}, MixedOptions, TwoWorkers, FileDisks)
=============================================================================
