-------------------------- MODULE MCRewriteArchive --------------------------
(* Two commands on small archives with a plain or an encrypted block.       *)
EXTENDS RewriteArchive, SmallArchives
=============================================================================
