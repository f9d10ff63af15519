------------------------------ MODULE MCStage1 ------------------------------
(***************************************************************************)
(* Stage 1 on a small instance: one content that lands, one that is sent   *)
(* back and one that fails (a warning differs from the first in name only),*)
(* a crawler of the server (g1), one of the shell (c1), one of the server  *)
(* that ingests a folder (l1), and an ingest of a batch with the item (f1).*)
(***************************************************************************)
EXTENDS Stage1

CONSTANTS g1, c1, l1, f1,              \* crawlers and a feed
          whole, half, nothing \* contents

MCStatus == [c \in Contents |->
    CASE c = whole -> "crawled"
      [] c = half -> "needs_revision"
      [] OTHER -> "crawl_failed"]
=============================================================================
