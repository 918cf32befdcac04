----------------------------- MODULE MCIndexer -----------------------------
(***************************************************************************)
(* Indexer on ledgers of six transactions.                                *)
(***************************************************************************)
EXTENDS Indexer

\* The third and the fourth transaction share a slot and fill a leg each, so that
\* no other leg of its take brings a skipped one back; the second fills nothing.
MCSlot == <<1, 2, 3, 3, 4, 5>>
MCLegCount == <<2, 0, 1, 1, 1, 3>>

\* In the shared slot the later transaction's signature is the smaller text.
MCSigRank == <<1, 2, 4, 3, 6, 5>>
=============================================================================
