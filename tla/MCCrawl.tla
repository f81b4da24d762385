------------------------------- MODULE MCCrawl -------------------------------
(* The instances of CrawlLifecycle that TLC checks. *)
EXTENDS CrawlLifecycle, TLC

CONSTANTS p1, p2, a, b, c, d, e, x, y

(* Postings and canonical groups are interchangeable. *)
Interchangeable == Permutations(Posting) \cup Permutations(Canonical) \cup Permutations(Crawler)
=============================================================================
