---------------------------- MODULE MCSignalFetch ----------------------------
(***************************************************************************)
(* Two callers, two queries and room to cache one; a call may outlast the  *)
(* spacing, an entry its freshness and the limit for serving it stale.     *)
(***************************************************************************)
EXTENDS SignalFetch

LOCAL Article(url, ago, usable) == [url |-> url, ago |-> ago, usable |-> usable]

\* A good article, a bad one, a second time the first, one dated a little ahead and one far.
SomeBatches ==
    {<<Article("a", 2, TRUE), Article("b", 1, FALSE), Article("a", 0, TRUE),
       Article("c", -1, TRUE), Article("d", -9, TRUE)>>, <<Article("e", None, TRUE)>>}
=============================================================================
