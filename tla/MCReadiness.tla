----------------------------- MODULE MCReadiness -----------------------------
\* Instances of Readiness for TLC.
EXTENDS Readiness

Searching(p, t, u) == [enabled |-> TRUE, provider |-> p, technical |-> t, url |-> u]
NotSearching(p) == [enabled |-> FALSE, provider |-> p, technical |-> FALSE, url |-> TRUE]

\* One configuration of each kind: every capability; technical documentation
\* only, with SearXNG's URL set; general search without a key; Fetch with
\* Search disabled and its provider left over; nothing at all.
Typical ==
    {[ai |-> TRUE, fetch |-> TRUE, search |-> Searching("searxng", TRUE, TRUE),
      keyFile |-> TRUE, keys |-> Cap],
     [ai |-> FALSE, fetch |-> FALSE, search |-> Searching("none", TRUE, TRUE),
      keyFile |-> FALSE, keys |-> {"search"}],
     [ai |-> TRUE, fetch |-> FALSE, search |-> Searching("other", FALSE, FALSE),
      keyFile |-> FALSE, keys |-> {"ai"}],
     [ai |-> FALSE, fetch |-> TRUE, search |-> NotSearching("searxng"),
      keyFile |-> FALSE, keys |-> {"fetch"}],
     [ai |-> FALSE, fetch |-> FALSE, search |-> NotSearching("none"),
      keyFile |-> FALSE, keys |-> {}]}
=============================================================================
