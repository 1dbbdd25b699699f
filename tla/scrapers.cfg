\* Two searches over an index of three pages; two over three mirrors that come and go; and
\* three dials for one host.  The clock of the index stops at MaxTime.
SPECIFICATION ScrapersSpec
CONSTANTS
  Searchers = {s1, s2}
  NoOne = NoOne
  Pages = 3
  TTL = 2
  MaxTime = 3
  Visitors = {v1, v2}
  NoHost = NoHost
  h1 = h1
  h2 = h2
  h3 = h3
  Hosts <- ThreeHosts
  Dials = {d1, d2, d3}
  Names = {n1}
  Resolver = resolver
  MaxTTL = 2
  MaxAddresses = 2
INVARIANTS IndexInv MirrorInv
PROPERTIES FetchedOnce SearchEnds DohSafe DialEnds
