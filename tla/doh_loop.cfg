\* One host: its dial, and the dial of the resolver that its query needs.
SPECIFICATION DohSpec
CONSTANTS
  Dials = {d1, d2, d3}
  Names = {n1}
  Resolver = resolver
  MaxTTL = 2
  MaxAddresses = 2
INVARIANT NoLoop
