----------------------------- MODULE DohResolver -----------------------------
(***************************************************************************)
(* Names resolved over HTTPS (src/pkg/netutil/doh.go).  Every connection   *)
(* of the daemon's default transport is dialled by DialContext, which asks *)
(* the resolver for the addresses of the host.  main.go (57-60) makes this *)
(* transport http.DefaultTransport, and queryDoH's own http.Client names   *)
(* no transport: the query goes through the same transport, and needs a    *)
(* connection to the resolver that DialContext dials in turn.              *)
(*                                                                         *)
(* The transport (net/http, external) keeps connections for later use,     *)
(* serves several requests over one, and goes on dialling when the request *)
(* that wanted the connection has given up.                                *)
(***************************************************************************)
EXTENDS Naturals, FiniteSets

CONSTANTS
  Dials,        \* bound: calls of DialContext under way at once
  Names,        \* hosts of the sources
  Resolver,     \* the host of the endpoint, which is an address
  MaxTTL,       \* the longest time an answer is kept (60 seconds)
  MaxAddresses  \* bound: addresses in an answer

ASSUME DohAssumption ==
  /\ Resolver \notin Names
  /\ MaxTTL \in Nat \ {0} /\ MaxAddresses \in Nat \ {0}

AllNames == Names \cup {Resolver}

VARIABLES
  dial,      \* where each call is
  host,      \* the host it dials
  addresses, \* those it has still to try
  asked,     \* whether the query in hand has got its connection
  dnsCache,  \* per host, the last answer: its addresses, its TTL and its age
  pooled     \* the transport has a connection to the resolver

dohVars == <<dial, host, addresses, asked, dnsCache, pooled>>

\* "A" and "AAAA" are the two queries, "connect" tries the addresses that were found, and
\* "system" is the dialer's own way, with the resolver of the system.
Places == {"idle", "lookup", "A", "AAAA", "connect", "system"}

\* An answer is used for its TTL, in seconds, or for MaxTTL if that is zero or longer.  What
\* is overdue stays in the map until it is overwritten.
KeepFor(ttl) == IF ttl \in 1..MaxTTL THEN ttl ELSE MaxTTL
Kept(h) == dnsCache[h].count > 0 /\ dnsCache[h].age < KeepFor(dnsCache[h].ttl)
NoAnswer == [count |-> 0, ttl |-> 0, age |-> MaxTTL]

DohInit ==
  /\ dial = [d \in Dials |-> "idle"]
  /\ host = [d \in Dials |-> Resolver]
  /\ addresses = [d \in Dials |-> 0]
  /\ asked = [d \in Dials |-> FALSE]
  /\ dnsCache = [h \in AllNames |-> NoAnswer]
  /\ pooled = FALSE

-----------------------------------------------------------------------------
Go(d, place) == dial' = [dial EXCEPT ![d] = place]
Querying(d) == dial[d] \in {"A", "AAAA"}

\* The transport wants a connection to h.
Dial(d, h) ==
  /\ dial[d] = "idle"
  /\ Go(d, "lookup") /\ host' = [host EXCEPT ![d] = h]
  /\ UNCHANGED <<addresses, asked, dnsCache, pooled>>

\* A source sends a request.
Request(d) == \E h \in Names : Dial(d, h)

\* Mutant: what the map holds is used, however old it is.
LookupWhatever(d) ==
  /\ dial[d] = "lookup"
  /\ IF dnsCache[host[d]].count > 0
     THEN /\ Go(d, "connect")
          /\ addresses' = [addresses EXCEPT ![d] = dnsCache[host[d]].count]
     ELSE Go(d, "A") /\ UNCHANGED addresses
  /\ UNCHANGED <<host, asked, dnsCache, pooled>>

Lookup(d) ==
  /\ dial[d] = "lookup"
  /\ IF Kept(host[d])
     THEN /\ Go(d, "connect")
          /\ addresses' = [addresses EXCEPT ![d] = dnsCache[host[d]].count]
     ELSE Go(d, "A") /\ UNCHANGED addresses
  /\ UNCHANGED <<host, asked, dnsCache, pooled>>

\* client.Do without a connection that it could use: the transport dials the resolver.
DialResolver(d) ==
  /\ \E q \in Dials : Querying(q) /\ ~asked[q] /\ ~pooled
  /\ Dial(d, Resolver)

Send(d) ==
  /\ Querying(d) /\ ~asked[d] /\ pooled
  /\ asked' = [asked EXCEPT ![d] = TRUE]
  /\ UNCHANGED <<dial, host, addresses, dnsCache, pooled>>

\* An answer with addresses is stored and used.  The address of the resolver has none.
Answer(d) ==
  /\ Querying(d) /\ asked[d] /\ host[d] # Resolver
  /\ \E n \in 1..MaxAddresses, t \in 0..MaxTTL :
       /\ dnsCache' = [dnsCache EXCEPT ![host[d]] = [count |-> n, ttl |-> t, age |-> 0]]
       /\ addresses' = [addresses EXCEPT ![d] = n]
  /\ Go(d, "connect") /\ asked' = [asked EXCEPT ![d] = FALSE]
  /\ UNCHANGED <<host, pooled>>

\* Mutant: the query has no time limit of its own.
QueryFailsIfSent(d) ==
  /\ Querying(d) /\ asked[d]
  /\ Go(d, IF dial[d] = "A" THEN "AAAA" ELSE "system")
  /\ asked' = [asked EXCEPT ![d] = FALSE]
  /\ UNCHANGED <<host, addresses, dnsCache, pooled>>

\* An error, an empty answer, or the five seconds of the client are over.
QueryFails(d) ==
  /\ Querying(d)
  /\ Go(d, IF dial[d] = "A" THEN "AAAA" ELSE "system")
  /\ asked' = [asked EXCEPT ![d] = FALSE]
  /\ UNCHANGED <<host, addresses, dnsCache, pooled>>

Finish(d) == Go(d, "idle") /\ host' = [host EXCEPT ![d] = Resolver]

Connect(d) ==
  /\ dial[d] = "connect"
  /\ \/ Finish(d) /\ addresses' = [addresses EXCEPT ![d] = 0]
     \/ addresses[d] > 1 /\ addresses' = [addresses EXCEPT ![d] = @ - 1] /\ UNCHANGED <<dial, host>>
  /\ UNCHANGED <<asked, dnsCache, pooled>>

\* The system's dialer, which resolves the name itself or, for the resolver, need not.
ConnectSystem(d) ==
  /\ dial[d] = "system"
  /\ Finish(d)
  /\ \/ host[d] = Resolver /\ pooled' = TRUE
     \/ UNCHANGED pooled
  /\ UNCHANGED <<addresses, asked, dnsCache>>

\* The pooled connection is closed.
PoolCloses ==
  /\ pooled /\ pooled' = FALSE
  /\ UNCHANGED <<dial, host, addresses, asked, dnsCache>>

\* Bound: ages stop at MaxTTL, when every answer is overdue.
DnsTick ==
  /\ dnsCache' = [h \in AllNames |-> [dnsCache[h] EXCEPT !.age = IF @ = MaxTTL THEN @ ELSE @ + 1]]
  /\ UNCHANGED <<dial, host, addresses, asked, pooled>>

DialStep(d) == Lookup(d) \/ Send(d) \/ Answer(d) \/ QueryFails(d) \/ Connect(d) \/ ConnectSystem(d)
DohNext ==
  \/ \E d \in Dials : Request(d) \/ DialResolver(d) \/ DialStep(d)
  \/ PoolCloses \/ DnsTick

DohSpec == DohInit /\ [][DohNext]_dohVars

\* Goroutines run, and every wait has its time limit: five seconds for a query, thirty for
\* a connection.
DohFairness == \A d \in Dials : WF_dohVars(DialStep(d))

-----------------------------------------------------------------------------
(* Properties.                                                              *)

\* Types; and a dial that connects has an address to connect to.
DohTypeOK ==
  /\ dial \in [Dials -> Places] /\ host \in [Dials -> AllNames]
  /\ addresses \in [Dials -> 0..MaxAddresses] /\ asked \in [Dials -> BOOLEAN]
  /\ dnsCache \in [AllNames -> [count : 0..MaxAddresses, ttl : 0..MaxTTL, age : 0..MaxTTL]]
  /\ \A d \in Dials : dial[d] = "connect" <=> addresses[d] > 0
  /\ pooled \in BOOLEAN

\* A dial that asks nobody connects to addresses whose own TTL has not run out, whichever
\* dial stored them and whatever was stored before -- unless that TTL is zero.
NotOverdue(h) == dnsCache[h].ttl = 0 \/ dnsCache[h].age < dnsCache[h].ttl
NoOverdueAddress ==
  [][\A d \in Dials : dial[d] = "lookup" /\ dial'[d] = "connect" => NotOverdue(host[d])]_dohVars

\* What every step of the dials keeps.
DohSafe == []DohTypeOK /\ NoOverdueAddress

\* Every connection that is wanted is made or refused in the end, by way of the system's
\* resolver if need be, although dials wait for dials.
DialEnds == \A d \in Dials : []<>(dial[d] = "idle")

\* doh.go:141, "Must use a separate client to avoid loop!": the query for the address of
\* the resolver does not itself go to the resolver.
NoLoop == \A d \in Dials : Querying(d) => host[d] # Resolver
=============================================================================
