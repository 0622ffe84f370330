--------------------------- MODULE ClientAddress ---------------------------
(***************************************************************************)
(* pkg/clientip: under which address a request is served.  A request       *)
(* travels from its client over any number of hops; the resolver believes  *)
(* forwarding headers only as far as the configured proxies vouch for      *)
(* them.                                                                   *)
(*                                                                         *)
(* Hops are external.  A configured proxy adds the address it was called   *)
(* from to X-Forwarded-For, on the last line or on a line of its own, and  *)
(* may set X-Real-IP; any other hop, and the client, sends what it likes.  *)
(***************************************************************************)
EXTENDS Integers, Sequences

CONSTANTS
    Hosts,       \* normalized addresses
    Trusted,     \* the hosts inside the configured prefixes
    Spellings,   \* what a header or RemoteAddr may hold: [host, form]
    Forwarded,   \* the X-Forwarded-For values clients write: lines of spellings
    MaxHops      \* the longest path explored

\* An address may be written plainly, with a port, or mapped into IPv6 with a
\* zone; "none" stands for text that is no address.
Forms == {"plain", "port", "mapped", "none"}

ASSUME AddressAssumption ==
    /\ Trusted \subseteq Hosts
    /\ \A s \in Spellings : s.host \in Hosts /\ s.form \in Forms
    /\ \A f \in Forwarded : f \in Seq(Seq(Spellings))
    /\ MaxHops \in Nat

VARIABLES
    hops,        \* the hosts passed so far, the client first
    forwarded,   \* X-Forwarded-For: header lines, each a list of spellings
    realIP,      \* X-Real-IP: no or one spelling
    remoteAddr,  \* RemoteAddr on the server: no or one spelling
    client       \* clientAddrKey in the context: no or one host

addressVars == <<hops, forwarded, realIP, remoteAddr, client>>

Plain(host) == [host |-> host, form |-> "plain"]

----------------------------------------------------------------------------
(* The resolver.  A result is a set of at most one host.                   *)

\* parseAddr and normalize: ports, the IPv6 mapping and zones are dropped.
ParseAddr(spelling) == IF spelling.form = "none" THEN {} ELSE {spelling.host}

ParseHeader(values) == IF values = << >> THEN {} ELSE ParseAddr(values[1])

IsTrusted(host) == host \in Trusted

\* The entries of all lines in one list: by line, then by place in the line.
ForwardedEntries(lines) ==
    UNION {{[line |-> i, place |-> j, text |-> lines[i][j]] : j \in 1..Len(lines[i])} :
              i \in 1..Len(lines)}

EarlierEntry(e, f) == e.line < f.line \/ (e.line = f.line /\ e.place < f.place)

\* The walk goes on over an entry that names a configured proxy.
Skipped(entry) == \E h \in ParseAddr(entry.text) : IsTrusted(h)

\* Mutant: the walk starts at the client's end.
FromForwardedForLeft(lines) ==
    UNION {ParseAddr(e.text) :
        e \in {e \in ForwardedEntries(lines) :
                  ~Skipped(e) /\ \A f \in ForwardedEntries(lines) : EarlierEntry(f, e) => Skipped(f)}}

\* fromForwardedFor: read from the right up to the first entry that is not a
\* trusted proxy; an entry that does not parse ends the walk without a result.
FromForwardedFor(lines) ==
    UNION {ParseAddr(e.text) :
        e \in {e \in ForwardedEntries(lines) :
                  ~Skipped(e) /\ \A f \in ForwardedEntries(lines) : EarlierEntry(e, f) => Skipped(f)}}

Resolve(peer) ==
    LET direct == ParseHeader(peer)
    IN  IF \A h \in direct : ~IsTrusted(h) THEN direct
        ELSE IF FromForwardedFor(forwarded) # {} THEN FromForwardedFor(forwarded)
        ELSE IF ParseHeader(realIP) # {} THEN ParseHeader(realIP)
        ELSE direct

\* FromContext and AddrFromRequest: the context first, then RemoteAddr.
AddrFromRequest == IF client # {} THEN client ELSE ParseHeader(remoteAddr)

----------------------------------------------------------------------------
(* A request on its way.                                                   *)

Holder == hops[Len(hops)]
Arrived == remoteAddr # << >>

AddressInit ==
    /\ hops = << >>
    /\ forwarded = << >>
    /\ realIP = << >>
    /\ remoteAddr = << >>
    /\ client = {}

\* The client sets out, with headers of its own making.
Send(host, lines, real) ==
    /\ hops = << >>
    /\ hops' = <<host>>
    /\ forwarded' = lines
    /\ realIP' = real
    /\ UNCHANGED <<remoteAddr, client>>

\* A configured proxy takes the request over.
TrustedHop(proxy) ==
    /\ hops # << >> /\ ~Arrived /\ Len(hops) < MaxHops
    /\ IsTrusted(proxy)
    /\ hops' = Append(hops, proxy)
    /\ \E caller \in {s \in Spellings : ParseAddr(s) = {Holder}} :
           /\ \/ forwarded' = Append(forwarded, <<caller>>)
              \/ /\ forwarded # << >>
                 /\ forwarded' = [forwarded EXCEPT ![Len(forwarded)] = Append(@, caller)]
           /\ realIP' \in {realIP, <<caller>>}
    /\ UNCHANGED <<remoteAddr, client>>

\* Another hop passes on, or replaces, what it received.
OtherHop(host, lines) ==
    /\ hops # << >> /\ ~Arrived /\ Len(hops) < MaxHops
    /\ ~IsTrusted(host)
    /\ hops' = Append(hops, host)
    /\ forwarded' = lines
    /\ UNCHANGED <<realIP, remoteAddr, client>>

\* Middleware: the address goes to the context and over RemoteAddr, which the
\* connection had spelled with a port.  A peer without an address (a local
\* socket) leaves both alone.
Middleware(form) ==
    /\ hops # << >> /\ ~Arrived
    /\ form \in {"port", "mapped", "none"}
    /\ LET peer == <<[host |-> Holder, form |-> form]>>
           addr == Resolve(peer)
       IN  /\ client' = addr
           /\ remoteAddr' = IF addr = {} THEN peer ELSE <<Plain(CHOOSE h \in addr : TRUE)>>
    /\ UNCHANGED <<hops, forwarded, realIP>>

AddressNext ==
    \/ \E host \in Hosts : \E lines \in Forwarded :
           \/ \E real \in {<< >>} \union {<<s>> : s \in Spellings} : Send(host, lines, real)
           \/ OtherHop(host, lines)
    \/ \E proxy \in Hosts : TrustedHop(proxy)
    \/ \E form \in Forms : Middleware(form)

AddressSpec == AddressInit /\ [][AddressNext]_addressVars

----------------------------------------------------------------------------
(* Properties.                                                             *)

\* The last hop before the chain of configured proxies.
LastUntrusted ==
    LET others == {i \in DOMAIN hops : ~IsTrusted(hops[i])}
    IN  hops[CHOOSE i \in others : \A j \in others : j <= i]

\* A request is served under the address that called the first of the
\* configured proxies in front of the server, whatever the client and the hops
\* before that wrote into the headers, in how many lines and how mangled, and
\* under the peer's own when no proxy is in front.  Handlers, which ask the
\* context, and loggers, which read RemoteAddr, see the same one.
AddressIsVouched ==
    AddrFromRequest # {} /\ (\E i \in DOMAIN hops : ~IsTrusted(hops[i])) =>
        AddrFromRequest = {LastUntrusted} /\ ParseHeader(remoteAddr) = {LastUntrusted}

\* Hop n is the last that is no configured proxy.
LastOther(n) ==
    /\ n \in 1..Len(hops) /\ ~IsTrusted(hops[n])
    /\ \A m \in 1..Len(hops) : m > n => IsTrusted(hops[m])

\* What the proxies behind hop n made of the header, whatever it held before.
Vouched(n) ==
    n < Len(hops) =>
        \E e \in ForwardedEntries(forwarded) :
            /\ ParseAddr(e.text) = {hops[n]}
            /\ \A f \in ForwardedEntries(forwarded) : EarlierEntry(e, f) => Skipped(f)

\* Inductive: on the way the header names the last such hop behind nothing but
\* proxies, and once resolved nothing changes any more.
AddressInv ==
    /\ hops \in Seq(Hosts)
    /\ forwarded \in Seq(Seq(Spellings))
    /\ hops = << >> => ~Arrived
    /\ (\E i \in 1..Len(hops) : ~IsTrusted(hops[i])) => \E n \in 1..Len(hops) : LastOther(n)
    /\ IF Arrived THEN AddressIsVouched
       ELSE client = {} /\ \A n \in 1..Len(hops) : LastOther(n) => Vouched(n)

=============================================================================
