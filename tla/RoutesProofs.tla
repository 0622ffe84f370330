---------------------------- MODULE RoutesProofs ----------------------------
(***************************************************************************)
(* Proofs about what stands before a handler.  First the credential        *)
(* algebra (internal/httpx/guard.go), for every vocabulary of schemes.     *)
(* Then the tree of groups (internal/httpx/declaration.go and compile.go): *)
(* whatever Build accepts is served as documented, for any groups, guards, *)
(* patterns and operations.  Last the client address (pkg/clientip), for   *)
(* any hosts, proxies, headers and number of hops.                         *)
(*                                                                         *)
(* The argument about the tree: Grows and CompiledStep show that pass 1    *)
(* builds a tree of the right Shape, NoPanic that what it does not refuse  *)
(* pass 2 can mount (CompileComplete).  In such a tree a request is always *)
(* at the router its path leads to (AtRouter), with nothing that serves or *)
(* guards it left aside (OnTheWay): a mount that matches is the only entry *)
(* that does (MountAlone), and hands the request over (HandedOver); where  *)
(* none does the router answers, with the one operation the documented     *)
(* paths say (OperationAnswers, Uncontested), behind the guards of every   *)
(* router it came by (GuardsMet).                                          *)
(***************************************************************************)
EXTENDS Routes, ClientAddress, SequenceTheorems, WellFoundedInduction, TLAPS

-----------------------------------------------------------------------------
(* What RequirementSet.And promises about two guards.                       *)

LEMMA AndOfStated ==
  ASSUME NEW r, NEW s, r # Unstated, s # Unstated
  PROVE  And(r, s) = {a \union b : a \in r, b \in s}
  BY DEF And, mergeCredentials

LEMMA AndIdentity ==
  ASSUME NEW r
  PROVE  And(r, Unstated) = r /\ And(Unstated, r) = r
  BY DEF And

LEMMA AndStated ==
  ASSUME NEW r, NEW s
  PROVE  And(r, s) = Unstated <=> r = Unstated /\ s = Unstated
  <1>1. CASE r = Unstated \/ s = Unstated BY <1>1, AndIdentity
  <1>2. CASE r # Unstated /\ s # Unstated
    <2> PICK a \in r, b \in s : TRUE BY <1>2 DEF Unstated
    <2>1. a \union b \in And(r, s) BY <1>2, AndOfStated
    <2> QED BY <1>2, <2>1 DEF Unstated
  <1> QED BY <1>1, <1>2

(* The conjunction of two guards' requirements is a requirement again, over *)
(* the closed vocabulary validateRequirementSet accepts.                    *)
THEOREM AndClosed ==
  ASSUME NEW r \in RequirementSets, NEW s \in RequirementSets
  PROVE  And(r, s) \in RequirementSets /\ ValidRequirement(And(r, s))
  <1>1. And(r, s) \in RequirementSets
    <2>1. CASE r = Unstated \/ s = Unstated BY <2>1, AndIdentity
    <2>2. CASE r # Unstated /\ s # Unstated
      BY <2>2, AndOfStated DEF RequirementSets, CredentialSets
    <2> QED BY <2>1, <2>2
  <1> QED BY <1>1 DEF ValidRequirement, RequirementSets, CredentialSets

(* A caller satisfies the documented conjunction exactly when it satisfies  *)
(* both guards: the document asks for no credential a guard does not check  *)
(* and leaves out none that it does.                                        *)
THEOREM AndIsConjunction ==
  ASSUME NEW r \in RequirementSets, NEW s \in RequirementSets,
         NEW presented \in CredentialSets
  PROVE  Satisfied(And(r, s), presented)
           <=> Satisfied(r, presented) /\ Satisfied(s, presented)
  <1>1. CASE r = Unstated \/ s = Unstated BY <1>1, AndIdentity DEF Satisfied
  <1>2. CASE r # Unstated /\ s # Unstated
    <2>1. ASSUME Satisfied(And(r, s), presented)
          PROVE  Satisfied(r, presented) /\ Satisfied(s, presented)
      <3> PICK c \in And(r, s) : c \subseteq presented
        BY <1>2, <2>1, AndStated DEF Satisfied
      <3> PICK a \in r, b \in s : c = a \union b BY <1>2, AndOfStated
      <3> QED BY DEF Satisfied
    <2>2. ASSUME Satisfied(r, presented), Satisfied(s, presented)
          PROVE  Satisfied(And(r, s), presented)
      <3> PICK a \in r : a \subseteq presented BY <1>2, <2>2 DEF Satisfied
      <3> PICK b \in s : b \subseteq presented BY <1>2, <2>2 DEF Satisfied
      <3>1. a \union b \in And(r, s) BY <1>2, AndOfStated
      <3>2. a \union b \subseteq presented OBVIOUS
      <3> QED BY <3>1, <3>2 DEF Satisfied
    <2> QED BY <2>1, <2>2
  <1> QED BY <1>1, <1>2

(* Anonymous callers are let through by a chain exactly when every guard    *)
(* that states a requirement lets them through: one strict guard anywhere   *)
(* closes the operation.                                                    *)
THEOREM AnonymousNeedsAll ==
  ASSUME NEW r \in RequirementSets, NEW s \in RequirementSets,
         r # Unstated, s # Unstated
  PROVE  AllowsAnonymous(And(r, s)) <=> AllowsAnonymous(r) /\ AllowsAnonymous(s)
  <1>1. ASSUME AllowsAnonymous(And(r, s))
        PROVE  AllowsAnonymous(r) /\ AllowsAnonymous(s)
    <2> PICK a \in r, b \in s : {} = a \union b
      BY <1>1, AndOfStated DEF AllowsAnonymous
    <2>1. a = {} /\ b = {} OBVIOUS
    <2> QED BY <2>1 DEF AllowsAnonymous
  <1>2. ASSUME AllowsAnonymous(r), AllowsAnonymous(s)
        PROVE  AllowsAnonymous(And(r, s))
    <2>1. {} \union {} \in And(r, s) BY <1>2, AndOfStated DEF AllowsAnonymous
    <2> QED BY <2>1 DEF AllowsAnonymous
  <1> QED BY <1>1, <1>2

(* In which order And meets two guards does not change what is documented.  *)
THEOREM AndCommutes ==
  ASSUME NEW r, NEW s
  PROVE  And(r, s) = And(s, r)
  <1>1. CASE r = Unstated \/ s = Unstated BY <1>1, AndIdentity
  <1>2. CASE r # Unstated /\ s # Unstated
    <2>1. And(r, s) = {a \union b : a \in r, b \in s} BY <1>2, AndOfStated
    <2>2. And(s, r) = {b \union a : b \in s, a \in r} BY <1>2, AndOfStated
    <2>3. \A a, b : a \union b = b \union a OBVIOUS
    <2>4. ASSUME NEW x PROVE x \in And(r, s) <=> x \in And(s, r)
      <3>1. x \in And(r, s) <=> \E a \in r, b \in s : x = a \union b BY <2>1
      <3>2. x \in And(s, r) <=> \E b \in s, a \in r : x = b \union a BY <2>2
      <3> QED BY <2>3, <3>1, <3>2
    <2> QED BY <2>4
  <1> QED BY <1>1, <1>2

(* A route may inherit guards from any nesting of groups: how their chain   *)
(* is bracketed into calls of And does not change what is documented.       *)
THEOREM AndAssociates ==
  ASSUME NEW r, NEW s, NEW t
  PROVE  And(And(r, s), t) = And(r, And(s, t))
  <1>1. CASE r = Unstated \/ s = Unstated \/ t = Unstated
    BY <1>1, AndIdentity
  <1>2. CASE r # Unstated /\ s # Unstated /\ t # Unstated
    <2>1. And(r, s) # Unstated /\ And(s, t) # Unstated BY <1>2, AndStated
    <2>2. And(And(r, s), t) = {d \union c : d \in And(r, s), c \in t}
      BY <1>2, <2>1, AndOfStated
    <2>3. And(r, And(s, t)) = {a \union e : a \in r, e \in And(s, t)}
      BY <1>2, <2>1, AndOfStated
    <2>4. \A a, b, c : (a \union b) \union c = a \union (b \union c) OBVIOUS
    <2>5. ASSUME NEW x \in And(And(r, s), t) PROVE x \in And(r, And(s, t))
      <3> PICK d \in And(r, s), c \in t : x = d \union c BY <2>2
      <3> PICK a \in r, b \in s : d = a \union b BY <1>2, AndOfStated
      <3>1. b \union c \in And(s, t) BY <1>2, AndOfStated
      <3>2. x = a \union (b \union c) BY <2>4
      <3> QED BY <2>3, <3>1, <3>2
    <2>6. ASSUME NEW x \in And(r, And(s, t)) PROVE x \in And(And(r, s), t)
      <3> PICK a \in r, e \in And(s, t) : x = a \union e BY <2>3
      <3> PICK b \in s, c \in t : e = b \union c BY <1>2, AndOfStated
      <3>1. a \union b \in And(r, s) BY <1>2, AndOfStated
      <3>2. x = (a \union b) \union c BY <2>4
      <3> QED BY <2>2, <3>1, <3>2
    <2> QED BY <2>5, <2>6
  <1> QED BY <1>1, <1>2

-----------------------------------------------------------------------------
(* Sequences that begin with one another.                                   *)

LEMMA ExtendsItself ==
  ASSUME NEW S, NEW a \in Seq(S)
  PROVE  Extends(a, a)
  BY DEF Extends

LEMMA ExtendsTransitive ==
  ASSUME NEW S, NEW a \in Seq(S), NEW b \in Seq(S), NEW c \in Seq(S),
         Extends(a, b), Extends(b, c)
  PROVE  Extends(a, c)
  <1>1. Len(a) \in Nat /\ Len(b) \in Nat /\ Len(c) \in Nat BY LenProperties
  <1>2. \A i \in 1 .. Len(c) : i \in 1 .. Len(b) BY <1>1 DEF Extends
  <1> QED BY <1>1, <1>2 DEF Extends

LEMMA ExtendsConcat ==
  ASSUME NEW S, NEW a \in Seq(S), NEW b \in Seq(S)
  PROVE  Extends(a \o b, a)
  BY ConcatProperties, LenProperties DEF Extends

LEMMA ExtendsAppend ==
  ASSUME NEW S, NEW a \in Seq(S), NEW x \in S
  PROVE  /\ Extends(Append(a, x), a) /\ Len(Append(a, x)) = Len(a) + 1
         /\ Append(a, x)[Len(a) + 1] = x /\ Append(a, x) # a
         /\ ~Extends(a, Append(a, x))
         /\ Append(a, x) \in Seq(S)
  BY AppendProperties, LenProperties DEF Extends

LEMMA ExtendsSame ==
  ASSUME NEW S, NEW a \in Seq(S), NEW b \in Seq(S), Extends(a, b), Len(a) <= Len(b)
  PROVE  a = b
  <1>1. Len(a) = Len(b) BY LenProperties DEF Extends
  <1>2. \A i \in 1 .. Len(a) : a[i] = b[i] BY <1>1 DEF Extends
  <1> QED BY <1>1, <1>2, SeqEqual

LEMMA ExtendsBoth ==
  ASSUME NEW S, NEW a \in Seq(S), NEW b \in Seq(S), NEW c \in Seq(S),
         Extends(a, b), Extends(a, c), Len(c) <= Len(b)
  PROVE  Extends(b, c)
  <1>1. Len(a) \in Nat /\ Len(b) \in Nat /\ Len(c) \in Nat BY LenProperties
  <1>2. \A i \in 1 .. Len(c) : i \in 1 .. Len(b) BY <1>1
  <1> QED BY <1>1, <1>2 DEF Extends

\* What comes before an appended element is what the sequence began with.
LEMMA ExtendsBefore ==
  ASSUME NEW S, NEW a \in Seq(S), NEW x \in S, NEW b \in Seq(S),
         Extends(Append(a, x), b), b # Append(a, x)
  PROVE  Extends(a, b)
  <1>1. Len(Append(a, x)) = Len(a) + 1 /\ Append(a, x) \in Seq(S) BY ExtendsAppend
  <1>2. Len(a) \in Nat /\ Len(b) \in Nat BY LenProperties
  <1>3. ~ (Len(a) + 1 <= Len(b)) BY <1>1, ExtendsSame
  <1>4. Len(b) <= Len(a) BY <1>2, <1>3
  <1> QED BY <1>1, <1>4, ExtendsAppend, ExtendsBoth

-----------------------------------------------------------------------------
(* What is declared.                                                        *)

Links == [pattern : Patterns \union {Inline}, node : Groups \union {Nil}]

Declared ==
    tree \in [Groups -> [guards : Seq(Guards \union {ZeroGuard}), children : Seq(Links),
                         endpoints : Seq(Endpoints), infra : Seq(Infra)]]

LEMMA ChainsAssociate ==
  \A a, b, c \in Seq(Guards) : (a \o b) \o c = a \o (b \o c)
  BY ConcatAssociative

LEMMA ValidChains ==
  ASSUME NEW guards \in Seq(Guards \union {ZeroGuard})
  PROVE  Valid(guards) \in Chains
  <1>1. CASE \A i \in DOMAIN guards : guards[i] # ZeroGuard
    <2>1. \A i \in 1 .. Len(guards) : guards[i] \in Guards BY <1>1, LenProperties, ElementOfSeq
    <2>2. guards \in [1 .. Len(guards) -> Guards] BY <2>1, LenProperties
    <2>3. Len(guards) \in Nat BY LenProperties
    <2>4. guards \in Seq(Guards) BY <2>2, <2>3, SeqDef
    <2> QED BY <1>1, <2>4 DEF Valid, Chains
  <1>2. CASE ~ \A i \in DOMAIN guards : guards[i] # ZeroGuard
    BY <1>2, EmptySeq DEF Valid, Chains
  <1> QED BY <1>1, <1>2

LEMMA GuardsOfChains ==
  ASSUME Declared, NEW g \in Groups \union {Nil}
  PROVE  GuardsOf(g) \in Chains
  <1>1. CASE g = Nil BY <1>1, EmptySeq DEF GuardsOf, Chains
  <1>2. CASE g # Nil
    <2>1. tree[g].guards \in Seq(Guards \union {ZeroGuard}) BY <1>2 DEF Declared
    <2> QED BY <1>2, <2>1, ValidChains DEF GuardsOf
  <1> QED BY <1>1, <1>2

LEMMA InlineIsNoPath == Inline \notin Spelled /\ Inline \notin Patterns /\ Inline # << >>
  <1>1. Inline \notin Spelled
    <2> SUFFICES ASSUME Inline \in Seq(DOMAIN Words) PROVE FALSE BY DEF Spelled
    <2>1. Len(Inline) = 1 BY DEF Inline
    <2>4. 1 \in 1 .. Len(Inline) BY <2>1
    <2>2. Inline[1] = "" BY DEF Inline
    <2>3. Inline[1] \in DOMAIN Words BY <2>4, ElementOfSeq
    <2> QED BY <2>2, <2>3, RoutesAssumption
  <1>2. Patterns \subseteq Spelled BY RoutesAssumption DEF Spelled
  <1>3. << >> \in Spelled BY EmptySeq DEF Spelled
  <1> QED BY <1>1, <1>2, <1>3

LEMMA LinkSpelled ==
  ASSUME NEW link \in Patterns \union {Inline, << >>}, link # Inline
  PROVE  link \in Spelled
  BY RoutesAssumption, EmptySeq DEF Spelled

LEMMA ChildFacts ==
  ASSUME Declared, NEW n \in NodeType, n.group \in Groups,
         NEW i \in DOMAIN tree[n.group].children
  PROVE  LET c == Child(n, i)
             link == tree[n.group].children[i]
         IN  /\ i \in Place
             /\ link \in Links
             /\ GuardsOf(link.node) \in Chains
             /\ c \in NodeType
             /\ c.at = Append(n.at, i) /\ c.group = link.node /\ c.link = link.pattern
             /\ c.prefix = JoinPattern(n.prefix, link.pattern)
             /\ c.chain = n.chain \o GuardsOf(link.node)
             /\ c.link = Inline =>
                    /\ c.router = n.router /\ c.inline = n.inline \o GuardsOf(link.node)
                    /\ c.outer = n.outer /\ c.prefix = n.prefix
             /\ c.link # Inline =>
                    /\ c.router = c.at /\ c.inline = << >>
                    /\ c.outer.router = n.router /\ c.outer.guards = n.inline
                    /\ c.prefix = n.prefix \o c.link /\ c.link \in Spelled
  <1> DEFINE c == Child(n, i)
             link == tree[n.group].children[i]
             kids == tree[n.group].children
  <1>1. kids \in Seq(Links) BY DEF Declared
  <1>2. DOMAIN kids = 1 .. Len(kids) /\ Len(kids) \in Nat BY <1>1, LenProperties
  <1>3. i \in Place BY <1>2 DEF Place
  <1>4. link \in Links BY <1>1, <1>2, ElementOfSeq
  <1>5. GuardsOf(link.node) \in Chains BY <1>4, GuardsOfChains DEF Links
  <1>6. /\ c.at = Append(n.at, i) /\ c.group = link.node /\ c.link = link.pattern
        /\ c.prefix = JoinPattern(n.prefix, link.pattern)
        /\ c.chain = n.chain \o GuardsOf(link.node)
        /\ c.above = n.above \union {n.group}
    BY DEF Child
  <1>7. c.link = Inline =>
            /\ c.router = n.router /\ c.inline = n.inline \o GuardsOf(link.node)
            /\ c.outer = n.outer /\ c.prefix = n.prefix
    BY DEF Child, JoinPattern
  <1>8. c.link # Inline =>
            /\ c.router = c.at /\ c.inline = << >>
            /\ c.outer.router = n.router /\ c.outer.guards = n.inline
            /\ c.prefix = n.prefix \o c.link
    BY DEF Child, JoinPattern
  <1>9. c.link # Inline => c.link \in Spelled
    <2>1. link.pattern \in Patterns \union {Inline, << >>} BY <1>4 DEF Links
    <2> QED BY <1>6, <2>1, LinkSpelled
  <1>10. c \in NodeType
    <2>1. c = [at |-> c.at, group |-> c.group, above |-> c.above, link |-> c.link,
               prefix |-> c.prefix, chain |-> c.chain, router |-> c.router,
               inline |-> c.inline, outer |-> c.outer]
      BY DEF Child
    <2>2. c.at \in Seq(Place) BY <1>3, <1>6, AppendProperties DEF NodeType
    <2>3. c.group \in Groups \union {Nil} /\ c.link \in Patterns \union {Inline, << >>}
      BY <1>4, <1>6 DEF Links
    <2>4. c.above \in SUBSET Groups BY <1>6 DEF NodeType
    <2>5. c.chain \in Chains BY <1>5, <1>6, ConcatProperties DEF NodeType, Chains
    <2>6. c.prefix \in Spelled /\ c.inline \in Chains /\ c.router \in Seq(Place)
          /\ c.outer \in [router : Seq(Place), guards : Chains]
      <3>1. CASE c.link = Inline
        <4>1. n.prefix \in Spelled /\ n.inline \in Chains /\ n.router \in Seq(Place)
              /\ n.outer \in [router : Seq(Place), guards : Chains]
          BY DEF NodeType
        <4>2. n.inline \o GuardsOf(link.node) \in Chains
          BY <1>5, <4>1, ConcatProperties DEF Chains
        <4> QED BY <3>1, <1>7, <4>1, <4>2
      <3>2. CASE c.link # Inline
        <4>1. c.prefix \in Spelled
          <5>1. n.prefix \in Spelled BY DEF NodeType
          <5> QED BY <3>2, <1>8, <1>9, <5>1, ConcatProperties DEF Spelled
        <4>2. c.inline \in Chains BY <3>2, <1>8, EmptySeq DEF Chains
        <4>3. c.router \in Seq(Place) BY <3>2, <1>8, <2>2
        <4>4. n.router \in Seq(Place) /\ n.inline \in Chains BY DEF NodeType
        <4>5. c.outer \in [router : Seq(Place), guards : Chains]
          <5>1. c.outer = [router |-> n.router, guards |-> n.inline] BY <3>2, <1>6 DEF Child
          <5> QED BY <4>4, <5>1
        <4> QED BY <4>1, <4>2, <4>3, <4>5
      <3> QED BY <3>1, <3>2
    <2> HIDE DEF c
    <2>7. [at |-> c.at, group |-> c.group, above |-> c.above, link |-> c.link,
           prefix |-> c.prefix, chain |-> c.chain, router |-> c.router,
           inline |-> c.inline, outer |-> c.outer] \in NodeType
      BY <2>2, <2>3, <2>4, <2>5, <2>6 DEF NodeType
    <2> QED BY <2>1, <2>7
  <1> HIDE DEF c, link
  <1>11. /\ i \in Place
         /\ link \in Links
         /\ GuardsOf(link.node) \in Chains
         /\ c \in NodeType
         /\ c.at = Append(n.at, i) /\ c.group = link.node /\ c.link = link.pattern
         /\ c.prefix = JoinPattern(n.prefix, link.pattern)
         /\ c.chain = n.chain \o GuardsOf(link.node)
         /\ c.link = Inline =>
                /\ c.router = n.router /\ c.inline = n.inline \o GuardsOf(link.node)
                /\ c.outer = n.outer /\ c.prefix = n.prefix
         /\ c.link # Inline =>
                /\ c.router = c.at /\ c.inline = << >>
                /\ c.outer.router = n.router /\ c.outer.guards = n.inline
                /\ c.prefix = n.prefix \o c.link /\ c.link \in Spelled
    BY <1>3, <1>4, <1>5, <1>6, <1>7, <1>8, <1>9, <1>10
  <1> QED BY <1>11 DEF c, link

-----------------------------------------------------------------------------
(* A step of pass 1 keeps the shape of the tree.                            *)

LEMMA ChildPlace ==
  ASSUME Declared, NEW S, NEW L, NEW E, Shape(S, L, E), L \subseteq S,
         NEW n \in L, n.group \in Groups, NEW i \in DOMAIN tree[n.group].children
  PROVE  LET c == Child(n, i)
         IN  /\ n \in NodeType /\ c \in NodeType /\ S \subseteq NodeType
             /\ Extends(c.at, n.at) /\ c.at # n.at /\ c.at # << >>
             /\ Len(c.at) = Len(n.at) + 1 /\ c.at[Len(n.at) + 1] = i
             /\ \A y \in S : ~Extends(y.at, c.at)
             /\ \A y \in S : Extends(c.at, y.at) <=> Extends(n.at, y.at)
  <1> DEFINE c == Child(n, i)
  <1>1. n \in NodeType /\ S \subseteq NodeType BY DEF Shape
  <1>2. c \in NodeType /\ c.at = Append(n.at, i) /\ i \in Place BY <1>1, ChildFacts
  <1> HIDE DEF c
  <1>3. n.at \in Seq(Place) /\ c.at \in Seq(Place)
        /\ \A y \in S : y.at \in Seq(Place)
    BY <1>1, <1>2 DEF NodeType
  <1>4. /\ Extends(c.at, n.at) /\ c.at # n.at /\ ~Extends(n.at, c.at)
        /\ Len(c.at) = Len(n.at) + 1 /\ c.at[Len(n.at) + 1] = i
    BY <1>2, <1>3, ExtendsAppend
  <1>5. c.at # << >> BY <1>2, <1>3, AppendProperties
  <1>6. ASSUME NEW y \in S PROVE ~Extends(y.at, c.at)
    <2> SUFFICES ASSUME Extends(y.at, c.at) PROVE FALSE OBVIOUS
    <2>1. Extends(y.at, n.at) BY <1>3, <1>4, ExtendsTransitive
    <2>2. y = n BY <2>1 DEF Shape
    <2> QED BY <1>4, <2>2
  <1>7. ASSUME NEW y \in S PROVE Extends(c.at, y.at) <=> Extends(n.at, y.at)
    <2>1. ASSUME Extends(c.at, y.at) PROVE Extends(n.at, y.at)
      <3>1. y.at # c.at BY <1>3, <1>6, ExtendsItself
      <3> QED BY <1>2, <1>3, <2>1, <3>1, ExtendsBefore
    <2>2. ASSUME Extends(n.at, y.at) PROVE Extends(c.at, y.at)
      BY <1>3, <1>4, <2>2, ExtendsTransitive
    <2> QED BY <2>1, <2>2
  <1>8. /\ n \in NodeType /\ c \in NodeType /\ S \subseteq NodeType
        /\ Extends(c.at, n.at) /\ c.at # n.at /\ c.at # << >>
        /\ Len(c.at) = Len(n.at) + 1 /\ c.at[Len(n.at) + 1] = i
        /\ \A y \in S : ~Extends(y.at, c.at)
        /\ \A y \in S : Extends(c.at, y.at) <=> Extends(n.at, y.at)
    BY <1>1, <1>2, <1>4, <1>5, <1>6, <1>7
  <1> QED BY <1>8 DEF c

LEMMA ChildServed ==
  ASSUME Declared, NEW S, NEW L, NEW E, Shape(S, L, E), L \subseteq S,
         NEW n \in L, n.group \in Groups, NEW i \in DOMAIN tree[n.group].children
  PROVE  \E x \in S \union {Child(n, i)} : Serves(x, Child(n, i))
  <1> DEFINE c == Child(n, i)
             own == GuardsOf(tree[n.group].children[i].node)
  <1>1. /\ n \in NodeType /\ c \in NodeType /\ S \subseteq NodeType
        /\ \A y \in S : Extends(c.at, y.at) <=> Extends(n.at, y.at)
    BY ChildPlace
  <1>2. /\ own \in Chains
        /\ c.chain = n.chain \o own
        /\ c.link = Inline =>
                /\ c.router = n.router /\ c.inline = n.inline \o own /\ c.prefix = n.prefix
        /\ c.link # Inline => c.router = c.at /\ c.inline = << >>
    BY <1>1, ChildFacts
  <1> HIDE DEF c, own
  <1>3. c.chain \in Chains /\ c.at \in Seq(Place) /\ n.inline \in Chains BY <1>1 DEF NodeType
  <1>4. CASE c.link = Inline
    <2>1. PICK x \in S : Serves(x, n) BY DEF Shape
    <2>2. x.chain \in Chains BY <1>1 DEF NodeType
    <2>3. c.chain = x.chain \o c.inline
      <3>1. c.chain = (x.chain \o n.inline) \o own BY <1>2, <2>1 DEF Serves
      <3>2. (x.chain \o n.inline) \o own = x.chain \o (n.inline \o own)
        <4>1. x.chain \in Seq(Guards) /\ n.inline \in Seq(Guards) /\ own \in Seq(Guards)
          BY <1>2, <1>3, <2>2 DEF Chains
        <4> QED BY <4>1, ChainsAssociate
      <3> QED BY <3>1, <3>2, <1>2, <1>4
    <2>4. Serves(x, c) BY <1>1, <1>2, <1>4, <2>1, <2>3 DEF Serves
    <2> QED BY <2>4 DEF c
  <1>5. CASE c.link # Inline
    <2>1. c.chain = c.chain \o c.inline BY <1>2, <1>3, <1>5, ConcatEmptySeq DEF Chains
    <2>2. Extends(c.at, c.at) BY <1>3, ExtendsItself
    <2>3. Serves(c, c) BY <1>2, <1>5, <2>1, <2>2 DEF Serves, IsRouter
    <2> QED BY <2>3 DEF c
  <1> QED BY <1>4, <1>5

LEMMA ChildHeld ==
  ASSUME Declared, NEW S, NEW L, NEW E, Shape(S, L, E), L \subseteq S,
         NEW n \in L, n.group \in Groups, NEW i \in DOMAIN tree[n.group].children,
         Child(n, i).link # Inline
  PROVE  Child(n, i).router = Child(n, i).at /\ \E x \in S : Holds(x, Child(n, i))
  <1> DEFINE c == Child(n, i)
             own == GuardsOf(tree[n.group].children[i].node)
  <1>1. /\ n \in NodeType /\ c \in NodeType /\ S \subseteq NodeType
        /\ \A y \in S : ~Extends(y.at, c.at)
        /\ \A y \in S : Extends(c.at, y.at) <=> Extends(n.at, y.at)
    BY ChildPlace
  <1>2. /\ own \in Chains
        /\ c.chain = n.chain \o own
        /\ own = GuardsOf(c.group)
        /\ c.link # Inline => /\ c.router = c.at
                              /\ c.outer.router = n.router /\ c.outer.guards = n.inline
                              /\ c.prefix = n.prefix \o c.link
    BY <1>1, ChildFacts
  <1> HIDE DEF c, own
  <1>3. c.link # Inline BY DEF c
  <1>4. PICK x \in S : Serves(x, n) BY DEF Shape
  <1>5. c.at # x.at
    <2>1. x.at \in Seq(Place) BY <1>1 DEF NodeType
    <2> QED BY <1>1, <2>1, ExtendsItself
  <1>7. Holds(x, c) BY <1>1, <1>2, <1>3, <1>4, <1>5 DEF Holds, Serves
  <1> QED BY <1>2, <1>3, <1>7 DEF c

LEMMA InheritsMore ==
  ASSUME NEW n, NEW y, NEW S, NEW T, S \subseteq T, Inherits(n, y, S)
  PROVE  Inherits(n, y, T)
  BY DEF Inherits

LEMMA ChildInherits ==
  ASSUME Declared, NEW S, NEW L, NEW E, Shape(S, L, E), L \subseteq S,
         NEW n \in L, n.group \in Groups, NEW i \in DOMAIN tree[n.group].children,
         NEW y \in S \union {Child(n, i)}, Extends(Child(n, i).at, y.at)
  PROVE  Inherits(Child(n, i), y, S \union {Child(n, i)})
  <1> DEFINE c == Child(n, i)
             own == GuardsOf(tree[n.group].children[i].node)
  <1>1. /\ n \in NodeType /\ c \in NodeType /\ S \subseteq NodeType
        /\ Extends(c.at, n.at) /\ c.at # << >>
        /\ \A z \in S : ~Extends(z.at, c.at)
        /\ \A z \in S : Extends(c.at, z.at) <=> Extends(n.at, z.at)
    BY ChildPlace
  <1>2. /\ own \in Chains
        /\ c.chain = n.chain \o own
        /\ c.link = Inline => c.router = n.router /\ c.prefix = n.prefix
        /\ c.link # Inline => /\ c.router = c.at
                              /\ c.outer.router = n.router /\ c.outer.guards = n.inline
                              /\ c.prefix = n.prefix \o c.link /\ c.link \in Spelled
    BY <1>1, ChildFacts
  <1> HIDE DEF c, own
  <1>3. y \in NodeType /\ Extends(c.at, y.at) BY <1>1 DEF c
  <1>4. /\ c.chain \in Chains /\ c.prefix \in Spelled /\ c.router \in Seq(Place)
        /\ c.at \in Seq(Place) /\ n.chain \in Chains /\ n.prefix \in Spelled
        /\ n.router \in Seq(Place) /\ n.at \in Seq(Place)
        /\ y.chain \in Chains /\ y.prefix \in Spelled /\ y.at \in Seq(Place)
    BY <1>1, <1>3 DEF NodeType
  <1>5. CASE y = c
    <2>1. Extends(c.chain, c.chain) /\ Extends(c.prefix, c.prefix) /\ Extends(c.router, c.router)
      BY <1>4, ExtendsItself DEF Chains, Spelled
    <2>2. Inherits(c, c, S \union {c}) BY <2>1 DEF Inherits
    <2> QED BY <1>5, <2>2 DEF c
  <1>6. CASE y # c
    <2>1. y \in S /\ Extends(n.at, y.at) BY <1>1, <1>3, <1>6 DEF c
    <2>2. n \in S /\ Inherits(n, y, S) BY <2>1 DEF Shape
    <2>3. Extends(c.chain, y.chain)
      <3>1. Extends(c.chain, n.chain) BY <1>2, <1>4, ExtendsConcat DEF Chains
      <3>2. Extends(n.chain, y.chain) BY <2>2 DEF Inherits
      <3> QED BY <1>4, <3>1, <3>2, ExtendsTransitive DEF Chains
    <2>4. Extends(c.prefix, y.prefix)
      <3>1. Extends(c.prefix, n.prefix)
        <4>1. CASE c.link = Inline BY <4>1, <1>2, <1>4, ExtendsItself DEF Spelled
        <4>2. CASE c.link # Inline
          <5>1. n.prefix \in Seq(DOMAIN Words) /\ c.link \in Seq(DOMAIN Words)
            BY <4>2, <1>2, <1>4 DEF Spelled
          <5>2. Extends(n.prefix \o c.link, n.prefix) BY <5>1, ExtendsConcat
          <5> QED BY <4>2, <1>2, <5>2
        <4> QED BY <4>1, <4>2
      <3>2. Extends(n.prefix, y.prefix) BY <2>2 DEF Inherits
      <3> QED BY <1>4, <3>1, <3>2, ExtendsTransitive DEF Spelled
    <2>5. CASE c.link = Inline
      <3>1. Len(c.router) <= Len(y.at) => y.router = c.router BY <1>2, <2>2, <2>5 DEF Inherits
      <3>2. ASSUME y.router = y.at
            PROVE  /\ Extends(c.router, y.at)
                   /\ c.router # y.at => 
                        \E m \in S \union {c} :
                            /\ m.link # Inline /\ m.at # << >>
                            /\ m.outer.router = y.at /\ Extends(c.at, m.at)
        BY <1>1, <1>2, <2>2, <2>5, <3>2 DEF Inherits
      <3>3. Inherits(c, y, S \union {c}) BY <2>3, <2>4, <3>1, <3>2 DEF Inherits
      <3> QED BY <3>3 DEF c
    <2>6. CASE c.link # Inline
      <3>1. ~(Len(c.router) <= Len(y.at))
        <4>1. c.router = c.at BY <1>2, <2>6
        <4>2. Len(c.at) <= Len(y.at) => c.at = y.at BY <1>3, <1>4, ExtendsSame
        <4>3. c.at # y.at BY <1>1, <2>1, <1>4, ExtendsItself
        <4> QED BY <4>1, <4>2, <4>3
      <3>2. ASSUME y.router = y.at
            PROVE  /\ Extends(c.router, y.at)
                   /\ \E m \in S \union {c} :
                            /\ m.link # Inline /\ m.at # << >>
                            /\ m.outer.router = y.at /\ Extends(c.at, m.at)
        <4>1. Extends(c.router, y.at) BY <1>2, <1>3, <2>6
        <4>2. CASE n.router = y.at
          <5>1. c.outer.router = y.at BY <1>2, <2>6, <4>2
          <5>2. Extends(c.at, c.at) BY <1>4, ExtendsItself
          <5> QED BY <4>1, <5>1, <5>2, <1>1, <2>6
        <4>3. CASE n.router # y.at
          <5>1. PICK m \in S : /\ m.link # Inline /\ m.at # << >>
                               /\ m.outer.router = y.at /\ Extends(n.at, m.at)
            BY <2>2, <3>2, <4>3 DEF Inherits
          <5> QED BY <4>1, <5>1, <1>1
        <4> QED BY <4>2, <4>3
      <3>3. Inherits(c, y, S \union {c}) BY <2>3, <2>4, <3>1, <3>2 DEF Inherits
      <3> QED BY <3>3 DEF c
    <2> QED BY <2>5, <2>6
  <1> QED BY <1>5, <1>6

LEMMA ChildParts ==
  ASSUME Declared, NEW S, NEW L, NEW E, Shape(S, L, E), L \subseteq S,
         NEW n \in L, n.group \in Groups, NEW i \in DOMAIN tree[n.group].children,
         NEW s \in S
  PROVE  \E y \in S : Parts(y, Child(n, i), s) /\ Parts(y, s, Child(n, i))
  <1> DEFINE c == Child(n, i)
  <1>1. /\ n \in NodeType /\ c \in NodeType /\ S \subseteq NodeType
        /\ Extends(c.at, n.at) /\ Len(c.at) = Len(n.at) + 1
        /\ \A z \in S : Extends(c.at, z.at) <=> Extends(n.at, z.at)
    BY ChildPlace
  <1> HIDE DEF c
  <1>2. PICK y \in S : Parts(y, n, s) BY DEF Shape
  <1>3. y.at \in Seq(Place) /\ n.at \in Seq(Place) BY <1>1 DEF NodeType
  <1>4. Extends(c.at, y.at) /\ Extends(s.at, y.at) BY <1>1, <1>2 DEF Parts
  <1>5. s.at = y.at \/ c.at[Len(y.at) + 1] # s.at[Len(y.at) + 1]
    <2>1. CASE n.at = y.at
      <3>1. s = n BY <2>1, <1>4 DEF Shape
      <3> QED BY <2>1, <3>1
    <2>2. CASE n.at # y.at /\ s.at # y.at
      <3>1. n.at[Len(y.at) + 1] # s.at[Len(y.at) + 1] BY <1>2, <2>2 DEF Parts
      <3>2. ~(Len(n.at) <= Len(y.at))
        <4>1. Extends(n.at, y.at) BY <1>2 DEF Parts
        <4> QED BY <1>3, <2>2, <4>1, ExtendsSame
      <3>3. Len(y.at) + 1 \in 1 .. Len(n.at) BY <3>2, <1>3, LenProperties
      <3>4. c.at[Len(y.at) + 1] = n.at[Len(y.at) + 1] BY <3>3, <1>1 DEF Extends
      <3> QED BY <3>1, <3>4
    <2> QED BY <2>1, <2>2
  <1>6. Parts(y, c, s) /\ Parts(y, s, c) BY <1>4, <1>5 DEF Parts
  <1> QED BY <1>6 DEF c

LEMMA Grows ==
  ASSUME Declared, NEW S, NEW L, NEW E, Shape(S, L, E), L \subseteq S, NEW n \in L
  PROVE  Shape(S \union Children(n), (L \ {n}) \union Children(n), E \union {n})
  <1> DEFINE K == Children(n)
  <1>1. n \in S /\ n \in NodeType /\ S \subseteq NodeType BY DEF Shape
  <1>2. ASSUME NEW c \in K
        PROVE  /\ n.group \in Groups
               /\ \E i \in DOMAIN tree[n.group].children : c = Child(n, i)
    BY <1>1 DEF Children, Entered, NodeType
  <1>3. ASSUME NEW c \in K
        PROVE  /\ c \in NodeType /\ c.at \in Seq(Place)
               /\ Extends(c.at, n.at) /\ c.at # n.at /\ c.at # << >> /\ Len(c.at) = Len(n.at) + 1
               /\ \A y \in S : ~Extends(y.at, c.at)
               /\ \A y \in S : Extends(c.at, y.at) <=> Extends(n.at, y.at)
    BY <1>2, <1>3, ChildPlace DEF NodeType
  <1>4. ASSUME NEW c \in K, NEW d \in K, c.at[Len(n.at) + 1] = d.at[Len(n.at) + 1]
        PROVE  c = d
    BY <1>2, <1>4, ChildPlace
  <1>5. ASSUME NEW c \in K, NEW d \in K, Extends(c.at, d.at)
        PROVE  c = d
    <2>1. c.at = d.at
      <3>1. Len(c.at) <= Len(d.at) BY <1>3, LenProperties
      <3> QED BY <3>1, <1>3, <1>5, ExtendsSame
    <2> QED BY <2>1, <1>4
  <1>6. S \union K \subseteq NodeType BY <1>1, <1>3
  <1>7. RootNode \in S \union K BY DEF Shape
  <1>8. \A m \in S \union K : Descends(m, E \union {n})
    <2>1. ASSUME NEW m \in S PROVE Descends(m, E \union {n})
      <3>1. Descends(m, E) BY DEF Shape
      <3> QED BY <3>1 DEF Descends
    <2>2. ASSUME NEW c \in K PROVE Descends(c, E \union {n}) BY DEF Descends
    <2> QED BY <2>1, <2>2
  <1> HIDE DEF K
  <1>9. \A p \in S \union K : \A q \in S \union K : p.at = q.at => p = q
    <2>1. \A p \in S : \A q \in S : p.at = q.at => p = q BY DEF Shape
    <2>2. \A p \in S : \A c \in K : p.at # c.at BY <1>3, ExtendsItself
    <2>3. \A c \in K : \A d \in K : c.at = d.at => c = d BY <1>4
    <2> QED BY <2>1, <2>2, <2>3
  <1>10. \A w \in (L \ {n}) \union K : \A q \in S \union K : Extends(q.at, w.at) => q = w
    <2>1. \A w \in L \ {n} : \A q \in S : Extends(q.at, w.at) => q = w BY DEF Shape
    <2>2. ASSUME NEW w \in L \ {n}, NEW c \in K, Extends(c.at, w.at) PROVE FALSE
      <3>1. Extends(n.at, w.at) BY <1>3, <2>2
      <3> QED BY <2>1, <3>1, <1>1
    <2> QED BY <2>1, <2>2, <1>3, <1>5
  <1>11. \A q \in S \union K : \E x \in S \union K : Serves(x, q)
    <2>1. \A q \in S : \E x \in S : Serves(x, q) BY DEF Shape
    <2>2. ASSUME NEW c \in K PROVE \E x \in S \union K : Serves(x, c)
      <3>1. \E x \in S \union {c} : Serves(x, c) BY <1>2, ChildServed DEF K
      <3> QED BY <3>1
    <2> QED BY <2>1, <2>2
  <1>12. \A q \in S \union K : q.link # Inline /\ q.at # << >> =>
             q.router = q.at /\ \E x \in S \union K : Holds(x, q)
    <2>1. \A q \in S : q.link # Inline /\ q.at # << >> =>
              q.router = q.at /\ \E x \in S : Holds(x, q)
      BY DEF Shape
    <2>2. ASSUME NEW c \in K, c.link # Inline
          PROVE  c.router = c.at /\ \E x \in S : Holds(x, c)
      BY <1>2, <2>2, ChildHeld DEF K
    <2> QED BY <2>1, <2>2
  <1>13. \A q \in S \union K : \A y \in S \union K :
             Extends(q.at, y.at) => Inherits(q, y, S \union K)
    <2>1. ASSUME NEW q \in S, NEW y \in S, Extends(q.at, y.at)
          PROVE  Inherits(q, y, S \union K)
      <3>1. Inherits(q, y, S) BY <2>1 DEF Shape
      <3> QED BY <3>1, InheritsMore
    <2>2. ASSUME NEW c \in K, NEW y \in S \union {c}, Extends(c.at, y.at)
          PROVE  Inherits(c, y, S \union K)
      <3>1. Inherits(c, y, S \union {c}) BY <1>2, <2>2, ChildInherits DEF K
      <3>2. S \union {c} \subseteq S \union K OBVIOUS
      <3> QED BY <3>1, <3>2, InheritsMore
    <2> QED BY <2>1, <2>2, <1>3, <1>5
  <1>14. \A p \in S \union K : \A q \in S \union K : \E y \in S \union K : Parts(y, p, q)
    <2>1. \A p \in S : \A q \in S : \E y \in S : Parts(y, p, q) BY DEF Shape
    <2>2. ASSUME NEW c \in K, NEW s \in S PROVE \E y \in S : Parts(y, c, s) /\ Parts(y, s, c)
      BY <1>2, ChildParts DEF K
    <2>3. ASSUME NEW c \in K, NEW d \in K PROVE \E y \in S \union K : Parts(y, c, d)
      <3>1. CASE c = d
        <4>1. Extends(c.at, c.at) BY <1>3, ExtendsItself
        <4>2. Parts(c, c, d) BY <3>1, <4>1 DEF Parts
        <4> QED BY <4>2
      <3>2. CASE c # d
        <4>1. c.at[Len(n.at) + 1] # d.at[Len(n.at) + 1] BY <3>2, <1>4
        <4>2. Parts(n, c, d) BY <4>1, <1>3 DEF Parts
        <4> QED BY <4>2, <1>1
      <3> QED BY <3>1, <3>2
    <2> QED BY <2>1, <2>2, <2>3
  <1> QED BY <1>6, <1>7, <1>8, <1>9, <1>10, <1>11, <1>12, <1>13, <1>14 DEF Shape, K

LEMMA RootShape ==
  ASSUME Declared
  PROVE  Shape({RootNode}, {RootNode}, {})
  <1>1. GuardsOf(Root) \in Chains BY GuardsOfChains, RoutesAssumption
  <1>2. /\ RootNode.at = << >> /\ RootNode.router = << >> /\ RootNode.link = << >>
        /\ RootNode.chain = GuardsOf(Root) /\ RootNode.inline = << >> /\ RootNode.prefix = << >>
    BY DEF RootNode
  <1>3. << >> \in Seq(Place) /\ << >> \in Chains /\ << >> \in Spelled
    BY EmptySeq DEF Chains, Spelled
  <1>4. RootNode \in NodeType
    BY <1>1, <1>3, RoutesAssumption DEF RootNode, NodeType
  <1>5. Extends(RootNode.at, RootNode.at) /\ Extends(RootNode.chain, RootNode.chain)
        /\ Extends(RootNode.prefix, RootNode.prefix)
    BY <1>1, <1>2, <1>3, ExtendsItself DEF Chains, Spelled
  <1>6. Serves(RootNode, RootNode)
    <2>1. RootNode.chain = RootNode.chain \o RootNode.inline
      BY <1>1, <1>2, ConcatEmptySeq DEF Chains
    <2> QED BY <2>1, <1>2, <1>5, InlineIsNoPath DEF Serves, IsRouter
  <1>7. Inherits(RootNode, RootNode, {RootNode}) BY <1>2, <1>5 DEF Inherits
  <1>8. Parts(RootNode, RootNode, RootNode) BY <1>5 DEF Parts
  <1>9. Descends(RootNode, {}) BY DEF Descends
  <1> QED BY <1>2, <1>4, <1>6, <1>7, <1>8, <1>9 DEF Shape

-----------------------------------------------------------------------------
(* What a step that leaves the tree alone leaves alone.                     *)

LEMMA SameTree ==
  ASSUME tree' = tree
  PROVE  /\ \A g : GuardsOf(g)' = GuardsOf(g)
         /\ \A n, i : Child(n, i)' = Child(n, i)
         /\ \A n : Children(n)' = Children(n)
         /\ RootNode' = RootNode
         /\ \A S, L, E : Shape(S, L, E)' <=> Shape(S, L, E)
  <1>1. ASSUME NEW g PROVE GuardsOf(g)' = GuardsOf(g) BY DEF GuardsOf
  <1>2. ASSUME NEW n, NEW i PROVE Child(n, i)' = Child(n, i) BY <1>1 DEF Child
  <1>3. ASSUME NEW n PROVE Children(n)' = Children(n) BY <1>2 DEF Children
  <1>4. RootNode' = RootNode BY <1>1 DEF RootNode
  <1>5. ASSUME NEW n, NEW E PROVE Descends(n, E)' <=> Descends(n, E) BY <1>3, <1>4 DEF Descends
  <1>6. ASSUME NEW x, NEW n PROVE Holds(x, n)' <=> Holds(x, n) BY <1>1 DEF Holds
  <1>7. ASSUME NEW S, NEW L, NEW E PROVE Shape(S, L, E)' <=> Shape(S, L, E)
    BY <1>4, <1>5, <1>6 DEF Shape
  <1> QED BY <1>1, <1>2, <1>3, <1>4, <1>7

LEMMA SameNodes ==
  ASSUME tree' = tree, nodes' = nodes
  PROVE  /\ Operations' = Operations
         /\ InfraRoutes' = InfraRoutes
         /\ \A n : ChildTopologyConflict(n)' <=> ChildTopologyConflict(n)
  <1>1. Operations' = Operations BY DEF Operations, Operation
  <1>2. InfraRoutes' = InfraRoutes BY DEF InfraRoutes, InfraRoute
  <1>3. \A n : PeerMounts(n)' = PeerMounts(n) BY DEF PeerMounts
  <1>4. \A n : PeerRoutes(n)' = PeerRoutes(n) BY DEF PeerRoutes, Flattened
  <1>5. \A n : ChildTopologyConflict(n)' <=> ChildTopologyConflict(n)
    BY <1>3, <1>4 DEF ChildTopologyConflict
  <1> QED BY <1>1, <1>2, <1>5

LEMMA SameViolations ==
  ASSUME tree' = tree, nodes' = nodes, attached' = attached
  PROVE  Violations' <=> Violations
  <1>1. \A a, b : InvalidDeclaration(a, b)' <=> InvalidDeclaration(a, b) BY DEF InvalidDeclaration
  <1> QED BY <1>1, SameNodes DEF Violations

-----------------------------------------------------------------------------
(* What Build has refused.                                                  *)

LEMMA AllEntered ==
  ASSUME ~Violations, Declared, Shape(nodes, {}, nodes)
  PROVE  /\ \A n \in nodes : Entered(n) /\ n.group \in Groups
         /\ \A n \in nodes : GuardsOf(n.group) = tree[n.group].guards
         /\ \A n \in nodes : ~RepeatsParameter(n.link) \/ n.link = Inline
         /\ \A n \in nodes : \A k \in DOMAIN tree[n.group].endpoints :
                /\ Valid(tree[n.group].endpoints[k].guards) = tree[n.group].endpoints[k].guards
                /\ ValidRequirement(tree[n.group].endpoints[k].security)
         /\ \A o \in Operations \union InfraRoutes : ~RepeatsParameter(o.path)
         /\ \A n \in nodes : ~ChildTopologyConflict(n)
         /\ ~UnboundParameter(Operations)
         /\ ~DuplicateRoute(Operations, InfraRoutes)
  <1>1. /\ ~InvalidDeclaration(Operations, InfraRoutes)
        /\ \A n \in {m \in nodes : Entered(m)} : ~ChildTopologyConflict(n)
        /\ ~UnboundParameter(Operations)
        /\ ~DuplicateRoute(Operations, InfraRoutes)
    BY DEF Violations
  <1>2. \A n \in nodes : Entered(n) BY <1>1 DEF InvalidDeclaration
  <1>3. \A n \in nodes : n.group \in Groups /\ n.group # Nil
    BY <1>2 DEF Entered, Shape, NodeType
  <1>4. ASSUME NEW n \in nodes PROVE GuardsOf(n.group) = tree[n.group].guards
    <2>1. \A i \in DOMAIN tree[n.group].guards : tree[n.group].guards[i] # ZeroGuard
      BY <1>1, <1>2 DEF InvalidDeclaration
    <2> QED BY <2>1, <1>3 DEF GuardsOf, Valid
  <1>5. \A n \in nodes : ~RepeatsParameter(n.link) \/ n.link = Inline
    BY <1>1, <1>2 DEF InvalidDeclaration
  <1>6. ASSUME NEW n \in nodes, NEW k \in DOMAIN tree[n.group].endpoints
        PROVE  /\ Valid(tree[n.group].endpoints[k].guards) = tree[n.group].endpoints[k].guards
               /\ ValidRequirement(tree[n.group].endpoints[k].security)
    BY <1>1, <1>2 DEF InvalidDeclaration, Valid
  <1>7. \A o \in Operations \union InfraRoutes : ~RepeatsParameter(o.path)
    BY <1>1 DEF InvalidDeclaration
  <1> QED BY <1>1, <1>2, <1>3, <1>4, <1>5, <1>6, <1>7

LEMMA PeerOf ==
  ASSUME ~Violations, Declared, Shape(nodes, {}, nodes),
         NEW y \in nodes, NEW m \in Mounted,
         m.outer.router = y.router, Extends(m.at, y.at), m.at # y.at
  PROVE  m \in PeerMounts(y)
  <1>1. m \in nodes /\ m.link # Inline BY DEF Mounted
  <1>2. m.group # Nil /\ ~RepeatsParameter(m.link) BY <1>1, AllEntered DEF Entered
  <1> QED BY <1>1, <1>2 DEF PeerMounts

\* Two mounts on one router do not overlap.
LEMMA MountsApart ==
  ASSUME ~Violations, Declared, Shape(nodes, {}, nodes),
         NEW m \in Mounted, NEW n \in Mounted, m # n, m.outer.router = n.outer.router
  PROVE  ~MountPatternsOverlap(m.link, n.link)
  <1>1. m \in nodes /\ n \in nodes /\ m.link # Inline /\ n.link # Inline
        /\ m.at # << >> /\ n.at # << >>
    BY DEF Mounted
  <1>2. PICK x \in nodes : Holds(x, m) BY <1>1 DEF Shape
  <1>3. PICK z \in nodes : Holds(z, n) BY <1>1 DEF Shape
  <1>4. x.at = z.at BY <1>2, <1>3 DEF Holds
  <1>5. x = z BY <1>4 DEF Shape
  <1>6. m \in PeerMounts(x)
    <2>1. m.outer.router = x.router /\ Extends(m.at, x.at) /\ m.at # x.at
      BY <1>2 DEF Holds, IsRouter
    <2> QED BY <2>1, PeerOf
  <1>7. n \in PeerMounts(x)
    <2>1. n.outer.router = x.router /\ Extends(n.at, x.at) /\ n.at # x.at
      BY <1>3, <1>5 DEF Holds, IsRouter
    <2> QED BY <2>1, PeerOf
  <1>8. ~ChildTopologyConflict(x) BY AllEntered
  <1> QED BY <1>6, <1>7, <1>8 DEF ChildTopologyConflict

LEMMA LinkLength ==
  ASSUME NEW S, NEW L, NEW E, Shape(S, L, E), NEW n \in S, n.link # Inline
  PROVE  n.link \in Spelled /\ DOMAIN n.link = 1 .. Len(n.link) /\ Len(n.link) \in Nat
  <1>1. n.link \in Patterns \union {Inline, << >>} BY DEF Shape, NodeType
  <1>2. n.link \in Spelled BY <1>1, LinkSpelled
  <1> QED BY <1>2, LenProperties DEF Spelled

LEMMA NoPanic ==
  ASSUME ~Violations, Declared, Shape(nodes, {}, nodes)
  PROVE  ~MaterializePanics
  <1> SUFFICES ASSUME NEW m \in Mounted, NEW n \in Mounted, m # n,
                      m.outer.router = n.outer.router,
                      NormalizePath(m.link) = NormalizePath(n.link)
               PROVE  FALSE
    BY DEF MaterializePanics
  <1>1. /\ DOMAIN m.link = 1 .. Len(m.link) /\ Len(m.link) \in Nat
        /\ DOMAIN n.link = 1 .. Len(n.link) /\ Len(n.link) \in Nat
    BY LinkLength DEF Mounted
  <1>2. DOMAIN m.link = DOMAIN n.link BY DEF NormalizePath
  <1>3. Len(m.link) = Len(n.link) BY <1>1, <1>2
  <1>4. \A i \in DOMAIN m.link : m.link[i] = n.link[i] \/ Dynamic(m.link[i]) \/ Dynamic(n.link[i])
    BY <1>2 DEF NormalizePath
  <1>5. MountContainsRoutePattern(m.link, n.link)
    BY <1>1, <1>3, <1>4 DEF MountContainsRoutePattern
  <1> QED BY <1>5, MountsApart DEF MountPatternsOverlap

-----------------------------------------------------------------------------
(* The compiled tree.                                                       *)

LEMMA DeclareKeeps ==
  ASSUME Declared, Declaration
  PROVE  Declared'
  <1> DEFINE G == [guards : Seq(Guards \union {ZeroGuard}), children : Seq(Links),
                   endpoints : Seq(Endpoints), infra : Seq(Infra)]
  <1>1. PICK g \in Groups :
        \/ \E guard \in Guards \union {ZeroGuard} : Guard(g, guard)
        \/ \E endpoint \in Endpoints : Register(g, endpoint)
        \/ \E infra \in Infra : HandleInfra(g, infra)
        \/ \E pattern \in Patterns \union {Inline} : \E child \in Groups \union {Nil} :
               Mount(g, pattern, child)
    BY DEF Declaration
  <1>2. tree[g] \in G BY DEF Declared
  <1>3. CASE \E guard \in Guards \union {ZeroGuard} : Guard(g, guard)
    <2>1. PICK guard \in Guards \union {ZeroGuard} : Guard(g, guard) BY <1>3
    <2>2. Append(tree[g].guards, guard) \in Seq(Guards \union {ZeroGuard})
      BY <1>2, AppendProperties
    <2> QED BY <2>1, <2>2 DEF Guard, Declared
  <1>4. CASE \E endpoint \in Endpoints : Register(g, endpoint)
    <2>1. PICK endpoint \in Endpoints : Register(g, endpoint) BY <1>4
    <2>2. Append(tree[g].endpoints, endpoint) \in Seq(Endpoints) BY <1>2, AppendProperties
    <2> QED BY <2>1, <2>2 DEF Register, Declared
  <1>5. CASE \E infra \in Infra : HandleInfra(g, infra)
    <2>1. PICK infra \in Infra : HandleInfra(g, infra) BY <1>5
    <2>2. Append(tree[g].infra, infra) \in Seq(Infra) BY <1>2, AppendProperties
    <2> QED BY <2>1, <2>2 DEF HandleInfra, Declared
  <1>6. CASE \E pattern \in Patterns \union {Inline} : \E child \in Groups \union {Nil} :
               Mount(g, pattern, child)
    <2>1. PICK pattern \in Patterns \union {Inline}, child \in Groups \union {Nil} :
             Mount(g, pattern, child)
      BY <1>6
    <2>2. [pattern |-> pattern, node |-> child] \in Links BY DEF Links
    <2>3. Append(tree[g].children, [pattern |-> pattern, node |-> child]) \in Seq(Links)
      BY <1>2, <2>2, AppendProperties
    <2> QED BY <2>1, <2>3 DEF Mount, Declared
  <1> QED BY <1>1, <1>3, <1>4, <1>5, <1>6

CompiledInv == Declared /\ Compiled /\ CompileIsComplete

LEMMA CompiledStart == Init => CompiledInv
  <1> SUFFICES ASSUME Init PROVE CompiledInv OBVIOUS
  <1>1. Declared BY EmptySeq DEF Init, Declared
  <1>2. Compiled BY DEF Init, Compiled
  <1> QED BY <1>1, <1>2 DEF Init, CompiledInv, CompileIsComplete

LEMMA CompiledStep == CompiledInv /\ [Next]_routeVars => CompiledInv'
  <1> SUFFICES ASSUME CompiledInv, [Next]_routeVars PROVE CompiledInv' OBVIOUS
  <1> USE DEF CompiledInv
  <1>1. CASE Declaration
    <2>1. Declared' BY <1>1, DeclareKeeps
    <2>2. phase = "declaring" /\ phase' = phase /\ nodes' = nodes /\ work' = work
      BY <1>1 DEF Declaration, Guard, Register, HandleInfra, Mount, Declare
    <2> QED BY <2>1, <2>2 DEF Compiled, CompileIsComplete
  <1>2. CASE UNCHANGED <<tree, attached, phase, work, nodes, ops>>
    <2>1. Declared' BY <1>2 DEF Declared
    <2>2. Shape(nodes \union work, work, nodes)' <=> Shape(nodes \union work, work, nodes)
      BY <1>2, SameTree
    <2>3. (Violations' <=> Violations) /\ Operations' = Operations
      BY <1>2, SameNodes, SameViolations
    <2>4. Compiled' BY <1>2, <2>2, <2>3 DEF Compiled
    <2> QED BY <1>2, <2>1, <2>4 DEF CompileIsComplete
  <1>3. CASE Build
    <2>1. tree' = tree /\ nodes' = {} /\ work' = {RootNode} /\ phase' = "compiling"
      BY <1>3 DEF Build, Compiled
    <2>2. Shape({RootNode}, {RootNode}, {}) BY RootShape
    <2>3. nodes' \union work' = {RootNode} BY <2>1
    <2>4. Shape(nodes \union work, work, nodes)' BY <2>1, <2>2, <2>3, SameTree
    <2>5. Declared' BY <2>1 DEF Declared
    <2> QED BY <2>1, <2>4, <2>5 DEF Compiled, CompileIsComplete
  <1>4. ASSUME NEW n \in work, Node(n) PROVE CompiledInv'
    <2>1. /\ phase = "compiling" /\ tree' = tree /\ phase' = phase
          /\ nodes' = nodes \union {n} /\ work' = (work \ {n}) \union Children(n)
      BY <1>4 DEF Node
    <2>2. Shape(nodes \union work, work, nodes) BY <2>1 DEF Compiled
    <2>3. Shape((nodes \union work) \union Children(n), (work \ {n}) \union Children(n),
                nodes \union {n})
      BY <2>2, Grows
    <2>4. nodes' \union work' = (nodes \union work) \union Children(n) BY <2>1
    <2>5. Shape(nodes \union work, work, nodes)' BY <2>1, <2>3, <2>4, SameTree
    <2>6. Declared' BY <2>1 DEF Declared
    <2> QED BY <2>1, <2>5, <2>6 DEF Compiled, CompileIsComplete
  <1>5. CASE Materialize
    <2>1. phase = "compiling" /\ work = {} /\ work' = work /\ tree' = tree /\ attached' = attached
      BY <1>5 DEF Materialize
    <2>2. Shape(nodes, {}, nodes)
      <3>1. Shape(nodes \union work, work, nodes) BY <2>1 DEF Compiled
      <3>2. nodes \union work = nodes BY <2>1
      <3> QED BY <2>1, <3>1, <3>2
    <2>3. Declared' BY <2>1 DEF Declared
    <2>4. CASE Violations
      <3>1. phase' = "refused" BY <1>5, <2>4 DEF Materialize
      <3> QED BY <2>3, <3>1 DEF Compiled, CompileIsComplete
    <2>5. CASE ~Violations
      <3>1. ~MaterializePanics BY <2>2, <2>5, NoPanic
      <3>2. phase' = "built" /\ nodes' = nodes /\ ops' = Operations
        BY <1>5, <2>5, <3>1 DEF Materialize
      <3>3. (~Violations)' /\ ops' = Operations'
        BY <2>1, <2>5, <3>2, SameNodes, SameViolations
      <3>4. nodes' \union work' = nodes BY <2>1, <3>2
      <3>5. Shape(nodes \union work, work, nodes)' BY <2>1, <2>2, <3>2, <3>4, SameTree
      <3> QED BY <2>1, <2>3, <3>2, <3>3, <3>5 DEF Compiled, CompileIsComplete
    <2> QED BY <2>4, <2>5
  <1>6. CASE Serving
    BY <1>6, <1>2 DEF Serving, Arrive, Route
  <1> QED BY <1>1, <1>2, <1>3, <1>4, <1>5, <1>6 DEF Next, Compiling, routeVars

(* What Declare, Build and the compiler leave behind in every reachable     *)
(* state: declarations of the right kind, a compiled tree of the right      *)
(* Shape, and in an application none of the violations of pass 1.           *)
THEOREM AlwaysCompiled == Spec => []CompiledInv
  BY CompiledStart, CompiledStep, PTL DEF Spec

(* Pass 1 of Build (compiler.node and the validations after it) finds every *)
(* reason for which a chi router would panic in pass 2.                     *)
THEOREM CompileComplete == Spec => []CompileIsComplete
  <1>1. CompiledInv => CompileIsComplete BY DEF CompiledInv
  <1> QED BY <1>1, AlwaysCompiled, PTL

-----------------------------------------------------------------------------
(* Paths, patterns and prefixes.                                            *)

LEMMA UnderExtends ==
  ASSUME NEW long \in Spelled, NEW short \in Spelled, NEW path \in Seq(Segments),
         Extends(long, short), Under(long, path)
  PROVE  Under(short, path)
  <1>1. /\ Len(long) \in Nat /\ Len(short) \in Nat /\ Len(path) \in Nat
        /\ DOMAIN long = 1 .. Len(long) /\ DOMAIN short = 1 .. Len(short)
    BY LenProperties DEF Spelled
  <1>2. \A i \in 1 .. Len(short) : i \in 1 .. Len(long) /\ long[i] = short[i]
    BY <1>1 DEF Extends
  <1>3. Len(short) <= Len(path) BY <1>1 DEF Extends, Under
  <1> QED BY <1>1, <1>2, <1>3 DEF Under

LEMMA UnderSplit ==
  ASSUME NEW a \in Spelled, NEW b \in Spelled,
         NEW path \in Seq(Segments), NEW rest \in Seq(Segments),
         Under(a, path), Behind(a, path, rest)
  PROVE  /\ Under(a \o b, path) <=> Under(b, rest)
         /\ Len(a \o b) = Len(path) <=> Len(b) = Len(rest)
         /\ a \o b \in Spelled
  <1>1. /\ Len(a) \in Nat /\ Len(b) \in Nat /\ Len(path) \in Nat /\ Len(rest) \in Nat
        /\ DOMAIN a = 1 .. Len(a) /\ DOMAIN b = 1 .. Len(b) /\ DOMAIN rest = 1 .. Len(rest)
    BY LenProperties DEF Spelled
  <1>2. /\ a \o b \in Spelled /\ Len(a \o b) = Len(a) + Len(b)
        /\ \A i \in 1 .. Len(a) + Len(b) :
               (a \o b)[i] = IF i <= Len(a) THEN a[i] ELSE b[i - Len(a)]
    BY ConcatProperties DEF Spelled
  <1>3. DOMAIN (a \o b) = 1 .. Len(a) + Len(b) BY <1>2, LenProperties DEF Spelled
  <1>4. Len(rest) = Len(path) - Len(a) BY DEF Behind
  <1>5. ASSUME Under(a \o b, path) PROVE Under(b, rest)
    <2>1. Len(b) <= Len(rest) BY <1>1, <1>2, <1>4, <1>5 DEF Under
    <2>2. ASSUME NEW i \in DOMAIN b PROVE Dynamic(b[i]) \/ b[i] = rest[i]
      <3>1. i \in 1 .. Len(b) /\ Len(a) + i \in 1 .. Len(a) + Len(b) /\ i \in DOMAIN rest
            /\ ~(Len(a) + i <= Len(a)) /\ (Len(a) + i) - Len(a) = i
        BY <1>1, <2>1
      <3>2. (a \o b)[Len(a) + i] = b[i] BY <1>2, <3>1
      <3>3. Dynamic((a \o b)[Len(a) + i]) \/ (a \o b)[Len(a) + i] = path[Len(a) + i]
        BY <1>3, <1>5, <3>1 DEF Under
      <3>4. rest[i] = path[Len(a) + i] BY <3>1 DEF Behind
      <3> QED BY <3>2, <3>3, <3>4
    <2> QED BY <2>1, <2>2 DEF Under
  <1>6. ASSUME Under(b, rest) PROVE Under(a \o b, path)
    <2>1. Len(a \o b) <= Len(path) BY <1>1, <1>2, <1>4, <1>6 DEF Under
    <2>2. ASSUME NEW i \in 1 .. Len(a) + Len(b)
          PROVE  Dynamic((a \o b)[i]) \/ (a \o b)[i] = path[i]
      <3>1. CASE i <= Len(a)
        <4>1. i \in DOMAIN a BY <1>1, <3>1
        <4>2. (a \o b)[i] = a[i] BY <1>2, <3>1
        <4> QED BY <4>1, <4>2 DEF Under
      <3>2. CASE ~(i <= Len(a))
        <4> DEFINE j == i - Len(a)
        <4>1. j \in DOMAIN b /\ j \in DOMAIN rest /\ i = Len(a) + j
          BY <1>1, <1>4, <3>2, <1>6 DEF Under
        <4>2. (a \o b)[i] = b[j] BY <1>2, <3>2
        <4>3. rest[j] = path[i] BY <4>1 DEF Behind
        <4>4. Dynamic(b[j]) \/ b[j] = rest[j] BY <4>1, <1>6 DEF Under
        <4> QED BY <4>2, <4>3, <4>4
      <3> QED BY <3>1, <3>2
    <2> QED BY <2>1, <2>2, <1>3 DEF Under
  <1>7. Len(a \o b) = Len(path) <=> Len(b) = Len(rest) BY <1>1, <1>2, <1>4
  <1> QED BY <1>2, <1>5, <1>6, <1>7

\* Two patterns one path is under overlap.
LEMMA UnderBoth ==
  ASSUME NEW left \in Spelled, NEW right \in Spelled, NEW path,
         Under(left, path), Under(right, path), Len(left) <= Len(right)
  PROVE  MountContainsRoutePattern(left, right)
  <1>1. /\ Len(left) \in Nat /\ Len(right) \in Nat
        /\ DOMAIN left = 1 .. Len(left) /\ DOMAIN right = 1 .. Len(right)
    BY LenProperties DEF Spelled
  <1>2. \A i \in DOMAIN left : i \in DOMAIN right BY <1>1
  <1> QED BY <1>2 DEF MountContainsRoutePattern, Under

-----------------------------------------------------------------------------
(* The routers of an application.                                           *)

Sound == ~Violations /\ Declared /\ Shape(nodes, {}, nodes) /\ ops = Operations

LEMMA RoutesSpelled ==
  ASSUME Sound, NEW n \in nodes
  PROVE  /\ \A k \in DOMAIN tree[n.group].endpoints :
                /\ tree[n.group].endpoints[k] \in Endpoints
                /\ tree[n.group].endpoints[k].path \in Spelled
                /\ tree[n.group].endpoints[k].guards \in Seq(Guards \union {ZeroGuard})
         /\ \A k \in DOMAIN tree[n.group].infra : tree[n.group].infra[k].path \in Spelled
         /\ \A r \in RoutesOf(n) : r.path \in Spelled
  <1>1. n.group \in Groups BY AllEntered DEF Sound
  <1>2. tree[n.group].endpoints \in Seq(Endpoints) /\ tree[n.group].infra \in Seq(Infra)
    BY <1>1 DEF Sound, Declared
  <1>3. \A k \in DOMAIN tree[n.group].endpoints : tree[n.group].endpoints[k] \in Endpoints
    BY <1>2, LenProperties, ElementOfSeq
  <1>4. \A k \in DOMAIN tree[n.group].infra : tree[n.group].infra[k] \in Infra
    BY <1>2, LenProperties, ElementOfSeq
  <1> QED BY <1>3, <1>4, RoutesAssumption DEF RoutesOf, Spelled

LEMMA NodeTyped ==
  ASSUME Sound, NEW n \in nodes
  PROVE  /\ n.at \in Seq(Place) /\ n.router \in Seq(Place) /\ n.outer.router \in Seq(Place)
         /\ n.prefix \in Spelled
         /\ n.chain \in Chains /\ n.inline \in Chains /\ n.outer.guards \in Chains
         /\ n.group \in Groups /\ Entered(n)
  BY AllEntered DEF Sound, Shape, NodeType

LEMMA OneNode ==
  ASSUME Sound, NEW m \in nodes, NEW n \in nodes, m.at = n.at
  PROVE  m = n
  BY DEF Sound, Shape

LEMMA RouterAt ==
  ASSUME Sound, NEW x \in nodes
  PROVE  NodeAt(x.at) = x
  <1>1. \A n \in nodes : n.at = x.at => n = x BY OneNode
  <1> QED BY <1>1 DEF NodeAt

\* The router of a mount, and the mounts on it.
LEMMA MountOn ==
  ASSUME Sound, NEW m \in Mounted, NEW x \in nodes, m.outer.router = x.at
  PROVE  /\ m \in nodes /\ m.router = m.at /\ IsRouter(m) /\ Holds(x, m) /\ m.link \in Spelled
         /\ m.link # Inline /\ m.at # << >>
  <1>1. m \in nodes /\ m.link # Inline /\ m.at # << >> BY DEF Mounted
  <1>2. m.router = m.at BY <1>1 DEF Sound, Shape
  <1>3. PICK z \in nodes : Holds(z, m) BY <1>1 DEF Sound, Shape
  <1>4. z = x BY <1>3, OneNode DEF Holds
  <1>5. m.link \in Spelled BY <1>1, LinkLength DEF Sound
  <1> QED BY <1>1, <1>2, <1>3, <1>4, <1>5 DEF IsRouter

\* A mount contains no route of the router it is mounted on.
LEMMA RoutesApart ==
  ASSUME Sound, NEW m \in Mounted, NEW n \in nodes, n.router = m.outer.router,
         NEW r \in RoutesOf(n)
  PROVE  ~MountContainsRoutePattern(m.link, r.path)
  <1>1. PICK x \in nodes : Serves(x, n) BY DEF Sound, Shape
  <1>2. x.at = n.router /\ Extends(n.at, x.at) BY <1>1 DEF Serves
  <1>3. /\ m \in nodes /\ m.router = m.at /\ Holds(x, m)
    BY <1>2, MountOn
  <1>4. Extends(m.at, x.at) /\ m.at # x.at BY <1>3 DEF Holds
  <1>5. PICK y \in nodes : Parts(y, m, n) BY <1>3 DEF Sound, Shape
  <1>6. Extends(m.at, y.at) /\ Extends(n.at, y.at) BY <1>5 DEF Parts
  <1>7. /\ m.at \in Seq(Place) /\ n.at \in Seq(Place) /\ y.at \in Seq(Place) /\ x.at \in Seq(Place)
    BY <1>3, NodeTyped
  <1>8. /\ Len(m.at) \in Nat /\ Len(n.at) \in Nat /\ Len(y.at) \in Nat /\ Len(x.at) \in Nat
    BY <1>7, LenProperties
  <1>9. m.at # y.at
    <2> SUFFICES ASSUME m.at = y.at PROVE FALSE OBVIOUS
    <2>1. Inherits(n, m, nodes) BY <1>3, <1>6 DEF Sound, Shape
    <2>2. Extends(x.at, m.at) BY <2>1, <1>2, <1>3 DEF Inherits
    <2>3. Len(m.at) <= Len(x.at) BY <2>2 DEF Extends
    <2> QED BY <2>3, <1>4, <1>7, ExtendsSame
  <1>10. Len(n.router) <= Len(y.at)
    <2>1. CASE n.at = y.at BY <2>1, <1>2 DEF Extends
    <2>2. CASE n.at # y.at
      <3>1. m.at[Len(y.at) + 1] # n.at[Len(y.at) + 1] BY <2>2, <1>5, <1>9 DEF Parts
      <3>2. Len(y.at) + 1 \in 1 .. Len(x.at) => m.at[Len(y.at) + 1] = n.at[Len(y.at) + 1]
        BY <1>2, <1>4 DEF Extends
      <3>3. ~(Len(y.at) + 1 \in 1 .. Len(x.at)) BY <3>1, <3>2
      <3> QED BY <3>3, <1>2, <1>8
    <2> QED BY <2>1, <2>2
  <1>11. y.router = n.router
    <2>1. Inherits(n, y, nodes) BY <1>6 DEF Sound, Shape
    <2> QED BY <2>1, <1>10 DEF Inherits
  <1>12. m \in PeerMounts(y) BY <1>6, <1>9, <1>11, PeerOf DEF Sound
  <1>13. n \in Flattened(y) BY <1>6, <1>11, NodeTyped DEF Flattened
  <1>14. Owner(y, n.at) # Owner(y, m.at)
    <2>1. Len(m.at) # Len(y.at) BY <1>6, <1>7, <1>8, <1>9, ExtendsSame
    <2>2. Len(y.at) + 1 \in 1 .. Len(m.at) BY <2>1, <1>6, <1>8 DEF Extends
    <2>3. Owner(y, m.at) = m.at[Len(y.at) + 1] BY <2>1 DEF Owner
    <2>4. m.at[Len(y.at) + 1] \in Place BY <2>2, <1>7, ElementOfSeq
    <2>5. CASE n.at = y.at
      <3>1. Owner(y, n.at) = 0 BY <2>5 DEF Owner
      <3> QED BY <3>1, <2>3, <2>4 DEF Place
    <2>6. CASE n.at # y.at
      <3>1. Len(n.at) # Len(y.at) BY <2>6, <1>6, <1>7, <1>8, ExtendsSame
      <3>2. Owner(y, n.at) = n.at[Len(y.at) + 1] BY <3>1 DEF Owner
      <3>3. m.at[Len(y.at) + 1] # n.at[Len(y.at) + 1] BY <2>6, <1>5, <1>9 DEF Parts
      <3> QED BY <3>2, <3>3, <2>3
    <2> QED BY <2>5, <2>6
  <1>15. PICK p \in PeerRoutes(y) : p.owner = Owner(y, n.at) /\ p.path = r.path
    <2> DEFINE p == [owner |-> Owner(y, n.at), path |-> r.path]
    <2>1. p \in {[owner |-> Owner(y, n.at), path |-> tree[n.group].endpoints[k].path] :
                     k \in DOMAIN tree[n.group].endpoints}
                \union
                {[owner |-> Owner(y, n.at), path |-> tree[n.group].infra[k].path] :
                     k \in DOMAIN tree[n.group].infra}
      BY DEF RoutesOf
    <2>2. p \in PeerRoutes(y) BY <1>13, <2>1 DEF PeerRoutes
    <2> QED BY <2>2
  <1>16. ~ChildTopologyConflict(y) BY AllEntered DEF Sound
  <1> QED BY <1>12, <1>14, <1>15, <1>16 DEF ChildTopologyConflict

LEMMA EntryCases ==
  ASSUME NEW router, NEW e
  PROVE  e \in Entries(router) <=>
             \/ \E n \in nodes : n.router = router /\
                    \/ \E k \in DOMAIN tree[n.group].endpoints : e = OpEntry(n, k)
                    \/ \E k \in DOMAIN tree[n.group].infra : e = InfraEntry(n, k)
             \/ \E m \in Mounted : m.outer.router = router /\ e = MountEntry(m)
  BY DEF Entries, RouteEntries, MountEntries

LEMMA MatchesUnder ==
  ASSUME NEW method, NEW path
  PROVE  /\ \A m : Matches(MountEntry(m), method, path) <=> Under(m.link, path)
         /\ \A n, k : Matches(OpEntry(n, k), method, path) <=>
                /\ tree[n.group].endpoints[k].method = method
                /\ PathMatches(tree[n.group].endpoints[k].path, path)
         /\ \A n, k : Matches(InfraEntry(n, k), method, path) <=>
                /\ tree[n.group].infra[k].method = method
                /\ PathMatches(tree[n.group].infra[k].path, path)
  <1>1. ASSUME NEW m PROVE Matches(MountEntry(m), method, path) <=> Under(m.link, path)
    BY DEF Matches, MountEntry, Under
  <1>2. ASSUME NEW n, NEW k
        PROVE  Matches(OpEntry(n, k), method, path) <=>
                /\ tree[n.group].endpoints[k].method = method
                /\ PathMatches(tree[n.group].endpoints[k].path, path)
    <2> DEFINE e == OpEntry(n, k)
    <2>1. e.kind = "op" /\ e.method = tree[n.group].endpoints[k].method
          /\ e.pattern = tree[n.group].endpoints[k].path
      BY DEF OpEntry
    <2> HIDE DEF e
    <2>2. Matches(e, method, path) <=> e.method = method /\ PathMatches(e.pattern, path)
      BY <2>1 DEF Matches, PathMatches, Under
    <2> QED BY <2>1, <2>2 DEF e
  <1>3. ASSUME NEW n, NEW k
        PROVE  Matches(InfraEntry(n, k), method, path) <=>
                /\ tree[n.group].infra[k].method = method
                /\ PathMatches(tree[n.group].infra[k].path, path)
    <2> DEFINE e == InfraEntry(n, k)
    <2>1. e.kind = "infra" /\ e.method = tree[n.group].infra[k].method
          /\ e.pattern = tree[n.group].infra[k].path
      BY DEF InfraEntry
    <2> HIDE DEF e
    <2>2. Matches(e, method, path) <=> e.method = method /\ PathMatches(e.pattern, path)
      BY <2>1 DEF Matches, PathMatches, Under
    <2> QED BY <2>1, <2>2 DEF e
  <1> QED BY <1>1, <1>2, <1>3

\* Where a mount matches nothing else does.
LEMMA MountAlone ==
  ASSUME Sound, NEW m \in Mounted, NEW method, NEW path \in Seq(Segments), Under(m.link, path),
         NEW e \in Entries(m.outer.router), Matches(e, method, path)
  PROVE  e = MountEntry(m)
  <1>1. m \in nodes /\ m.link \in Spelled BY LinkLength DEF Mounted, Sound
  <1>2. ASSUME NEW n \in nodes, n.router = m.outer.router, NEW r \in RoutesOf(n),
               PathMatches(r.path, path)
        PROVE  FALSE
    <2>1. r.path \in Spelled BY RoutesSpelled
    <2>2. Len(m.link) <= Len(r.path) /\ Under(r.path, path) BY <1>2 DEF PathMatches, Under
    <2>3. MountContainsRoutePattern(m.link, r.path) BY <1>1, <2>1, <2>2, UnderBoth
    <2> QED BY <1>2, <2>3, RoutesApart
  <1>3. ASSUME NEW n \in nodes, n.router = m.outer.router, NEW k \in DOMAIN tree[n.group].endpoints,
               e = OpEntry(n, k)
        PROVE  FALSE
    <2>1. PathMatches(tree[n.group].endpoints[k].path, path) BY <1>3, MatchesUnder
    <2>2. tree[n.group].endpoints[k] \in RoutesOf(n) BY DEF RoutesOf
    <2> QED BY <1>2, <1>3, <2>1, <2>2
  <1>4. ASSUME NEW n \in nodes, n.router = m.outer.router, NEW k \in DOMAIN tree[n.group].infra,
               e = InfraEntry(n, k)
        PROVE  FALSE
    <2>1. PathMatches(tree[n.group].infra[k].path, path) BY <1>4, MatchesUnder
    <2>2. tree[n.group].infra[k] \in RoutesOf(n) BY DEF RoutesOf
    <2> QED BY <1>2, <1>4, <2>1, <2>2
  <1>5. ASSUME NEW q \in Mounted, q.outer.router = m.outer.router, e = MountEntry(q)
        PROVE  q = m
    <2>1. Under(q.link, path) BY <1>5, MatchesUnder
    <2>2. q.link \in Spelled BY LinkLength DEF Mounted, Sound
    <2>3. MountPatternsOverlap(q.link, m.link)
      <3>1. Len(q.link) \in Nat /\ Len(m.link) \in Nat BY <1>1, <2>2, LenProperties DEF Spelled
      <3>2. Len(q.link) <= Len(m.link) \/ Len(m.link) <= Len(q.link) BY <3>1
      <3> QED BY <3>2, <1>1, <2>1, <2>2, UnderBoth DEF MountPatternsOverlap
    <2> QED BY <1>5, <2>3, MountsApart DEF Sound
  <1> QED BY <1>3, <1>4, <1>5, EntryCases

\* From a router there is a mount towards whatever another router below serves.
LEMMA WayOn ==
  ASSUME Sound, NEW x \in nodes, IsRouter(x), NEW n \in nodes, Extends(n.at, x.at),
         n.router # x.at
  PROVE  \E m \in Mounted : /\ m.outer.router = x.at /\ Extends(n.at, m.at)
                            /\ Extends(n.prefix, m.prefix)
  <1>1. Inherits(n, x, nodes) BY DEF Sound, Shape
  <1>2. PICK m \in nodes : /\ m.link # Inline /\ m.at # << >>
                           /\ m.outer.router = x.at /\ Extends(n.at, m.at)
    BY <1>1 DEF Inherits, IsRouter
  <1>3. Inherits(n, m, nodes) BY <1>2 DEF Sound, Shape
  <1> QED BY <1>2, <1>3 DEF Mounted, Inherits

-----------------------------------------------------------------------------
(* A router's step.                                                         *)

LEMMA CapturedFacts ==
  ASSUME NEW e, NEW path, NEW bound, NEW s \in Placeholders
  PROVE  /\ (\E i \in DOMAIN e.pattern : e.pattern[i] = s) =>
                /\ s \in DOMAIN Captured(e, path, bound)
                /\ \E i \in DOMAIN e.pattern :
                       e.pattern[i] = s /\ Captured(e, path, bound)[s] = path[i]
         /\ ~(\E i \in DOMAIN e.pattern : e.pattern[i] = s) /\ s \in DOMAIN bound =>
                s \in DOMAIN Captured(e, path, bound) /\ Captured(e, path, bound)[s] = bound[s]
  <1> DEFINE names == {x \in Placeholders : \E i \in DOMAIN e.pattern : e.pattern[i] = x}
             place(x) == CHOOSE i \in DOMAIN e.pattern : e.pattern[i] = x
             cap == Captured(e, path, bound)
  <1>1. cap = [x \in names \union (DOMAIN bound) |->
                  IF x \in names THEN path[place(x)] ELSE bound[x]]
    BY DEF Captured
  <1>3. ASSUME \E i \in DOMAIN e.pattern : e.pattern[i] = s
        PROVE  /\ s \in DOMAIN cap
               /\ \E i \in DOMAIN e.pattern : e.pattern[i] = s /\ cap[s] = path[i]
    <2>1. s \in names BY <1>3
    <2>2. place(s) \in DOMAIN e.pattern /\ e.pattern[place(s)] = s BY <1>3
    <2> HIDE DEF names, place, cap
    <2>4. s \in DOMAIN cap /\ cap[s] = path[place(s)] BY <1>1, <2>1
    <2> QED BY <2>2, <2>4
  <1>4. ASSUME ~(\E i \in DOMAIN e.pattern : e.pattern[i] = s), s \in DOMAIN bound
        PROVE  s \in DOMAIN cap /\ cap[s] = bound[s]
    <2>1. s \notin names BY <1>4
    <2> HIDE DEF names, place, cap
    <2> QED BY <1>1, <1>4, <2>1
  <1> QED BY <1>3, <1>4

LEMMA BehindOn ==
  ASSUME NEW a \in Spelled, NEW b \in Spelled, NEW path \in Seq(Segments),
         NEW rest \in Seq(Segments), Behind(a, path, rest), Len(b) <= Len(rest)
  PROVE  LET left == SubSeq(rest, Len(b) + 1, Len(rest))
         IN  left \in Seq(Segments) /\ Behind(a \o b, path, left)
  <1> DEFINE left == SubSeq(rest, Len(b) + 1, Len(rest))
             k == Len(b)
             l == Len(a)
             n == Len(rest)
  <1>1. k \in Nat /\ l \in Nat /\ n \in Nat /\ Len(path) \in Nat /\ DOMAIN rest = 1 .. n
    BY LenProperties DEF Spelled
  <1>2. \A i \in k + 1 .. n : rest[i] \in Segments BY <1>1, ElementOfSeq
  <1>3. /\ left \in Seq(Segments)
        /\ Len(left) = IF k + 1 <= n THEN n - (k + 1) + 1 ELSE 0
        /\ \A i \in 1 .. n - (k + 1) + 1 : left[i] = rest[(k + 1) + i - 1]
    BY <1>1, <1>2, SubSeqProperties
  <1>4. Len(a \o b) = l + k BY ConcatProperties DEF Spelled
  <1>5. k <= n /\ n = Len(path) - l BY DEF Behind
  <1>6. DOMAIN left = 1 .. Len(left) BY <1>3, LenProperties
  <1>7. \A i \in 1 .. n : rest[i] = path[l + i] BY <1>1 DEF Behind
  <1> HIDE DEF left, k, l, n
  <1>8. Len(left) = n - k BY <1>1, <1>3, <1>5
  <1>9. Len(left) = Len(path) - Len(a \o b) BY <1>1, <1>4, <1>5, <1>8
  <1>10. ASSUME NEW i \in DOMAIN left PROVE left[i] = path[Len(a \o b) + i]
    <2>1. i \in 1 .. n - k BY <1>6, <1>8
    <2>2. /\ i \in 1 .. n - (k + 1) + 1 /\ k + i \in 1 .. n
          /\ (k + 1) + i - 1 = k + i /\ l + (k + i) = (l + k) + i
      BY <2>1, <1>1, <1>5
    <2>3. left[i] = rest[k + i] BY <1>3, <2>2
    <2>4. rest[k + i] = path[l + (k + i)] BY <1>7, <2>2
    <2> QED BY <2>2, <2>3, <2>4, <1>4
  <1>11. left \in Seq(Segments) /\ Behind(a \o b, path, left) BY <1>3, <1>9, <1>10 DEF Behind
  <1> QED BY <1>11 DEF left

LEMMA BindsOn ==
  ASSUME NEW a \in Spelled, NEW e, e.pattern \in Spelled, NEW bound,
         NEW path \in Seq(Segments), NEW rest \in Seq(Segments),
         Behind(a, path, rest), Len(e.pattern) <= Len(rest), Binds(a, path, bound)
  PROVE  Binds(a \o e.pattern, path, Captured(e, rest, bound))
  <1> DEFINE b == e.pattern
             all == a \o b
             cap == Captured(e, rest, bound)
  <1>1. /\ Len(a) \in Nat /\ Len(b) \in Nat /\ Len(rest) \in Nat
        /\ DOMAIN a = 1 .. Len(a) /\ DOMAIN b = 1 .. Len(b) /\ DOMAIN rest = 1 .. Len(rest)
    BY LenProperties DEF Spelled
  <1>2. /\ all \in Spelled /\ Len(all) = Len(a) + Len(b)
        /\ \A i \in 1 .. Len(a) + Len(b) :
               all[i] = IF i <= Len(a) THEN a[i] ELSE b[i - Len(a)]
    BY ConcatProperties DEF Spelled
  <1>3. DOMAIN all = 1 .. Len(a) + Len(b) BY <1>2, LenProperties DEF Spelled
  <1> HIDE DEF b, all, cap
  <1>4. ASSUME NEW s \in PathPlaceholders(all)
        PROVE  s \in DOMAIN cap /\ \E i \in DOMAIN all : all[i] = s /\ cap[s] = path[i]
    <2>1. s \in Placeholders BY DEF PathPlaceholders
    <2>2. CASE \E i \in DOMAIN b : b[i] = s
      <3>1. PICK j \in DOMAIN b : s \in DOMAIN cap /\ b[j] = s /\ cap[s] = rest[j]
        BY <2>1, <2>2, CapturedFacts DEF b, cap
      <3>2. /\ Len(a) + j \in 1 .. Len(a) + Len(b) /\ ~(Len(a) + j <= Len(a))
            /\ (Len(a) + j) - Len(a) = j
        BY <1>1
      <3>3. j \in DOMAIN rest BY <1>1 DEF b
      <3>4. all[Len(a) + j] = s BY <1>2, <3>1, <3>2
      <3>5. cap[s] = path[Len(a) + j] BY <3>1, <3>3 DEF Behind
      <3> QED BY <1>3, <3>1, <3>2, <3>4, <3>5
    <2>3. CASE ~ \E i \in DOMAIN b : b[i] = s
      <3>1. PICK i \in DOMAIN all : all[i] = s BY DEF PathPlaceholders
      <3>2. i \in DOMAIN a /\ a[i] = s
        <4>1. CASE i <= Len(a) BY <4>1, <1>1, <1>2, <1>3, <3>1
        <4>2. CASE ~(i <= Len(a))
          <5>1. i - Len(a) \in DOMAIN b BY <4>2, <1>1, <1>3
          <5>2. b[i - Len(a)] = s BY <4>2, <1>2, <1>3, <3>1
          <5> QED BY <5>1, <5>2, <2>3
        <4> QED BY <4>1, <4>2
      <3>3. s \in PathPlaceholders(a) BY <2>1, <3>2 DEF PathPlaceholders
      <3>4. s \in DOMAIN bound BY <3>3 DEF Binds
      <3>5. PICK j \in DOMAIN a : a[j] = s /\ bound[s] = path[j] BY <3>3 DEF Binds
      <3>6. j \in DOMAIN all /\ all[j] = s BY <1>1, <1>2, <1>3, <3>5
      <3>7. s \in DOMAIN cap /\ cap[s] = bound[s]
        BY <2>1, <2>3, <3>4, CapturedFacts DEF b, cap
      <3> QED BY <3>5, <3>6, <3>7
    <2> QED BY <2>2, <2>3
  <1>5. Binds(all, path, cap) BY <1>4 DEF Binds
  <1> QED BY <1>5 DEF all, b, cap

\* The request as the step of a router finds it.
AtRouter(x, q) ==
    /\ q.path \in Seq(Segments) /\ q.rest \in Seq(Segments) /\ q.ran \in Chains
    /\ RoutedTo(x, q)

LEMMA GuardsRun ==
  ASSUME Sound, NEW x \in nodes, NEW q, AtRouter(x, q), Installed(x.at)
  PROVE  q.ran \o RouterGuards(q.router) = x.chain
  <1>1. NodeAt(x.at) = x BY RouterAt
  <1>2. q.router = x.at BY DEF AtRouter, RoutedTo
  <1> QED BY <1>1, <1>2 DEF RouterGuards, AtRouter, RoutedTo

\* Whatever is reached by another router, or is a router, is behind a mount
\* that matches.
LEMMA MountMatches ==
  ASSUME Sound, NEW x \in nodes, NEW q, AtRouter(x, q),
         NEW n \in nodes, Extends(n.at, x.at), n.router # x.at, Under(n.prefix, q.path)
  PROVE  \E m \in Mounted : /\ m.outer.router = x.at /\ Extends(n.at, m.at)
                            /\ Under(m.link, q.rest)
  <1>1. IsRouter(x) /\ Under(x.prefix, q.path) /\ Behind(x.prefix, q.path, q.rest)
        /\ q.path \in Seq(Segments) /\ q.rest \in Seq(Segments)
    BY DEF AtRouter, RoutedTo
  <1>2. PICK m \in Mounted : m.outer.router = x.at /\ Extends(n.at, m.at)
                             /\ Extends(n.prefix, m.prefix)
    BY <1>1, WayOn
  <1>3. m \in nodes /\ Holds(x, m) /\ m.link \in Spelled BY <1>2, MountOn
  <1>4. m.prefix = x.prefix \o m.link BY <1>3 DEF Holds
  <1>5. m.prefix \in Spelled /\ n.prefix \in Spelled /\ x.prefix \in Spelled BY <1>3, NodeTyped
  <1>6. Under(m.prefix, q.path) BY <1>1, <1>2, <1>5, UnderExtends
  <1>7. Under(m.link, q.rest) BY <1>1, <1>3, <1>4, <1>5, <1>6, UnderSplit
  <1> QED BY <1>2, <1>7

\* A mount hands the request over with everything a subrouter relies on.
LEMMA HandedOver ==
  ASSUME Sound, NEW x \in nodes, NEW q, AtRouter(x, q),
         NEW m \in Mounted, m.outer.router = x.at, Under(m.link, q.rest),
         NEW t, t.path = q.path, t.method = q.method, t.router = m.at,
         t.rest = SubSeq(q.rest, Len(m.link) + 1, Len(q.rest)),
         t.ran = x.chain \o m.outer.guards,
         t.bound = Captured(MountEntry(m), q.rest, q.bound)
  PROVE  AtRouter(m, t)
  <1>1. /\ q.path \in Seq(Segments) /\ q.rest \in Seq(Segments)
        /\ IsRouter(x) /\ Under(x.prefix, q.path) /\ Behind(x.prefix, q.path, q.rest)
        /\ Binds(x.prefix, q.path, q.bound) /\ x.chain = q.ran \o GuardsOf(x.group)
        /\ OnTheWay(x, q) /\ q.ran \in Chains
    BY DEF AtRouter, RoutedTo
  <1>2. m \in nodes /\ IsRouter(m) /\ Holds(x, m) /\ m.link \in Spelled /\ m.link # Inline
    BY MountOn
  <1>3. /\ m.prefix = x.prefix \o m.link /\ Extends(m.at, x.at) /\ m.at # x.at
        /\ m.chain = (x.chain \o m.outer.guards) \o GuardsOf(m.group)
    BY <1>2 DEF Holds
  <1>4. /\ m.prefix \in Spelled /\ x.prefix \in Spelled /\ x.chain \in Chains
        /\ m.outer.guards \in Chains /\ m.at \in Seq(Place) /\ x.at \in Seq(Place)
    BY <1>2, NodeTyped
  <1>5. t.ran \in Chains BY <1>4, ConcatProperties DEF Chains
  <1>6. Under(m.prefix, t.path) BY <1>1, <1>2, <1>3, <1>4, UnderSplit
  <1>7. t.rest \in Seq(Segments) /\ Behind(m.prefix, t.path, t.rest)
    <2>1. Len(m.link) <= Len(q.rest) BY DEF Under
    <2>2. t.rest \in Seq(Segments) /\ Behind(x.prefix \o m.link, q.path, t.rest)
      BY <1>1, <1>2, <1>4, <2>1, BehindOn
    <2> QED BY <2>2, <1>3
  <1>8. Binds(m.prefix, t.path, t.bound)
    <2> DEFINE e == MountEntry(m)
    <2>1. e.pattern = m.link BY DEF MountEntry
    <2> HIDE DEF e
    <2>2. Len(e.pattern) <= Len(q.rest) BY <2>1 DEF Under
    <2>3. Binds(x.prefix \o e.pattern, q.path, Captured(e, q.rest, q.bound))
      BY <1>1, <1>2, <1>4, <2>1, <2>2, BindsOn
    <2> QED BY <2>1, <2>3, <1>3 DEF e
  <1>9. ASSUME NEW s \in Mounted, s.outer.router = x.at, Under(s.link, q.rest)
        PROVE  s = m
    <2>1. MountEntry(s) \in Entries(m.outer.router) BY <1>9, EntryCases
    <2>2. Matches(MountEntry(s), q.method, q.rest) BY <1>9, MatchesUnder
    <2>3. MountEntry(s) = MountEntry(m) BY <1>1, <2>1, <2>2, MountAlone
    <2>4. s.at = m.at BY <2>3 DEF MountEntry
    <2>5. s \in nodes BY DEF Mounted
    <2> QED BY <2>4, <2>5, <1>2, OneNode
  <1>10. ASSUME NEW n \in nodes, n.link # Inline, Under(n.prefix, t.path)
         PROVE  Extends(n.at, m.at) \/ Extends(m.at, n.at)
    <2>0. n.at \in Seq(Place) BY NodeTyped
    <2>1. CASE Extends(x.at, n.at) BY <2>0, <2>1, <1>3, <1>4, ExtendsTransitive
    <2>2. CASE Extends(n.at, x.at) /\ n.at # x.at
      <3>1. n.router # x.at
        <4>1. n.at # << >>
          <5>1. Len(x.at) \in Nat BY <1>4, LenProperties
          <5>2. n.at = << >> => Len(x.at) <= 0 BY <2>2 DEF Extends
          <5>3. Len(x.at) = 0 => x.at = << >> BY <1>4, EmptySeq
          <5> QED BY <5>1, <5>2, <5>3, <2>2
        <4>2. n.router = n.at BY <4>1, <1>10 DEF Sound, Shape
        <4> QED BY <4>2, <2>2
      <3>2. PICK s \in Mounted : s.outer.router = x.at /\ Extends(n.at, s.at) /\ Under(s.link, q.rest)
        BY <2>2, <3>1, <1>10, MountMatches
      <3> QED BY <3>2, <1>9
    <2>3. CASE n.at = x.at BY <2>3, <1>3
    <2> QED BY <2>1, <2>2, <2>3, <1>1, <1>10 DEF OnTheWay
  <1>11. ASSUME NEW n \in nodes, NEW r \in RoutesOf(n), r.method = t.method,
                PathMatches(n.prefix \o r.path, t.path)
         PROVE  Extends(n.at, m.at)
    <2>1. Extends(n.at, x.at) BY <1>1, <1>11 DEF OnTheWay
    <2>2. n.prefix \in Spelled /\ r.path \in Spelled BY NodeTyped, RoutesSpelled
    <2>3. Under(n.prefix \o r.path, q.path) BY <1>11 DEF PathMatches
    <2>4. n.prefix \o r.path \in Spelled /\ Extends(n.prefix \o r.path, n.prefix)
      BY <2>2, ConcatProperties, ExtendsConcat DEF Spelled
    <2>5. Under(n.prefix, q.path) BY <1>1, <2>2, <2>3, <2>4, UnderExtends
    <2>6. CASE n.router # x.at
      <3>1. PICK s \in Mounted : s.outer.router = x.at /\ Extends(n.at, s.at) /\ Under(s.link, q.rest)
        BY <2>1, <2>5, <2>6, MountMatches
      <3> QED BY <3>1, <1>9
    <2>7. CASE n.router = x.at
      <3>1. n.prefix = x.prefix
        <4>1. PICK z \in nodes : Serves(z, n) BY DEF Sound, Shape
        <4>2. z = x BY <4>1, <2>7, OneNode DEF Serves
        <4> QED BY <4>1, <4>2 DEF Serves
      <3>2. PathMatches(r.path, q.rest)
        <4> DEFINE p == r.path
        <4>1. p \in Spelled /\ PathMatches(x.prefix \o p, q.path) BY <2>2, <3>1, <1>11
        <4> HIDE DEF p
        <4>2. /\ Under(x.prefix \o p, q.path) <=> Under(p, q.rest)
              /\ Len(x.prefix \o p) = Len(q.path) <=> Len(p) = Len(q.rest)
          <5>1. /\ x.prefix \in Spelled /\ p \in Spelled /\ q.path \in Seq(Segments)
                /\ q.rest \in Seq(Segments) /\ Under(x.prefix, q.path)
                /\ Behind(x.prefix, q.path, q.rest)
            BY <1>1, <1>4, <4>1
          <5> QED BY <5>1, UnderSplit
        <4>3. PathMatches(p, q.rest) BY <4>1, <4>2 DEF PathMatches
        <4> QED BY <4>3 DEF p
      <3>3. MountContainsRoutePattern(m.link, r.path)
        <4>1. Len(m.link) <= Len(r.path) /\ Under(r.path, q.rest) BY <3>2 DEF PathMatches, Under
        <4> QED BY <4>1, <1>2, <2>2, UnderBoth
      <3> QED BY <3>3, <2>7, RoutesApart
    <2> QED BY <2>6, <2>7
  <1>12. ASSUME NEW n \in nodes, n.link # Inline, Extends(m.at, n.at), n.at # m.at
         PROVE  Extends(t.ran, n.chain)
    <2>1. n.at \in Seq(Place) /\ n.chain \in Chains BY NodeTyped
    <2>2. Len(n.at) \in Nat /\ Len(x.at) \in Nat BY <1>4, <2>1, LenProperties
    <2>3. Extends(t.ran, x.chain) BY <1>4, ExtendsConcat DEF Chains
    <2>4. CASE n.at = x.at
      <3>1. n = x BY <2>4, OneNode
      <3> QED BY <3>1, <2>3
    <2>5. CASE Extends(x.at, n.at) /\ n.at # x.at
      <3>1. Extends(q.ran, n.chain) BY <2>5, <1>1, <1>12 DEF OnTheWay
      <3>2. GuardsOf(x.group) \in Chains
        <4>1. x.group \in Groups BY NodeTyped
        <4> QED BY <4>1, GuardsOfChains DEF Sound
      <3>3. Extends(x.chain, q.ran) BY <1>1, <3>2, ExtendsConcat DEF Chains
      <3>4. Extends(t.ran, q.ran) BY <1>1, <1>4, <1>5, <2>3, <3>3, ExtendsTransitive DEF Chains
      <3> QED BY <1>1, <1>5, <2>1, <3>1, <3>4, ExtendsTransitive DEF Chains
    <2>6. CASE ~Extends(x.at, n.at)
      <3>1. Extends(n.at, x.at)
        <4>1. Len(n.at) <= Len(x.at) => Extends(x.at, n.at)
          BY <1>3, <1>4, <1>12, <2>1, ExtendsBoth
        <4>2. Len(x.at) <= Len(n.at) BY <2>2, <2>6, <4>1
        <4> QED BY <1>3, <1>4, <1>12, <2>1, <4>2, ExtendsBoth
      <3>2. n.at # x.at BY <2>6, <1>4, ExtendsItself
      <3>3. Under(n.prefix, q.path)
        <4>1. Inherits(m, n, nodes) BY <1>2, <1>12 DEF Sound, Shape
        <4>2. Extends(m.prefix, n.prefix) BY <4>1 DEF Inherits
        <4>3. n.prefix \in Spelled BY NodeTyped
        <4> QED BY <4>2, <4>3, <1>1, <1>4, <1>6, UnderExtends
      <3>4. n.router # x.at
        <4>1. n.at # << >>
          <5>1. n.at = << >> => Len(x.at) <= 0 BY <3>1 DEF Extends
          <5>2. Len(x.at) = 0 => x.at = << >> BY <1>4, EmptySeq
          <5> QED BY <2>2, <5>1, <5>2, <3>2
        <4>2. n.router = n.at BY <4>1, <1>12 DEF Sound, Shape
        <4> QED BY <4>2, <3>2
      <3>5. PICK s \in Mounted : s.outer.router = x.at /\ Extends(n.at, s.at) /\ Under(s.link, q.rest)
        BY <3>1, <3>3, <3>4, MountMatches
      <3>6. Extends(n.at, m.at) BY <3>5, <1>9
      <3>7. n.at = m.at
        <4>1. Len(m.at) <= Len(n.at) BY <3>6 DEF Extends
        <4> QED BY <4>1, <1>4, <1>12, <2>1, ExtendsSame
      <3> QED BY <3>7, <1>12
    <2> QED BY <2>4, <2>5, <2>6
  <1>13. OnTheWay(m, t) BY <1>10, <1>11, <1>12 DEF OnTheWay
  <1>14. RoutedTo(m, t) BY <1>2, <1>3, <1>6, <1>7, <1>8, <1>13 DEF RoutedTo
  <1> QED BY <1>1, <1>5, <1>7, <1>14 DEF AtRouter

-----------------------------------------------------------------------------
(* Induction over data, by the least counterexample.                        *)

LEMMA NatOrder ==
  \E R : IsWellFoundedOn(R, Nat) /\ \A x, y \in Nat : x < y <=> <<x, y>> \in R
  <1> DEFINE R == OpToRel(<, Nat)
  <1>1. IsWellFoundedOn(R, Nat) BY NatLessThanWellFounded
  <1>2. \A x, y \in Nat : x < y <=> <<x, y>> \in R BY DEF OpToRel
  <1> QED BY <1>1, <1>2, Zenon

LEMMA LeastNat ==
  ASSUME NEW T \in SUBSET Nat, T # {}
  PROVE  \E x \in T : \A y \in T : x <= y
  <1>1. PICK R : IsWellFoundedOn(R, Nat) /\ \A x, y \in Nat : x < y <=> <<x, y>> \in R
    BY NatOrder
  <1>2. \E x \in T : \A y \in T : ~ (<<y, x>> \in R)
    <2>1. IsWellFoundedOn(R, Nat) /\ T \subseteq Nat BY <1>1
    <2> QED BY <2>1, WFMin, Zenon
  <1>3. PICK x \in T : \A y \in T : ~ (<<y, x>> \in R) BY <1>2
  <1>4. \A y \in T : ~ (y < x) BY <1>1, <1>3
  <1> QED BY <1>4

\* The requirements of a chain, conjoined up to its nth guard.
Conjoined(f, chain, m) ==
    f = [n \in 0 .. m |-> IF n = 0 THEN Unstated ELSE And(f[n - 1], chain[n])]

LEMMA ConjoinedExists ==
  ASSUME NEW chain, NEW m \in Nat
  PROVE  \E f : Conjoined(f, chain, m)
  <1> DEFINE T == {k \in Nat : ~ \E f : Conjoined(f, chain, k)}
  <1> SUFFICES ASSUME T # {} PROVE FALSE OBVIOUS
  <1>1. PICK k \in T : \A y \in T : k <= y BY LeastNat
  <1>2. k \in Nat /\ ~ \E f : Conjoined(f, chain, k) OBVIOUS
  <1>3. CASE k = 0
    <2> DEFINE f == [n \in 0 .. 0 |-> Unstated]
    <2>1. Conjoined(f, chain, 0) BY DEF Conjoined
    <2> QED BY <2>1, <1>2, <1>3
  <1>4. CASE k # 0
    <2>1. k - 1 \in Nat /\ ~(k <= k - 1) BY <1>2, <1>4
    <2>2. PICK f : Conjoined(f, chain, k - 1) BY <1>1, <2>1
    <2> DEFINE g == [n \in 0 .. k |-> IF n = k THEN And(f[k - 1], chain[k]) ELSE f[n]]
    <2>3. ASSUME NEW n \in 0 .. k
          PROVE  g[n] = IF n = 0 THEN Unstated ELSE And(g[n - 1], chain[n])
      <3>1. CASE n = k
        <4>1. g[k - 1] = f[k - 1] BY <1>2, <1>4
        <4> QED BY <3>1, <4>1, <1>4
      <3>2. CASE n # k
        <4>1. n \in 0 .. k - 1 BY <1>2, <3>2
        <4>2. f[n] = IF n = 0 THEN Unstated ELSE And(f[n - 1], chain[n])
          BY <2>2, <4>1 DEF Conjoined
        <4>3. n # 0 => n - 1 \in 0 .. k /\ n - 1 # k BY <4>1, <1>2
        <4> QED BY <3>2, <4>2, <4>3
      <3> QED BY <3>1, <3>2
    <2>4. Conjoined(g, chain, k)
      <3>1. g = [n \in 0 .. k |-> g[n]] OBVIOUS
      <3> HIDE DEF g
      <3> QED BY <3>1, <2>3 DEF Conjoined
    <2> QED BY <2>4, <1>2
  <1> QED BY <1>3, <1>4

LEMMA ConjoinedSatisfied ==
  ASSUME NEW chain \in Seq(RequirementSets), NEW f, Conjoined(f, chain, Len(chain)),
         NEW presented \in CredentialSets
  PROVE  /\ f[Len(chain)] \in RequirementSets
         /\ Satisfied(f[Len(chain)], presented)
                <=> \A i \in 1 .. Len(chain) : Satisfied(chain[i], presented)
  <1> DEFINE P(n) == /\ f[n] \in RequirementSets
                     /\ Satisfied(f[n], presented) <=> \A i \in 1 .. n : Satisfied(chain[i], presented)
             T == {n \in 0 .. Len(chain) : ~P(n)}
  <1>0. Len(chain) \in Nat BY LenProperties
  <1> SUFFICES ASSUME T # {} PROVE FALSE BY <1>0
  <1>1. T \in SUBSET Nat BY <1>0
  <1>2. PICK k \in T : \A y \in T : k <= y BY <1>1, LeastNat
  <1>3. k \in 0 .. Len(chain) /\ ~P(k) OBVIOUS
  <1>4. f[k] = IF k = 0 THEN Unstated ELSE And(f[k - 1], chain[k]) BY <1>3 DEF Conjoined
  <1>5. CASE k = 0
    <2>1. f[k] = Unstated BY <1>4, <1>5
    <2>2. f[k] \in RequirementSets /\ Satisfied(f[k], presented)
      BY <2>1 DEF Unstated, RequirementSets, Satisfied
    <2>3. \A i \in 1 .. k : Satisfied(chain[i], presented) BY <1>5
    <2> QED BY <1>3, <2>2, <2>3
  <1>6. CASE k # 0
    <2>1. k - 1 \in 0 .. Len(chain) /\ ~(k <= k - 1) /\ k \in 1 .. Len(chain) BY <1>0, <1>3, <1>6
    <2>2. P(k - 1) BY <1>2, <2>1
    <2>3. chain[k] \in RequirementSets BY <2>1, ElementOfSeq
    <2>4. f[k] = And(f[k - 1], chain[k]) BY <1>4, <1>6
    <2>5. f[k] \in RequirementSets BY <2>2, <2>3, <2>4, AndClosed
    <2>6. Satisfied(f[k], presented)
            <=> Satisfied(f[k - 1], presented) /\ Satisfied(chain[k], presented)
      BY <2>2, <2>3, <2>4, AndIsConjunction
    <2>7. \A i \in 1 .. k : i \in 1 .. k - 1 \/ i = k BY <2>1
    <2>8. \A i \in 1 .. k - 1 : i \in 1 .. k BY <2>1
    <2>9. P(k) BY <2>1, <2>2, <2>5, <2>6, <2>7, <2>8
    <2> QED BY <1>3, <2>9
  <1> QED BY <1>5, <1>6

LEMMA SecuritySatisfied ==
  ASSUME NEW chain \in Seq(RequirementSets), NEW own \in RequirementSets,
         NEW presented \in CredentialSets
  PROVE  Satisfied(OperationSecurity(chain, own), presented)
           <=> /\ \A i \in 1 .. Len(chain) : Satisfied(chain[i], presented)
               /\ Satisfied(own, presented)
  <1> DEFINE f == CHOOSE g : Conjoined(g, chain, Len(chain))
  <1>1. Len(chain) \in Nat BY LenProperties
  <1>2. Conjoined(f, chain, Len(chain)) BY <1>1, ConjoinedExists
  <1>3. OperationSecurity(chain, own) = And(f[Len(chain)], own)
    BY DEF OperationSecurity, Conjoined
  <1> HIDE DEF f
  <1>4. /\ f[Len(chain)] \in RequirementSets
        /\ Satisfied(f[Len(chain)], presented)
                <=> \A i \in 1 .. Len(chain) : Satisfied(chain[i], presented)
    BY <1>2, ConjoinedSatisfied
  <1>5. Satisfied(And(f[Len(chain)], own), presented)
           <=> Satisfied(f[Len(chain)], presented) /\ Satisfied(own, presented)
    BY <1>4, AndIsConjunction
  <1> QED BY <1>3, <1>4, <1>5

-----------------------------------------------------------------------------
(* The search of a router.                                                  *)

LEMMA FoundSome ==
  ASSUME NEW router, NEW method, NEW path, Len(path) \in Nat, DOMAIN path = 1 .. Len(path),
         NEW e \in Entries(router), Matches(e, method, path)
  PROVE  Found(router, method, path) # {}
  <1> DEFINE M == {x \in Entries(router) : Matches(x, method, path)}
             rk(x) == [i \in 1 .. Len(path) |-> Rank(x, i)]
             T == {rk(x) : x \in M}
             V == [1 .. Len(path) -> Nat]
  <1>1. PICK R : IsWellFoundedOn(R, Nat) /\ \A x, y \in Nat : x < y <=> <<x, y>> \in R
    BY NatOrder
  <1>2. \A x, i : Rank(x, i) \in Nat BY DEF Rank
  <1>3. \A x \in M : rk(x) \in V BY <1>2
  <1>4. T \subseteq V /\ T # {}
    <2>1. e \in M OBVIOUS
    <2> QED BY <1>3, <2>1
  <1>5. IsWellFoundedOn(LexProductOrdering(R, Nat, Len(path)), V) BY <1>1, WFLexProductOrdering
  <1> HIDE DEF T, V
  <1>6. \E t \in T : \A s \in T : ~ (<<s, t>> \in LexProductOrdering(R, Nat, Len(path)))
    BY <1>4, <1>5, WFMin, Zenon
  <1>7. PICK t \in T : \A s \in T : ~ (<<s, t>> \in LexProductOrdering(R, Nat, Len(path)))
    BY <1>6
  <1>8. PICK x \in M : t = rk(x) BY DEF T
  <1>9. ASSUME NEW y \in M, Precedes(y, x, path) PROVE FALSE
    <2>1. PICK i \in 1 .. Len(path) : /\ Rank(y, i) < Rank(x, i)
                                     /\ \A j \in 1 .. i - 1 : Rank(y, j) = Rank(x, j)
      BY <1>9 DEF Precedes
    <2>2. rk(y) \in T /\ rk(y) \in V /\ rk(x) \in V BY <1>3 DEF T
    <2>3. rk(y)[i] = Rank(y, i) /\ rk(x)[i] = Rank(x, i) BY <2>1
    <2>4. <<rk(y)[i], rk(x)[i]>> \in R BY <1>1, <1>2, <2>1, <2>3
    <2>5. \A j \in 1 .. i - 1 : rk(y)[j] = rk(x)[j]
      <3>1. \A j \in 1 .. i - 1 : j \in 1 .. Len(path) BY <2>1
      <3> QED BY <2>1, <3>1
    <2> HIDE DEF rk
    <2>6. <<rk(y), rk(x)>> \in V \X V BY <2>2
    <2>7. <<rk(y), rk(x)>> \in LexProductOrdering(R, Nat, Len(path))
      BY <2>1, <2>4, <2>5, <2>6 DEF LexProductOrdering, V
    <2> QED BY <1>7, <1>8, <2>2, <2>7
  <1>10. x \in Found(router, method, path) BY <1>9 DEF Found
  <1> QED BY <1>10

\* A mount that matches is found, and nothing else.
LEMMA MountFound ==
  ASSUME Sound, NEW m \in Mounted, NEW method, NEW path \in Seq(Segments), Under(m.link, path)
  PROVE  Found(m.outer.router, method, path) = {MountEntry(m)}
  <1>1. Len(path) \in Nat /\ DOMAIN path = 1 .. Len(path) BY LenProperties
  <1>2. MountEntry(m) \in Entries(m.outer.router) BY EntryCases
  <1>3. Matches(MountEntry(m), method, path) BY MatchesUnder
  <1>4. Found(m.outer.router, method, path) # {} BY <1>1, <1>2, <1>3, FoundSome
  <1>5. \A e \in Found(m.outer.router, method, path) : e = MountEntry(m)
    BY MountAlone DEF Found
  <1> QED BY <1>4, <1>5

-----------------------------------------------------------------------------
(* Where a request ends.                                                    *)

LEMMA AnsweredIs ==
  ASSUME Sound, NEW n \in nodes, NEW k \in DOMAIN tree[n.group].endpoints
  PROVE  /\ Operation(n, k) \in ops
         /\ \A o \in ops : <<o.at, o.nth>> = <<n.at, k>> => o = Operation(n, k)
  <1>1. Operation(n, k) \in Operations BY NodeTyped DEF Operations
  <1>2. ASSUME NEW o \in Operations, <<o.at, o.nth>> = <<n.at, k>> PROVE o = Operation(n, k)
    <2>0. PICK m \in nodes : \E j \in DOMAIN tree[m.group].endpoints : o = Operation(m, j)
      BY DEF Operations
    <2>1. PICK j \in DOMAIN tree[m.group].endpoints : o = Operation(m, j) BY <2>0
    <2>2. o.at = m.at /\ o.nth = j BY <2>1 DEF Operation
    <2>3. m = n BY <1>2, <2>2, OneNode
    <2> QED BY <1>2, <2>1, <2>2, <2>3
  <1> QED BY <1>1, <1>2 DEF Sound

LEMMA InfraIs ==
  ASSUME Sound, NEW n \in nodes, NEW k \in DOMAIN tree[n.group].infra
  PROVE  InfraRoute(n, k) \in InfraRoutes
  BY NodeTyped DEF InfraRoutes

\* No mount of the router takes the request any further.
Ends(x, q) == \A m \in Mounted : m.outer.router = x.at => ~Under(m.link, q.rest)

LEMMA FoundEnds ==
  ASSUME Sound, NEW x \in nodes, NEW q, AtRouter(x, q),
         \A e \in Found(q.router, q.method, q.rest) : e.kind # "mount"
  PROVE  Ends(x, q)
  <1> SUFFICES ASSUME NEW m \in Mounted, m.outer.router = x.at, Under(m.link, q.rest)
               PROVE  FALSE
    BY DEF Ends
  <1>1. q.rest \in Seq(Segments) /\ q.router = x.at BY DEF AtRouter, RoutedTo
  <1>2. Found(q.router, q.method, q.rest) = {MountEntry(m)} BY <1>1, MountFound
  <1>3. MountEntry(m).kind = "mount" BY DEF MountEntry
  <1> QED BY <1>2, <1>3

LEMMA EndsAtRouter ==
  ASSUME Sound, NEW x \in nodes, NEW q, AtRouter(x, q), Ends(x, q)
  PROVE  /\ \A n \in nodes : n.link # Inline /\ Under(n.prefix, q.path) =>
                n = x \/ (Extends(x.at, n.at) /\ n.at # x.at)
         /\ \A n \in nodes : \A r \in RoutesOf(n) :
                r.method = q.method /\ PathMatches(n.prefix \o r.path, q.path) =>
                    n.router = x.at /\ PathMatches(r.path, q.rest)
  <1>1. /\ q.path \in Seq(Segments) /\ q.rest \in Seq(Segments)
        /\ Under(x.prefix, q.path) /\ Behind(x.prefix, q.path, q.rest)
        /\ OnTheWay(x, q) /\ x.prefix \in Spelled /\ x.at \in Seq(Place)
    BY NodeTyped DEF AtRouter, RoutedTo
  <1>2. ASSUME NEW n \in nodes, n.link # Inline, Under(n.prefix, q.path), n # x,
               ~(Extends(x.at, n.at) /\ n.at # x.at)
        PROVE  FALSE
    <2>1. n.at # x.at BY <1>2, OneNode
    <2>2. Extends(n.at, x.at) BY <1>1, <1>2, <2>1 DEF OnTheWay
    <2>3. n.at # << >>
      <3>1. Len(x.at) \in Nat BY <1>1, LenProperties
      <3>2. n.at = << >> => Len(x.at) <= 0 BY <2>2 DEF Extends
      <3>3. Len(x.at) = 0 => x.at = << >> BY <1>1, EmptySeq
      <3> QED BY <2>1, <3>1, <3>2, <3>3
    <2>4. n.router = n.at BY <1>2, <2>3 DEF Sound, Shape
    <2>5. \E m \in Mounted : m.outer.router = x.at /\ Under(m.link, q.rest)
      BY <1>2, <2>1, <2>2, <2>4, MountMatches
    <2> QED BY <2>5 DEF Ends
  <1>3. ASSUME NEW n \in nodes, NEW r \in RoutesOf(n), r.method = q.method,
               PathMatches(n.prefix \o r.path, q.path)
        PROVE  n.router = x.at /\ PathMatches(r.path, q.rest)
    <2> DEFINE p == r.path
    <2>1. Extends(n.at, x.at) BY <1>1, <1>3 DEF OnTheWay
    <2>2. n.prefix \in Spelled /\ p \in Spelled /\ PathMatches(n.prefix \o p, q.path)
      BY <1>3, NodeTyped, RoutesSpelled
    <2> HIDE DEF p
    <2>3. Under(n.prefix \o p, q.path) BY <2>2 DEF PathMatches
    <2>4. n.prefix \o p \in Spelled /\ Extends(n.prefix \o p, n.prefix)
      BY <2>2, ConcatProperties, ExtendsConcat DEF Spelled
    <2>5. Under(n.prefix, q.path) BY <1>1, <2>2, <2>3, <2>4, UnderExtends
    <2>6. n.router = x.at
      <3> SUFFICES ASSUME n.router # x.at PROVE FALSE OBVIOUS
      <3>1. \E m \in Mounted : m.outer.router = x.at /\ Under(m.link, q.rest)
        BY <2>1, <2>5, MountMatches
      <3> QED BY <3>1 DEF Ends
    <2>7. n.prefix = x.prefix
      <3>1. PICK z \in nodes : Serves(z, n) BY DEF Sound, Shape
      <3>2. z = x BY <3>1, <2>6, OneNode DEF Serves
      <3> QED BY <3>1, <3>2 DEF Serves
    <2>8. PathMatches(x.prefix \o p, q.path) BY <2>2, <2>7
    <2>9. /\ Under(x.prefix \o p, q.path) <=> Under(p, q.rest)
          /\ Len(x.prefix \o p) = Len(q.path) <=> Len(p) = Len(q.rest)
      BY <1>1, <2>2, UnderSplit
    <2>10. PathMatches(p, q.rest) BY <2>8, <2>9 DEF PathMatches
    <2> QED BY <2>6, <2>10 DEF p
  <1> QED BY <1>2, <1>3

LEMMA ExtendsMeets ==
  ASSUME NEW long \in Chains, NEW short \in Chains, Extends(long, short)
  PROVE  \A i \in DOMAIN short : \E j \in DOMAIN long : long[j] = short[i]
  <1>1. /\ DOMAIN long = 1 .. Len(long) /\ DOMAIN short = 1 .. Len(short)
        /\ Len(long) \in Nat /\ Len(short) \in Nat
    BY LenProperties DEF Chains
  <1> QED BY <1>1 DEF Extends

\* The guards a request has met when the router it is at answers, its own
\* last.
Met(q, own) == (q.ran \o RouterGuards(q.router)) \o own

\* No guard of a router whose prefix the request is under is left out.
LEMMA GuardsMet ==
  ASSUME Sound, NEW x \in nodes, NEW q, AtRouter(x, q), Ends(x, q), NEW own \in Chains
  PROVE  \A n \in nodes : n.link # Inline /\ Under(n.prefix, q.path) /\ Installed(n.at) =>
             \A i \in DOMAIN n.chain : \E j \in DOMAIN Met(q, own) : Met(q, own)[j] = n.chain[i]
  <1> SUFFICES ASSUME NEW n \in nodes, n.link # Inline, Under(n.prefix, q.path), Installed(n.at)
               PROVE  \A i \in DOMAIN n.chain :
                          \E j \in DOMAIN Met(q, own) : Met(q, own)[j] = n.chain[i]
    OBVIOUS
  <1>0. PICK ran : ran = Met(q, own) OBVIOUS
  <1> DEFINE met == q.ran \o RouterGuards(q.router)
  <1>1. n.chain \in Chains /\ x.chain \in Chains /\ q.ran \in Chains
    BY NodeTyped DEF AtRouter
  <1>2. RouterGuards(q.router) \in Chains
    <2>1. RouterGuards(q.router) = << >> \/ RouterGuards(q.router) = GuardsOf(x.group)
      BY RouterAt DEF RouterGuards, AtRouter, RoutedTo
    <2>2. GuardsOf(x.group) \in Chains
      <3>1. x.group \in Groups BY NodeTyped
      <3> QED BY <3>1, GuardsOfChains DEF Sound
    <2> QED BY <2>1, <2>2, EmptySeq DEF Chains
  <1>3. met \in Chains BY <1>1, <1>2, ConcatProperties DEF Chains
  <1>4. Extends(met, n.chain)
    <2>1. CASE n = x
      <3>1. met = x.chain BY <2>1, GuardsRun
      <3> QED BY <1>1, <2>1, <3>1, ExtendsItself DEF Chains
    <2>2. CASE n # x
      <3>1. Extends(x.at, n.at) /\ n.at # x.at BY <2>2, EndsAtRouter
      <3>2. Extends(q.ran, n.chain) BY <3>1 DEF AtRouter, RoutedTo, OnTheWay
      <3>3. Extends(met, q.ran) BY <1>1, <1>2, ExtendsConcat DEF Chains
      <3> QED BY <1>1, <1>3, <3>2, <3>3, ExtendsTransitive DEF Chains
    <2> QED BY <2>1, <2>2
  <1>8. ran = met \o own BY <1>0 DEF Met
  <1> HIDE DEF met
  <1>5. Extends(ran, met) /\ ran \in Chains
    BY <1>3, <1>8, ExtendsConcat, ConcatProperties DEF Chains
  <1>6. Extends(ran, n.chain) BY <1>1, <1>3, <1>4, <1>5, ExtendsTransitive DEF Chains
  <1>9. \A i \in DOMAIN n.chain : \E j \in DOMAIN ran : ran[j] = n.chain[i]
    BY <1>1, <1>5, <1>6, ExtendsMeets
  <1> QED BY <1>0, <1>9

\* The route that answers.
LEMMA RouteFound ==
  ASSUME Sound, NEW x \in nodes, NEW q, AtRouter(x, q),
         NEW e \in Found(q.router, q.method, q.rest), e.kind # "mount"
  PROVE  \E n \in nodes :
             /\ n.router = x.at /\ n.prefix = x.prefix /\ n.chain = x.chain \o n.inline
             /\ \/ \E k \in DOMAIN tree[n.group].endpoints :
                       /\ e = OpEntry(n, k)
                       /\ tree[n.group].endpoints[k].method = q.method
                       /\ PathMatches(tree[n.group].endpoints[k].path, q.rest)
                \/ \E k \in DOMAIN tree[n.group].infra :
                       /\ e = InfraEntry(n, k)
                       /\ tree[n.group].infra[k].method = q.method
                       /\ PathMatches(tree[n.group].infra[k].path, q.rest)
  <1>1. e \in Entries(x.at) /\ Matches(e, q.method, q.rest)
    BY DEF Found, AtRouter, RoutedTo
  <1>2. ~ \E m \in Mounted : e = MountEntry(m) BY DEF MountEntry
  <1>3. PICK n \in nodes : n.router = x.at /\
           \/ \E k \in DOMAIN tree[n.group].endpoints : e = OpEntry(n, k)
           \/ \E k \in DOMAIN tree[n.group].infra : e = InfraEntry(n, k)
    BY <1>1, <1>2, EntryCases
  <1>4. n.prefix = x.prefix /\ n.chain = x.chain \o n.inline
    <2>1. PICK z \in nodes : Serves(z, n) BY DEF Sound, Shape
    <2>2. z = x BY <2>1, <1>3, OneNode DEF Serves
    <2> QED BY <2>1, <2>2 DEF Serves
  <1>5. ASSUME NEW k \in DOMAIN tree[n.group].endpoints, e = OpEntry(n, k)
        PROVE  /\ tree[n.group].endpoints[k].method = q.method
               /\ PathMatches(tree[n.group].endpoints[k].path, q.rest)
    <2>1. Matches(OpEntry(n, k), q.method, q.rest) BY <1>1, <1>5
    <2> QED BY <2>1, MatchesUnder
  <1>6. ASSUME NEW k \in DOMAIN tree[n.group].infra, e = InfraEntry(n, k)
        PROVE  /\ tree[n.group].infra[k].method = q.method
               /\ PathMatches(tree[n.group].infra[k].path, q.rest)
    <2>1. Matches(InfraEntry(n, k), q.method, q.rest) BY <1>1, <1>6
    <2> QED BY <2>1, MatchesUnder
  <1> QED BY <1>3, <1>4, <1>5, <1>6

LEMMA OperationAnswers ==
  ASSUME Sound, NEW x \in nodes, NEW q, AtRouter(x, q),
         NEW n \in nodes, n.router = x.at, n.prefix = x.prefix, n.chain = x.chain \o n.inline,
         NEW k \in DOMAIN tree[n.group].endpoints,
         PathMatches(tree[n.group].endpoints[k].path, q.rest)
  PROVE  LET e == OpEntry(n, k)
             o == Operation(n, k)
         IN  /\ (q.ran \o RouterGuards(q.router)) \o e.guards = o.guards
             /\ e.guards \in Chains /\ o.guards \in Chains
             /\ PathMatches(o.path, q.path)
             /\ Binds(o.path, q.path, Captured(e, q.rest, q.bound))
             /\ ~RepeatsParameter(o.path) /\ o.fields = PathPlaceholders(o.path)
             /\ e.kind = "op" /\ e.to = <<o.at, o.nth>> /\ o.at = n.at /\ o.nth = k
             /\ o.method = tree[n.group].endpoints[k].method
  <1> DEFINE e == OpEntry(n, k)
             o == Operation(n, k)
             g == tree[n.group].endpoints[k].guards
             p == tree[n.group].endpoints[k].path
  <1>1. /\ e.kind = "op" /\ e.guards = n.inline \o g /\ e.pattern = p /\ e.to = <<n.at, k>>
    BY DEF OpEntry
  <1>2. Valid(g) = g /\ g \in Chains /\ p \in Spelled
    <2>1. Valid(g) = g BY AllEntered DEF Sound
    <2>2. g \in Seq(Guards \union {ZeroGuard}) /\ p \in Spelled BY RoutesSpelled
    <2>3. Valid(g) \in Chains BY <2>2, ValidChains
    <2> QED BY <2>1, <2>2, <2>3
  <1>3. /\ o.guards = n.chain \o g /\ o.path = n.prefix \o p /\ o.at = n.at /\ o.nth = k
        /\ o.method = tree[n.group].endpoints[k].method
    BY <1>2 DEF Operation
  <1>4. PathMatches(p, q.rest) OBVIOUS
  <1>5. e \in Entries(x.at) BY EntryCases
  <1>6. o \in Operations BY NodeTyped DEF Operations
  <1> HIDE DEF e, o, g, p
  <1>7. /\ q.path \in Seq(Segments) /\ q.rest \in Seq(Segments) /\ q.ran \in Chains
        /\ Under(x.prefix, q.path) /\ Behind(x.prefix, q.path, q.rest)
        /\ Binds(x.prefix, q.path, q.bound)
    BY DEF AtRouter, RoutedTo
  <1>8. x.chain \in Chains /\ n.inline \in Chains /\ n.chain \in Chains /\ x.prefix \in Spelled
    BY NodeTyped
  <1>9. e.guards \in Chains /\ o.guards \in Chains
    BY <1>1, <1>2, <1>3, <1>8, ConcatProperties DEF Chains
  <1>10. (q.ran \o RouterGuards(q.router)) \o e.guards = o.guards
    <2>1. Installed(x.at) BY <1>5 DEF Installed
    <2>2. q.ran \o RouterGuards(q.router) = x.chain BY <2>1, GuardsRun
    <2>3. (x.chain \o n.inline) \o g = x.chain \o (n.inline \o g)
      BY <1>2, <1>8, ChainsAssociate DEF Chains
    <2> QED BY <2>2, <2>3, <1>1, <1>3
  <1>11. PathMatches(o.path, q.path)
    <2>1. /\ Under(x.prefix \o p, q.path) <=> Under(p, q.rest)
          /\ Len(x.prefix \o p) = Len(q.path) <=> Len(p) = Len(q.rest)
      BY <1>2, <1>7, <1>8, UnderSplit
    <2> QED BY <2>1, <1>3, <1>4 DEF PathMatches
  <1>12. Binds(o.path, q.path, Captured(e, q.rest, q.bound))
    <2>1. Len(e.pattern) <= Len(q.rest) BY <1>1, <1>4 DEF PathMatches, Under
    <2>2. Binds(x.prefix \o e.pattern, q.path, Captured(e, q.rest, q.bound))
      BY <1>1, <1>2, <1>7, <1>8, <2>1, BindsOn
    <2> QED BY <2>2, <1>1, <1>3
  <1>13. ~RepeatsParameter(o.path) /\ o.fields = PathPlaceholders(o.path)
    BY <1>6, AllEntered DEF Sound, UnboundParameter
  <1>14. /\ (q.ran \o RouterGuards(q.router)) \o e.guards = o.guards
         /\ e.guards \in Chains /\ o.guards \in Chains
         /\ PathMatches(o.path, q.path)
         /\ Binds(o.path, q.path, Captured(e, q.rest, q.bound))
         /\ ~RepeatsParameter(o.path) /\ o.fields = PathPlaceholders(o.path)
         /\ e.kind = "op" /\ e.to = <<o.at, o.nth>> /\ o.at = n.at /\ o.nth = k
         /\ o.method = tree[n.group].endpoints[k].method
    BY <1>1, <1>3, <1>9, <1>10, <1>11, <1>12, <1>13
  <1> QED BY <1>14 DEF e, o

LEMMA InfraAnswers ==
  ASSUME Sound, NEW x \in nodes, NEW q, AtRouter(x, q),
         NEW n \in nodes, n.router = x.at, n.chain = x.chain \o n.inline,
         NEW k \in DOMAIN tree[n.group].infra
  PROVE  LET e == InfraEntry(n, k)
             i == InfraRoute(n, k)
         IN  /\ (q.ran \o RouterGuards(q.router)) \o e.guards = i.guards
             /\ e.guards \in Chains
             /\ e.kind = "infra" /\ e.to = <<i.at, i.nth>>
  <1> DEFINE e == InfraEntry(n, k)
             i == InfraRoute(n, k)
  <1>1. e.kind = "infra" /\ e.guards = n.inline /\ e.to = <<n.at, k>> BY DEF InfraEntry
  <1>2. i.guards = n.chain /\ i.at = n.at /\ i.nth = k BY DEF InfraRoute
  <1>3. e \in Entries(x.at) BY EntryCases
  <1>4. q.ran \o RouterGuards(q.router) = x.chain BY <1>3, GuardsRun DEF Installed
  <1>5. n.inline \in Chains BY NodeTyped
  <1> QED BY <1>1, <1>2, <1>4, <1>5

\* Bound where the operation's path says.
LEMMA OnePlace ==
  ASSUME NEW template, NEW path, NEW bound, ~RepeatsParameter(template),
         Binds(template, path, bound), NEW f \in PathPlaceholders(template)
  PROVE  /\ f \in DOMAIN bound
         /\ \A i \in DOMAIN template : template[i] = f => bound[f] = path[i]
  <1>1. f \in DOMAIN bound BY DEF Binds
  <1>2. PICK j \in DOMAIN template : template[j] = f /\ bound[f] = path[j] BY DEF Binds
  <1>3. Dynamic(f) BY DEF PathPlaceholders, Dynamic
  <1>4. ASSUME NEW i \in DOMAIN template, template[i] = f PROVE i = j
    BY <1>2, <1>3, <1>4 DEF RepeatsParameter
  <1> QED BY <1>1, <1>2, <1>4

-----------------------------------------------------------------------------
(* No two routes for one request.                                           *)

LEMMA Shifted ==
  ASSUME NEW l \in Nat, NEW n \in Nat, NEW i \in 1 .. n
  PROVE  l + i \in 1 .. l + n
  OBVIOUS

LEMMA ConcatSecond ==
  ASSUME NEW a \in Spelled, NEW b \in Spelled
  PROVE  /\ \A i \in 1 .. Len(b) : (a \o b)[Len(a) + i] = b[i]
         /\ DOMAIN (a \o b) = 1 .. Len(a) + Len(b)
  <1>1. Len(a) \in Nat /\ Len(b) \in Nat BY LenProperties DEF Spelled
  <1>2. /\ a \o b \in Spelled /\ Len(a \o b) = Len(a) + Len(b)
        /\ \A i \in 1 .. Len(a) + Len(b) :
               (a \o b)[i] = IF i <= Len(a) THEN a[i] ELSE b[i - Len(a)]
    BY ConcatProperties DEF Spelled
  <1>3. \A i \in 1 .. Len(b) : /\ Len(a) + i \in 1 .. Len(a) + Len(b)
                               /\ ~(Len(a) + i <= Len(a)) /\ (Len(a) + i) - Len(a) = i
    BY <1>1
  <1>4. \A i \in 1 .. Len(b) : (a \o b)[Len(a) + i] = b[i] BY <1>2, <1>3
  <1> QED BY <1>2, <1>4, LenProperties DEF Spelled

LEMMA SameTemplate ==
  ASSUME NEW a \in Spelled, NEW p \in Spelled, NEW s \in Spelled, Len(p) = Len(s),
         \A i \in 1 .. Len(p) : (Dynamic(p[i]) /\ Dynamic(s[i])) \/ p[i] = s[i]
  PROVE  NormalizePath(a \o p) = NormalizePath(a \o s)
  <1>1. Len(a) \in Nat /\ Len(p) \in Nat BY LenProperties DEF Spelled
  <1>2. /\ a \o p \in Spelled /\ Len(a \o p) = Len(a) + Len(p)
        /\ \A i \in 1 .. Len(a) + Len(p) :
               (a \o p)[i] = IF i <= Len(a) THEN a[i] ELSE p[i - Len(a)]
    BY ConcatProperties DEF Spelled
  <1>3. /\ a \o s \in Spelled /\ Len(a \o s) = Len(a) + Len(p)
        /\ \A i \in 1 .. Len(a) + Len(p) :
               (a \o s)[i] = IF i <= Len(a) THEN a[i] ELSE s[i - Len(a)]
    BY ConcatProperties DEF Spelled
  <1> DEFINE ap == a \o p
             as == a \o s
  <1>4. DOMAIN ap = 1 .. Len(a) + Len(p) /\ DOMAIN as = 1 .. Len(a) + Len(p)
    BY <1>2, <1>3, LenProperties DEF Spelled
  <1> HIDE DEF ap, as
  <1>5. ASSUME NEW i \in 1 .. Len(a) + Len(p)
        PROVE  (Dynamic(ap[i]) /\ Dynamic(as[i])) \/ ap[i] = as[i]
    <2>1. CASE i <= Len(a) BY <2>1, <1>2, <1>3 DEF ap, as
    <2>2. CASE ~(i <= Len(a))
      <3>1. i - Len(a) \in 1 .. Len(p) BY <2>2, <1>1
      <3> QED BY <2>2, <3>1, <1>2, <1>3 DEF ap, as
    <2> QED BY <2>1, <2>2
  <1>6. NormalizePath(ap) = NormalizePath(as) BY <1>4, <1>5 DEF NormalizePath
  <1> QED BY <1>6 DEF ap, as

\* Two routes of one router that rank alike on a path differ at most in names.
LEMMA RankedAlike ==
  ASSUME NEW e, NEW o, e.pattern \in Spelled, o.pattern \in Spelled, NEW rest \in Seq(Segments),
         PathMatches(e.pattern, rest), PathMatches(o.pattern, rest),
         ~Precedes(o, e, rest),
         \A i \in DOMAIN rest : Dynamic(o.pattern[i]) => Dynamic(e.pattern[i])
  PROVE  /\ Len(e.pattern) = Len(o.pattern)
         /\ \A i \in 1 .. Len(e.pattern) :
                \/ Dynamic(e.pattern[i]) /\ Dynamic(o.pattern[i])
                \/ e.pattern[i] = o.pattern[i]
  <1>1. /\ Len(rest) \in Nat /\ DOMAIN rest = 1 .. Len(rest)
        /\ DOMAIN e.pattern = 1 .. Len(e.pattern) /\ DOMAIN o.pattern = 1 .. Len(o.pattern)
    BY LenProperties DEF Spelled
  <1>2. Len(e.pattern) = Len(rest) /\ Len(o.pattern) = Len(rest) BY DEF PathMatches
  <1>3. \A i \in 1 .. Len(rest) :
            /\ Rank(e, i) = IF Dynamic(e.pattern[i]) THEN 1 ELSE 0
            /\ Rank(o, i) = IF Dynamic(o.pattern[i]) THEN 1 ELSE 0
    BY <1>1, <1>2 DEF Rank
  <1>4. \A i \in 1 .. Len(rest) : Rank(o, i) # Rank(e, i) => Rank(o, i) < Rank(e, i)
    BY <1>1, <1>3
  <1>5. \A i \in 1 .. Len(rest) : Rank(o, i) = Rank(e, i)
    <2> DEFINE T == {i \in 1 .. Len(rest) : Rank(o, i) # Rank(e, i)}
    <2> SUFFICES ASSUME T # {} PROVE FALSE OBVIOUS
    <2>1. T \in SUBSET Nat BY <1>1
    <2>2. PICK i \in T : \A j \in T : i <= j BY <2>1, LeastNat
    <2>3. i \in 1 .. Len(rest) /\ Rank(o, i) < Rank(e, i) BY <1>4
    <2>4. \A j \in 1 .. i - 1 : j \in 1 .. Len(rest) /\ ~(i <= j) BY <2>3, <1>1
    <2>5. \A j \in 1 .. i - 1 : Rank(o, j) = Rank(e, j) BY <2>2, <2>4
    <2>6. Precedes(o, e, rest) BY <1>1, <2>3, <2>5 DEF Precedes
    <2> QED BY <2>6
  <1>6. ASSUME NEW i \in 1 .. Len(rest), ~(Dynamic(e.pattern[i]) /\ Dynamic(o.pattern[i]))
        PROVE  e.pattern[i] = o.pattern[i]
    <2>1. ~Dynamic(e.pattern[i]) /\ ~Dynamic(o.pattern[i])
      <3>1. Rank(o, i) = Rank(e, i) BY <1>5
      <3> QED BY <1>3, <1>6, <3>1
    <2>2. e.pattern[i] = rest[i] /\ o.pattern[i] = rest[i]
      BY <1>1, <1>2, <2>1 DEF PathMatches, Under
    <2> QED BY <2>2
  <1> QED BY <1>2, <1>6

\* No two routes claim one method and path.
Claims ==
    {<<"op", o.at, o.nth, o.method, NormalizePath(o.path)>> : o \in Operations}
    \union {<<"infra", i.at, i.nth, i.method, NormalizePath(i.path)>> : i \in InfraRoutes}

Distinct(claims) ==
    \A a \in claims : \A b \in claims : a[4] = b[4] /\ a[5] = b[5] => a = b

LEMMA NoTwins ==
  ASSUME Sound,
         NEW a \in Operations, NEW b \in Operations, a.method = b.method,
         NormalizePath(a.path) = NormalizePath(b.path)
  PROVE  a.at = b.at /\ a.nth = b.nth
  <1>1. ~DuplicateRoute(Operations, InfraRoutes) BY AllEntered DEF Sound
  <1>2. Distinct(Claims) BY <1>1 DEF DuplicateRoute, Distinct, Claims
  <1> DEFINE u == <<"op", a.at, a.nth, a.method, NormalizePath(a.path)>>
             v == <<"op", b.at, b.nth, b.method, NormalizePath(b.path)>>
  <1>3. u \in Claims /\ v \in Claims BY DEF Claims
  <1>4. u[4] = v[4] /\ u[5] = v[5] OBVIOUS
  <1>5. u = v
    <2> HIDE DEF u, v
    <2> QED BY <1>2, <1>3, <1>4 DEF Distinct
  <1> QED BY <1>5

LEMMA NoTwinInfra ==
  ASSUME Sound,
         NEW a \in Operations, NEW b \in InfraRoutes, a.method = b.method,
         NormalizePath(a.path) = NormalizePath(b.path)
  PROVE  FALSE
  <1>1. ~DuplicateRoute(Operations, InfraRoutes) BY AllEntered DEF Sound
  <1>2. Distinct(Claims) BY <1>1 DEF DuplicateRoute, Distinct, Claims
  <1> DEFINE u == <<"op", a.at, a.nth, a.method, NormalizePath(a.path)>>
             v == <<"infra", b.at, b.nth, b.method, NormalizePath(b.path)>>
  <1>3. u \in Claims /\ v \in Claims BY DEF Claims
  <1>4. u[4] = v[4] /\ u[5] = v[5] OBVIOUS
  <1>5. u = v
    <2> HIDE DEF u, v
    <2> QED BY <1>2, <1>3, <1>4 DEF Distinct
  <1>6. u[1] # v[1] OBVIOUS
  <1> QED BY <1>5, <1>6

\* What answers a path that is only an operation's own.
LEMMA Uncontested ==
  ASSUME Sound, NEW x \in nodes, NEW q, AtRouter(x, q),
         NEW e \in Found(q.router, q.method, q.rest), Ends(x, q), e.kind # "mount",
         NEW o \in ops, o.method = q.method, PathMatches(o.path, q.path),
         \A i \in DOMAIN o.path : Dynamic(o.path[i]) => ~Literal(q.path[i])
  PROVE  e.kind = "op" /\ e.to = <<o.at, o.nth>>
  <1>1. PICK m \in nodes : \E j \in DOMAIN tree[m.group].endpoints : o = Operation(m, j)
    BY DEF Sound, Operations
  <1>2. PICK j \in DOMAIN tree[m.group].endpoints : o = Operation(m, j) BY <1>1
  <1> DEFINE p == tree[m.group].endpoints[j].path
             f == OpEntry(m, j)
  <1>3. /\ o.path = m.prefix \o p /\ o.at = m.at /\ o.nth = j
        /\ o.method = tree[m.group].endpoints[j].method
    BY <1>2 DEF Operation
  <1>4. tree[m.group].endpoints[j] \in RoutesOf(m) BY DEF RoutesOf
  <1>5. m.router = x.at /\ PathMatches(p, q.rest) BY <1>3, <1>4, EndsAtRouter
  <1>6. f \in Entries(x.at) /\ Matches(f, q.method, q.rest) /\ f.pattern = p /\ p \in Spelled
    <2>1. f \in Entries(x.at) BY <1>5, EntryCases
    <2>2. Matches(f, q.method, q.rest) BY <1>3, <1>5, MatchesUnder
    <2>3. f.pattern = p BY DEF OpEntry
    <2>4. p \in Spelled BY RoutesSpelled
    <2> QED BY <2>1, <2>2, <2>3, <2>4
  <1>7. ~Precedes(f, e, q.rest) BY <1>6 DEF Found, AtRouter, RoutedTo
  <1>8. m.prefix = x.prefix
    <2>1. PICK z \in nodes : Serves(z, m) BY DEF Sound, Shape
    <2>2. z = x BY <2>1, <1>5, OneNode DEF Serves
    <2> QED BY <2>1, <2>2 DEF Serves
  <1>9. /\ q.path \in Seq(Segments) /\ q.rest \in Seq(Segments) /\ x.prefix \in Spelled
        /\ Behind(x.prefix, q.path, q.rest)
    BY NodeTyped DEF AtRouter, RoutedTo
  <1> HIDE DEF p, f
  <1>10. ASSUME NEW s \in ops \union InfraRoutes, s.path = x.prefix \o e.pattern,
                e.pattern \in Spelled, PathMatches(e.pattern, q.rest), s.method = q.method
         PROVE  NormalizePath(o.path) = NormalizePath(s.path)
    <2>1. /\ Len(x.prefix) \in Nat /\ Len(q.rest) \in Nat /\ DOMAIN q.rest = 1 .. Len(q.rest)
          /\ Len(e.pattern) = Len(q.rest) /\ Len(p) = Len(q.rest)
          /\ DOMAIN e.pattern = 1 .. Len(q.rest) /\ DOMAIN p = 1 .. Len(q.rest)
      BY <1>5, <1>6, <1>9, <1>10, LenProperties DEF Spelled, PathMatches
    <2>2. /\ \A i \in 1 .. Len(q.rest) : (x.prefix \o p)[Len(x.prefix) + i] = p[i]
          /\ DOMAIN (x.prefix \o p) = 1 .. Len(x.prefix) + Len(q.rest)
      <3>1. /\ \A i \in 1 .. Len(p) : (x.prefix \o p)[Len(x.prefix) + i] = p[i]
            /\ DOMAIN (x.prefix \o p) = 1 .. Len(x.prefix) + Len(p)
        BY <1>6, <1>9, ConcatSecond
      <3> QED BY <3>1, <2>1
    <2>3. /\ \A i \in 1 .. Len(q.rest) : (x.prefix \o e.pattern)[Len(x.prefix) + i] = e.pattern[i]
          /\ DOMAIN (x.prefix \o e.pattern) = 1 .. Len(x.prefix) + Len(q.rest)
      <3>1. /\ \A i \in 1 .. Len(e.pattern) :
                    (x.prefix \o e.pattern)[Len(x.prefix) + i] = e.pattern[i]
            /\ DOMAIN (x.prefix \o e.pattern) = 1 .. Len(x.prefix) + Len(e.pattern)
        BY <1>9, <1>10, ConcatSecond
      <3> QED BY <3>1, <2>1
    <2>4. ASSUME NEW i \in DOMAIN q.rest, Dynamic(f.pattern[i]), ~Dynamic(e.pattern[i])
          PROVE  FALSE
      <3>1. e.pattern[i] = q.rest[i]
        <4>1. i \in DOMAIN e.pattern /\ Under(e.pattern, q.rest)
          BY <1>10, <2>1 DEF PathMatches
        <4> QED BY <2>4, <4>1 DEF Under
      <3>2. q.rest[i] = q.path[Len(x.prefix) + i] BY <1>9 DEF Behind
      <3>3. Len(x.prefix) + i \in 1 .. Len(x.prefix) + Len(q.rest)
        BY <2>1, Shifted
      <3>4. s.path[Len(x.prefix) + i] = e.pattern[i] /\ Len(x.prefix) + i \in DOMAIN s.path
        BY <1>10, <2>1, <2>3, <3>3
      <3>5. Literal(q.path[Len(x.prefix) + i]) BY <3>1, <3>2, <3>4 DEF Literal
      <3>6. Len(x.prefix) + i \in DOMAIN o.path /\ o.path[Len(x.prefix) + i] = f.pattern[i]
        BY <1>3, <1>6, <1>8, <2>1, <2>2, <3>3
      <3> QED BY <3>5, <3>6, <2>4
    <2>5. /\ Len(e.pattern) = Len(f.pattern)
          /\ \A i \in 1 .. Len(e.pattern) :
                \/ Dynamic(e.pattern[i]) /\ Dynamic(f.pattern[i])
                \/ e.pattern[i] = f.pattern[i]
      BY <1>5, <1>6, <1>7, <1>9, <1>10, <2>4, RankedAlike
    <2>6. NormalizePath(x.prefix \o p) = NormalizePath(x.prefix \o e.pattern)
      <3>1. \A i \in 1 .. Len(p) :
                (Dynamic(p[i]) /\ Dynamic(e.pattern[i])) \/ p[i] = e.pattern[i]
        BY <1>6, <2>1, <2>5
      <3> QED BY <1>6, <1>9, <1>10, <2>1, <3>1, SameTemplate
    <2> QED BY <2>6, <1>3, <1>8, <1>10
  <1>11. PICK n \in nodes :
             /\ n.router = x.at /\ n.prefix = x.prefix
             /\ \/ \E k \in DOMAIN tree[n.group].endpoints :
                       /\ e = OpEntry(n, k)
                       /\ tree[n.group].endpoints[k].method = q.method
                       /\ PathMatches(tree[n.group].endpoints[k].path, q.rest)
                \/ \E k \in DOMAIN tree[n.group].infra :
                       /\ e = InfraEntry(n, k)
                       /\ tree[n.group].infra[k].method = q.method
                       /\ PathMatches(tree[n.group].infra[k].path, q.rest)
    BY RouteFound
  <1>12. ASSUME NEW k \in DOMAIN tree[n.group].endpoints, e = OpEntry(n, k),
                tree[n.group].endpoints[k].method = q.method,
                PathMatches(tree[n.group].endpoints[k].path, q.rest)
         PROVE  e.kind = "op" /\ e.to = <<o.at, o.nth>>
    <2> DEFINE s == Operation(n, k)
    <2>1. /\ e.kind = "op" /\ e.pattern = tree[n.group].endpoints[k].path /\ e.to = <<n.at, k>>
      BY <1>12 DEF OpEntry
    <2>2. e.pattern \in Spelled BY <2>1, RoutesSpelled
    <2>3. s \in ops BY AnsweredIs
    <2>4. s.path = x.prefix \o e.pattern /\ s.method = q.method /\ s.at = n.at /\ s.nth = k
      BY <1>11, <1>12, <2>1 DEF Operation
    <2> HIDE DEF s
    <2>5. NormalizePath(o.path) = NormalizePath(s.path) BY <1>10, <1>12, <2>1, <2>2, <2>3, <2>4
    <2>6. o.at = s.at /\ o.nth = s.nth BY <2>3, <2>4, <2>5, NoTwins DEF Sound
    <2> QED BY <2>1, <2>4, <2>6
  <1>13. ASSUME NEW k \in DOMAIN tree[n.group].infra, e = InfraEntry(n, k),
                tree[n.group].infra[k].method = q.method,
                PathMatches(tree[n.group].infra[k].path, q.rest)
         PROVE  FALSE
    <2> DEFINE s == InfraRoute(n, k)
    <2>1. e.pattern = tree[n.group].infra[k].path BY <1>13 DEF InfraEntry
    <2>2. e.pattern \in Spelled BY <2>1, RoutesSpelled
    <2>3. s \in InfraRoutes BY InfraIs
    <2>4. s.path = x.prefix \o e.pattern /\ s.method = q.method
      BY <1>11, <1>13, <2>1 DEF InfraRoute
    <2> HIDE DEF s
    <2>5. NormalizePath(o.path) = NormalizePath(s.path) BY <1>10, <1>13, <2>1, <2>2, <2>3, <2>4
    <2> QED BY <2>3, <2>4, <2>5, NoTwinInfra DEF Sound
  <1> QED BY <1>11, <1>12, <1>13

-----------------------------------------------------------------------------
(* Requests.                                                                *)

ServedInv ==
    /\ GuardedAsDocumented
    /\ NoBypass
    /\ ServedAsDocumented
    /\ ParametersBound
    /\ SecurityHonest

RoutesInv == CompiledInv /\ Routed /\ ServedInv

LEMMA NotServing ==
  ASSUME request.outcome \notin {"op", "infra", "unmatched"}
  PROVE  ServedInv
  BY DEF ServedInv, GuardedAsDocumented, NoBypass, ServedAsDocumented, ParametersBound,
         SecurityHonest

LEMMA SameRouting ==
  ASSUME tree' = tree, nodes' = nodes, ops' = ops
  PROVE  /\ \A x, q : RoutedTo(x, q)' <=> RoutedTo(x, q)
         /\ \A r : NodeAt(r)' = NodeAt(r)
         /\ \A r : Installed(r)' <=> Installed(r)
         /\ \A s : Literal(s)' <=> Literal(s)
         /\ InfraRoutes' = InfraRoutes
  <1>1. \A g : GuardsOf(g)' = GuardsOf(g) BY SameTree
  <1>2. \A n : RoutesOf(n)' = RoutesOf(n) BY DEF RoutesOf
  <1>3. \A x, q : OnTheWay(x, q)' <=> OnTheWay(x, q) BY <1>2 DEF OnTheWay
  <1>4. \A x, q : RoutedTo(x, q)' <=> RoutedTo(x, q) BY <1>1, <1>3 DEF RoutedTo
  <1>5. \A r : NodeAt(r)' = NodeAt(r) BY DEF NodeAt
  <1>6. \A r : Entries(r)' = Entries(r)
    BY DEF Entries, RouteEntries, MountEntries, Mounted, OpEntry, InfraEntry
  <1>7. \A r : Installed(r)' <=> Installed(r) BY <1>6 DEF Installed
  <1>8. InfraRoutes' = InfraRoutes BY SameNodes
  <1>9. \A s : Literal(s)' <=> Literal(s) BY <1>8 DEF Literal
  <1> QED BY <1>4, <1>5, <1>7, <1>8, <1>9

LEMMA BuiltSound ==
  ASSUME CompiledInv, phase = "built"
  PROVE  Sound
  <1>1. Shape(nodes \union work, work, nodes) /\ work = {} BY DEF CompiledInv, Compiled
  <1>2. nodes \union work = nodes BY <1>1
  <1> QED BY <1>1, <1>2 DEF CompiledInv, Compiled, Sound

LEMMA RoutesStart == Init => RoutesInv
  <1> SUFFICES ASSUME Init PROVE RoutesInv OBVIOUS
  <1>1. CompiledInv BY CompiledStart
  <1>2. request = NoRequest BY DEF Init
  <1>3. request.outcome = "none" BY <1>2 DEF NoRequest
  <1>4. ServedInv BY <1>3, NotServing
  <1>5. Routed BY <1>2, <1>3 DEF Routed
  <1> QED BY <1>1, <1>4, <1>5 DEF RoutesInv

LEMMA Quiet ==
  ASSUME request' = NoRequest, CompiledInv'
  PROVE  RoutesInv'
  <1>1. request'.outcome = "none" BY DEF NoRequest
  <1>2. Routed' BY <1>1 DEF Routed
  <1>3. ServedInv'
    BY <1>1 DEF ServedInv, GuardedAsDocumented, NoBypass, ServedAsDocumented, ParametersBound,
                SecurityHonest
  <1> QED BY <1>2, <1>3 DEF RoutesInv

LEMMA ArrivesAtRoot ==
  ASSUME Sound, NEW q, q.path \in Seq(Segments), q.rest = q.path, q.router = << >>,
         q.ran = << >>
  PROVE  AtRouter(RootNode, q) /\ RootNode \in nodes
  <1>1. RootNode \in nodes BY DEF Sound, Shape
  <1>2. /\ RootNode.at = << >> /\ RootNode.router = << >> /\ RootNode.link = << >>
        /\ RootNode.chain = GuardsOf(Root) /\ RootNode.prefix = << >> /\ RootNode.group = Root
    BY DEF RootNode
  <1>3. GuardsOf(Root) \in Chains BY GuardsOfChains, RoutesAssumption DEF Sound
  <1>4. << >> \in Chains BY EmptySeq DEF Chains
  <1>5. GuardsOf(Root) = q.ran \o GuardsOf(Root) BY <1>3, ConcatEmptySeq DEF Chains
  <1>6. Len(q.path) \in Nat BY LenProperties
  <1>7. Under(RootNode.prefix, q.path) BY <1>2, <1>6 DEF Under
  <1>8. Behind(RootNode.prefix, q.path, q.rest)
    <2>1. Len(RootNode.prefix) = 0 BY <1>2, EmptySeq
    <2>2. DOMAIN q.rest = 1 .. Len(q.path) BY LenProperties
    <2>3. \A i \in 1 .. Len(q.path) : 0 + i = i BY <1>6
    <2> QED BY <1>6, <2>1, <2>2, <2>3 DEF Behind
  <1>9. Binds(RootNode.prefix, q.path, q.bound) BY <1>2 DEF Binds, PathPlaceholders
  <1>10. OnTheWay(RootNode, q)
    <2>1. ASSUME NEW n \in nodes PROVE Extends(n.at, RootNode.at)
      <3>1. n.at \in Seq(Place) BY NodeTyped
      <3>2. Len(n.at) \in Nat BY <3>1, LenProperties
      <3> QED BY <1>2, <3>2, EmptySeq DEF Extends
    <2>2. ASSUME NEW n \in nodes, Extends(RootNode.at, n.at) PROVE n.at = RootNode.at
      <3>1. n.at \in Seq(Place) /\ RootNode.at \in Seq(Place) BY <1>1, NodeTyped
      <3>2. Len(RootNode.at) <= Len(n.at)
        <4>1. Extends(n.at, RootNode.at) BY <2>1
        <4> QED BY <4>1 DEF Extends
      <3> QED BY <2>2, <3>1, <3>2, ExtendsSame
    <2> QED BY <2>1, <2>2 DEF OnTheWay
  <1>11. IsRouter(RootNode) BY <1>2, InlineIsNoPath DEF IsRouter
  <1>12. RoutedTo(RootNode, q) BY <1>2, <1>5, <1>7, <1>8, <1>9, <1>10, <1>11 DEF RoutedTo
  <1> QED BY <1>1, <1>4, <1>12 DEF AtRouter

LEMMA StillRouted ==
  ASSUME tree' = tree, nodes' = nodes, phase' = "built",
         NEW t, t = request', NEW m \in nodes, AtRouter(m, t),
         DOMAIN t = {"method", "path", "router", "rest", "ran", "bound", "outcome", "to"}
  PROVE  Routed'
  <1>1. RoutedTo(m, t) /\ t.path \in Seq(Segments) /\ t.rest \in Seq(Segments) /\ t.ran \in Chains
    BY DEF AtRouter
  <1>2. /\ m \in nodes' /\ m.at = request'.router /\ IsRouter(m)
        /\ m.chain = request'.ran \o (GuardsOf(m.group)')
        /\ Under(m.prefix, request'.path) /\ Behind(m.prefix, request'.path, request'.rest)
        /\ Binds(m.prefix, request'.path, request'.bound)
    <2>1. GuardsOf(m.group)' = GuardsOf(m.group) BY DEF GuardsOf
    <2> QED BY <1>1, <2>1 DEF RoutedTo
  <1>3. \A n \in nodes' : n.link # Inline /\ Under(n.prefix, request'.path) =>
            Extends(n.at, m.at) \/ Extends(m.at, n.at)
    BY <1>1 DEF RoutedTo, OnTheWay
  <1>4. \A n \in nodes' : \A r \in RoutesOf(n)' :
            r.method = request'.method /\ PathMatches(n.prefix \o r.path, request'.path) =>
                Extends(n.at, m.at)
    <2>1. \A n : RoutesOf(n)' = RoutesOf(n) BY DEF RoutesOf
    <2>2. \A n \in nodes : \A r \in RoutesOf(n) :
              r.method = t.method /\ PathMatches(n.prefix \o r.path, t.path) => Extends(n.at, m.at)
      BY <1>1 DEF RoutedTo, OnTheWay
    <2> QED BY <2>1, <2>2
  <1>5. \A n \in nodes' : n.link # Inline /\ Extends(m.at, n.at) /\ n.at # m.at =>
            Extends(request'.ran, n.chain)
    BY <1>1 DEF RoutedTo, OnTheWay
  <1>6. \E x \in nodes' : RoutedTo(x, request)'
    BY <1>2, <1>3, <1>4, <1>5 DEF RoutedTo, OnTheWay, GuardsOf
  <1> QED BY <1>1, <1>6 DEF Routed

LEMMA ArriveStep ==
  ASSUME RoutesInv, NEW method \in Methods, NEW path \in Paths, Arrive(method, path), CompiledInv'
  PROVE  RoutesInv'
  <1>1. /\ phase = "built" /\ phase' = phase /\ tree' = tree /\ nodes' = nodes /\ ops' = ops
        /\ request' = [method |-> method, path |-> path, router |-> << >>, rest |-> path,
                       ran |-> << >>, bound |-> << >>, outcome |-> "routing", to |-> << >>]
    BY DEF Arrive
  <1>2. Sound BY <1>1, BuiltSound DEF RoutesInv
  <1>3. path \in Seq(Segments)
    <2>1. PICK n \in 0 .. MaxPath : path \in [1 .. n -> Segments] BY DEF Paths
    <2>0. MaxPath \in Nat BY RoutesAssumption
    <2>2. n \in Nat BY <2>0
    <2>3. [1 .. n -> Segments] \in {[1 .. k -> Segments] : k \in Nat} BY <2>2
    <2>4. path \in UNION {[1 .. k -> Segments] : k \in Nat} BY <2>1, <2>3
    <2> QED BY <2>4, SeqDef
  <1>0. PICK t : t = request' OBVIOUS
  <1>4. /\ t.path = path /\ t.rest = path /\ t.router = << >> /\ t.ran = << >>
        /\ t.outcome = "routing"
        /\ DOMAIN t = {"method", "path", "router", "rest", "ran", "bound", "outcome", "to"}
    BY <1>0, <1>1
  <1>5. AtRouter(RootNode, t) /\ RootNode \in nodes BY <1>2, <1>3, <1>4, ArrivesAtRoot
  <1>6. PICK z : z = RootNode OBVIOUS
  <1>7. Routed' BY <1>0, <1>1, <1>4, <1>5, <1>6, StillRouted
  <1>8. ServedInv'
    BY <1>0, <1>4 DEF ServedInv, GuardedAsDocumented, NoBypass, ServedAsDocumented, ParametersBound,
                SecurityHonest
  <1> QED BY <1>7, <1>8 DEF RoutesInv

\* A router hands the request to a subrouter.
LEMMA MountStep ==
  ASSUME RoutesInv, CompiledInv', Sound, NEW x \in nodes, AtRouter(x, request),
         phase = "built", UNCHANGED <<tree, attached, phase, work, nodes, ops>>,
         DOMAIN request = {"method", "path", "router", "rest", "ran", "bound", "outcome", "to"},
         NEW e \in Found(request.router, request.method, request.rest), e.kind = "mount",
         request' = [request EXCEPT
                      !.ran = (request.ran \o RouterGuards(request.router)) \o e.guards,
                      !.bound = Captured(e, request.rest, @),
                      !.rest = SubSeq(@, Len(e.pattern) + 1, Len(@)),
                      !.router = e.to,
                      !.outcome = "routing",
                      !.to = e.to]
  PROVE  RoutesInv'
  <1>0. PICK t : t = request' OBVIOUS
  <1>1. /\ t.path = request.path /\ t.method = request.method /\ t.router = e.to
        /\ t.ran = (request.ran \o RouterGuards(request.router)) \o e.guards
        /\ t.bound = Captured(e, request.rest, request.bound)
        /\ t.rest = SubSeq(request.rest, Len(e.pattern) + 1, Len(request.rest))
        /\ t.outcome = "routing"
        /\ DOMAIN t = {"method", "path", "router", "rest", "ran", "bound", "outcome", "to"}
    BY <1>0
  <1>2. request.router = x.at BY DEF AtRouter, RoutedTo
  <1>3. e \in Entries(x.at) /\ Matches(e, request.method, request.rest) BY <1>2 DEF Found
  <1>4. PICK m \in Mounted : m.outer.router = x.at /\ e = MountEntry(m)
    <2>1. \A n, k : OpEntry(n, k).kind = "op" /\ InfraEntry(n, k).kind = "infra"
      BY DEF OpEntry, InfraEntry
    <2>2. \A n, k : e # OpEntry(n, k) /\ e # InfraEntry(n, k) BY <2>1
    <2> QED BY <1>3, <2>2, EntryCases
  <1>5. e.to = m.at /\ e.guards = m.outer.guards /\ e.pattern = m.link
    BY <1>4 DEF MountEntry
  <1>6. Under(m.link, request.rest) BY <1>3, <1>4, MatchesUnder
  <1>7. request.ran \o RouterGuards(request.router) = x.chain
    BY <1>3, GuardsRun DEF Installed
  <1>8. AtRouter(m, t)
    <2>1. /\ m.outer.router = x.at /\ Under(m.link, request.rest)
          /\ t.path = request.path /\ t.method = request.method /\ t.router = m.at
          /\ t.rest = SubSeq(request.rest, Len(m.link) + 1, Len(request.rest))
          /\ t.ran = x.chain \o m.outer.guards
          /\ t.bound = Captured(MountEntry(m), request.rest, request.bound)
      BY <1>1, <1>4, <1>5, <1>6, <1>7
    <2> QED BY <2>1, HandedOver
  <1>9. m \in nodes BY DEF Mounted
  <1>10. tree' = tree /\ nodes' = nodes /\ phase' = "built" OBVIOUS
  <1>11. Routed' BY <1>0, <1>1, <1>8, <1>9, <1>10, StillRouted
  <1>12. ServedInv'
    BY <1>0, <1>1 DEF ServedInv, GuardedAsDocumented, NoBypass, ServedAsDocumented,
                      ParametersBound, SecurityHonest
  <1> QED BY <1>11, <1>12 DEF RoutesInv

\* No router of the application has a route for the request.
LEMMA UnmatchedStep ==
  ASSUME RoutesInv, CompiledInv', Sound, NEW x \in nodes, AtRouter(x, request),
         phase = "built", UNCHANGED <<tree, attached, phase, work, nodes, ops>>,
         DOMAIN request = {"method", "path", "router", "rest", "ran", "bound", "outcome", "to"},
         Found(request.router, request.method, request.rest) = {},
         request' = [request EXCEPT !.ran = request.ran \o RouterGuards(request.router),
                                    !.outcome = "unmatched"]
  PROVE  RoutesInv'
  <1>0. PICK t : t = request' OBVIOUS
  <1>1. /\ t.path = request.path /\ t.method = request.method /\ t.outcome = "unmatched"
        /\ t.ran = request.ran \o RouterGuards(request.router)
    BY <1>0
  <1>2. Ends(x, request) BY FoundEnds
  <1>3. /\ request.router = x.at /\ request.rest \in Seq(Segments) /\ request.ran \in Chains
    BY DEF AtRouter, RoutedTo
  <1>4. ASSUME NEW n \in nodes, n.link # Inline, Under(n.prefix, t.path), Installed(n.at),
               NEW i \in DOMAIN n.chain
        PROVE  \E j \in DOMAIN t.ran : t.ran[j] = n.chain[i]
    <2>1. << >> \in Chains BY EmptySeq DEF Chains
    <2>2. t.ran \in Chains
      <3>1. RouterGuards(request.router) = << >>
            \/ RouterGuards(request.router) = GuardsOf(x.group)
        BY <1>3, RouterAt DEF RouterGuards
      <3>2. GuardsOf(x.group) \in Chains
        <4>1. x.group \in Groups BY NodeTyped
        <4> QED BY <4>1, GuardsOfChains DEF Sound
      <3>3. RouterGuards(request.router) \in Chains BY <2>1, <3>1, <3>2
      <3>4. request.ran \o RouterGuards(request.router) \in Chains
        BY <1>3, <3>3, ConcatProperties DEF Chains
      <3> QED BY <1>1, <3>4
    <2>3. t.ran \o << >> = t.ran BY <2>2, ConcatEmptySeq DEF Chains
    <2>4. t.ran = (request.ran \o RouterGuards(request.router)) \o << >> BY <1>1, <2>3
    <2>5. n.link # Inline /\ Under(n.prefix, request.path) /\ Installed(n.at) BY <1>1, <1>4
    <2>6. \A k \in DOMAIN n.chain :
              \E j \in DOMAIN Met(request, << >>) : Met(request, << >>)[j] = n.chain[k]
      BY <1>2, <2>1, <2>5, GuardsMet
    <2> QED BY <2>4, <2>6 DEF Met
  <1>5. ASSUME NEW o \in ops, o.method = t.method, PathMatches(o.path, t.path) PROVE FALSE
    <2>1. PICK m \in nodes : \E j \in DOMAIN tree[m.group].endpoints : o = Operation(m, j)
      BY DEF Sound, Operations
    <2>2. PICK j \in DOMAIN tree[m.group].endpoints : o = Operation(m, j) BY <2>1
    <2>3. /\ o.path = m.prefix \o tree[m.group].endpoints[j].path
          /\ o.method = tree[m.group].endpoints[j].method
      BY <2>2 DEF Operation
    <2>4. tree[m.group].endpoints[j] \in RoutesOf(m) BY DEF RoutesOf
    <2>5. m.router = x.at /\ PathMatches(tree[m.group].endpoints[j].path, request.rest)
      BY <1>1, <1>2, <1>5, <2>3, <2>4, EndsAtRouter
    <2>6. OpEntry(m, j) \in Entries(x.at) BY <2>5, EntryCases
    <2>7. Matches(OpEntry(m, j), request.method, request.rest)
      BY <1>1, <1>5, <2>3, <2>5, MatchesUnder
    <2>8. Len(request.rest) \in Nat /\ DOMAIN request.rest = 1 .. Len(request.rest)
      BY <1>3, LenProperties
    <2> QED BY <1>3, <2>6, <2>7, <2>8, FoundSome
  <1>6. NoBypass' BY <1>0, <1>1, <1>4, SameRouting DEF NoBypass
  <1>7. ServedAsDocumented' BY <1>0, <1>1, <1>5 DEF ServedAsDocumented
  <1>8. GuardedAsDocumented' /\ ParametersBound' /\ SecurityHonest'
    BY <1>0, <1>1 DEF GuardedAsDocumented, ParametersBound, SecurityHonest
  <1>9. Routed' BY <1>0, <1>1 DEF Routed
  <1> QED BY <1>6, <1>7, <1>8, <1>9 DEF RoutesInv, ServedInv

-----------------------------------------------------------------------------
(* What answers a request, and what it documents.                           *)

LEMMA FunctionIsSeq ==
  ASSUME NEW S, NEW m \in Nat, NEW f \in [1 .. m -> S]
  PROVE  f \in Seq(S) /\ Len(f) = m
  <1>1. [1 .. m -> S] \in {[1 .. j -> S] : j \in Nat} OBVIOUS
  <1>2. f \in UNION {[1 .. j -> S] : j \in Nat} BY <1>1
  <1>3. f \in Seq(S) BY <1>2, SeqDef
  <1>4. 1 .. m = 1 .. Len(f) /\ Len(f) \in Nat BY <1>3, LenProperties
  <1> QED BY <1>3, <1>4

\* What an operation documents is what its guards and itself ask for.
LEMMA DocumentedSecurity ==
  ASSUME Sound, NEW n \in nodes, NEW k \in DOMAIN tree[n.group].endpoints,
         NEW o, o = Operation(n, k), o.guards \in Chains, NEW presented \in CredentialSets
  PROVE  Satisfied(o.security, presented)
           <=> /\ \A i \in DOMAIN o.guards : Satisfied(Requirement[o.guards[i]], presented)
               /\ Satisfied(tree[n.group].endpoints[k].security, presented)
  <1> DEFINE own == tree[n.group].endpoints[k].security
             chain == [i \in DOMAIN o.guards |-> Requirement[o.guards[i]]]
  <1>1. o.guards = n.chain \o Valid(tree[n.group].endpoints[k].guards) BY DEF Operation
  <1>2. o.security = OperationSecurity(chain, own) BY <1>1 DEF Operation
  <1>3. own \in RequirementSets
    <2>1. ValidRequirement(own) BY AllEntered DEF Sound
    <2> QED BY <2>1 DEF ValidRequirement, RequirementSets, CredentialSets
  <1>4. /\ DOMAIN o.guards = 1 .. Len(o.guards) /\ Len(o.guards) \in Nat
        /\ \A i \in DOMAIN o.guards : o.guards[i] \in Guards
    BY ElementOfSeq, LenProperties DEF Chains
  <1>5. \A i \in DOMAIN o.guards : Requirement[o.guards[i]] \in RequirementSets
    BY <1>4, RoutesAssumption
  <1>6. chain \in [1 .. Len(o.guards) -> RequirementSets] BY <1>4, <1>5
  <1>7. chain \in Seq(RequirementSets) /\ Len(chain) = Len(o.guards)
    BY <1>4, <1>6, FunctionIsSeq
  <1>8. \A i \in DOMAIN o.guards : chain[i] = Requirement[o.guards[i]] OBVIOUS
  <1> HIDE DEF own, chain
  <1>9. Satisfied(OperationSecurity(chain, own), presented)
           <=> /\ \A i \in 1 .. Len(chain) : Satisfied(chain[i], presented)
               /\ Satisfied(own, presented)
    BY <1>3, <1>7, SecuritySatisfied
  <1>10. (\A i \in 1 .. Len(chain) : Satisfied(chain[i], presented))
         <=> \A i \in DOMAIN o.guards : Satisfied(Requirement[o.guards[i]], presented)
    BY <1>4, <1>7, <1>8
  <1>11. Satisfied(o.security, presented)
           <=> /\ \A i \in DOMAIN o.guards : Satisfied(Requirement[o.guards[i]], presented)
               /\ Satisfied(own, presented)
    BY <1>2, <1>9, <1>10
  <1> QED BY <1>11 DEF own

\* How operation o answers request t.
Answers(o, t) ==
    /\ o \in ops /\ \A p \in ops : <<p.at, p.nth>> = t.to => p = o
    /\ t.to = <<o.at, o.nth>>
    /\ t.ran = o.guards
    /\ o.method = t.method /\ PathMatches(o.path, t.path)
    /\ \A f \in o.fields :
           /\ f \in DOMAIN t.bound /\ f \in PathPlaceholders(o.path)
           /\ \A i \in DOMAIN o.path : o.path[i] = f => t.bound[f] = t.path[i]
    /\ \A presented \in CredentialSets :
           Satisfied(o.security, presented)
             <=> /\ \A i \in DOMAIN t.ran : Satisfied(Requirement[t.ran[i]], presented)
                 /\ Satisfied(tree[NodeAt(o.at).group].endpoints[o.nth].security, presented)

LEMMA OperationServes ==
  ASSUME Sound, NEW x \in nodes, NEW q, AtRouter(x, q),
         NEW n \in nodes, n.router = x.at, n.prefix = x.prefix, n.chain = x.chain \o n.inline,
         NEW k \in DOMAIN tree[n.group].endpoints,
         tree[n.group].endpoints[k].method = q.method,
         PathMatches(tree[n.group].endpoints[k].path, q.rest),
         NEW e, e = OpEntry(n, k),
         NEW t, t.path = q.path, t.method = q.method, t.ran = Met(q, e.guards),
         t.bound = Captured(e, q.rest, q.bound), t.to = e.to
  PROVE  \E o \in ops : Answers(o, t)
  <1>1. PICK o : o = Operation(n, k) OBVIOUS
  <1>2. /\ Met(q, e.guards) = o.guards
        /\ o.guards \in Chains
        /\ PathMatches(o.path, q.path)
        /\ Binds(o.path, q.path, Captured(e, q.rest, q.bound))
        /\ ~RepeatsParameter(o.path) /\ o.fields = PathPlaceholders(o.path)
        /\ e.to = <<o.at, o.nth>> /\ o.at = n.at /\ o.nth = k
        /\ o.method = tree[n.group].endpoints[k].method
    BY <1>1, OperationAnswers DEF Met
  <1>3. o \in ops /\ \A p \in ops : <<p.at, p.nth>> = t.to => p = o
    <2>1. t.to = <<n.at, k>> BY <1>2
    <2> QED BY <1>1, <2>1, AnsweredIs
  <1>4. ASSUME NEW f \in o.fields
        PROVE  /\ f \in DOMAIN t.bound /\ f \in PathPlaceholders(o.path)
               /\ \A i \in DOMAIN o.path : o.path[i] = f => t.bound[f] = t.path[i]
    <2>1. f \in PathPlaceholders(o.path) /\ Binds(o.path, t.path, t.bound) BY <1>2
    <2> QED BY <1>2, <2>1, OnePlace
  <1>5. ASSUME NEW presented \in CredentialSets
        PROVE  Satisfied(o.security, presented)
                 <=> /\ \A i \in DOMAIN t.ran : Satisfied(Requirement[t.ran[i]], presented)
                     /\ Satisfied(tree[NodeAt(o.at).group].endpoints[o.nth].security, presented)
    <2>1. NodeAt(o.at) = n BY <1>2, RouterAt
    <2>2. t.ran = o.guards BY <1>2
    <2>3. Satisfied(o.security, presented)
           <=> /\ \A i \in DOMAIN o.guards : Satisfied(Requirement[o.guards[i]], presented)
               /\ Satisfied(tree[n.group].endpoints[k].security, presented)
      BY <1>1, <1>2, DocumentedSecurity
    <2> QED BY <1>2, <2>1, <2>2, <2>3
  <1>6. Answers(o, t) BY <1>2, <1>3, <1>4, <1>5 DEF Answers
  <1> QED BY <1>3, <1>6

\* What a router that answers a request for good leaves of it.
Closed(t) ==
    /\ \A n \in nodes : n.link # Inline /\ Under(n.prefix, t.path) /\ Installed(n.at) =>
           \A i \in DOMAIN n.chain : \E j \in DOMAIN t.ran : t.ran[j] = n.chain[i]
    /\ \A p \in ops :
           /\ p.method = t.method /\ PathMatches(p.path, t.path)
           /\ \A i \in DOMAIN p.path : Dynamic(p.path[i]) => ~Literal(t.path[i])
           => t.outcome = "op" /\ t.to = <<p.at, p.nth>>

LEMMA ClosedKept ==
  ASSUME tree' = tree, nodes' = nodes, ops' = ops, NEW t, t = request', Closed(t),
         t.outcome \in {"op", "infra"}
  PROVE  /\ NoBypass'
         /\ \A p \in ops' :
               /\ p.method = request'.method
               /\ PathMatches(p.path, request'.path)
               /\ \A i \in DOMAIN p.path : Dynamic(p.path[i]) => ~(Literal(request.path[i])')
               => request'.outcome = "op" /\ request'.to = <<p.at, p.nth>>
  <1>1. \A r : Installed(r)' <=> Installed(r) BY SameRouting
  <1>2. \A s : Literal(s)' <=> Literal(s) BY SameRouting
  <1>3. ASSUME NEW n \in nodes, n.link # Inline, Under(n.prefix, t.path), Installed(n.at)'
        PROVE  \A i \in DOMAIN n.chain : \E j \in DOMAIN t.ran : t.ran[j] = n.chain[i]
    BY <1>1, <1>3 DEF Closed
  <1>4. NoBypass' BY <1>3 DEF NoBypass
  <1>5. ASSUME NEW p \in ops, p.method = t.method, PathMatches(p.path, t.path),
               \A i \in DOMAIN p.path : Dynamic(p.path[i]) => ~(Literal(t.path[i])')
        PROVE  t.outcome = "op" /\ t.to = <<p.at, p.nth>>
    BY <1>2, <1>5 DEF Closed
  <1> QED BY <1>4, <1>5

LEMMA OperationStep ==
  ASSUME CompiledInv', tree' = tree, nodes' = nodes, ops' = ops, phase' = "built",
         NEW t, t = request', t.outcome = "op", Closed(t), NEW o \in ops, Answers(o, t)
  PROVE  RoutesInv'
  <1>1. Answered' = o
    <2>1. o \in ops' /\ <<o.at, o.nth>> = request'.to BY DEF Answers
    <2>2. \A p \in ops' : <<p.at, p.nth>> = request'.to => p = o BY DEF Answers
    <2> QED BY <2>1, <2>2 DEF Answered
  <1>2. GuardedAsDocumented' BY <1>1 DEF GuardedAsDocumented, Answers
  <1>3. ParametersBound' BY <1>1 DEF ParametersBound, Answers
  <1>4. SecurityHonest'
    <2>1. NodeAt(o.at)' = NodeAt(o.at) BY SameRouting
    <2>2. NodeAt(Answered.at)' = NodeAt(o.at) BY <1>1, <2>1 DEF NodeAt
    <2> QED BY <1>1, <2>2 DEF SecurityHonest, Answers
  <1>5. NoBypass' BY ClosedKept
  <1>6. ServedAsDocumented' BY <1>1, ClosedKept DEF ServedAsDocumented, Answers
  <1>7. Routed' BY DEF Routed
  <1> QED BY <1>2, <1>3, <1>4, <1>5, <1>6, <1>7 DEF RoutesInv, ServedInv

LEMMA InfraStep ==
  ASSUME CompiledInv', tree' = tree, nodes' = nodes, ops' = ops, phase' = "built",
         NEW t, t = request', t.outcome = "infra", Closed(t),
         NEW i \in InfraRoutes, t.to = <<i.at, i.nth>>, t.ran = i.guards
  PROVE  RoutesInv'
  <1>1. InfraRoutes' = InfraRoutes BY SameRouting
  <1>2. GuardedAsDocumented' BY <1>1 DEF GuardedAsDocumented
  <1>3. ParametersBound' /\ SecurityHonest' BY DEF ParametersBound, SecurityHonest
  <1>4. NoBypass' BY ClosedKept
  <1>5. ServedAsDocumented' BY ClosedKept DEF ServedAsDocumented
  <1>6. Routed' BY DEF Routed
  <1> QED BY <1>2, <1>3, <1>4, <1>5, <1>6 DEF RoutesInv, ServedInv

\* A router answers the request with a route of its own.
LEMMA AnsweredStep ==
  ASSUME CompiledInv', Sound, NEW x \in nodes, AtRouter(x, request),
         phase = "built", UNCHANGED <<tree, attached, phase, work, nodes, ops>>,
         NEW e \in Found(request.router, request.method, request.rest), e.kind # "mount",
         \A m \in Found(request.router, request.method, request.rest) : m.kind # "mount",
         NEW t, t = request', t.path = request.path, t.method = request.method,
         t.ran = Met(request, e.guards), t.bound = Captured(e, request.rest, request.bound),
         t.outcome = e.kind, t.to = e.to
  PROVE  RoutesInv'
  <1>1. PICK q : q = request OBVIOUS
  <1>2. AtRouter(x, q) /\ e \in Found(q.router, q.method, q.rest) BY <1>1
  <1>3. Ends(x, q)
    <2>1. \A m \in Found(q.router, q.method, q.rest) : m.kind # "mount" BY <1>1
    <2> QED BY <1>2, <2>1, FoundEnds
  <1>4. PICK n \in nodes :
             /\ n.router = x.at /\ n.prefix = x.prefix /\ n.chain = x.chain \o n.inline
             /\ \/ \E k \in DOMAIN tree[n.group].endpoints :
                       /\ e = OpEntry(n, k)
                       /\ tree[n.group].endpoints[k].method = q.method
                       /\ PathMatches(tree[n.group].endpoints[k].path, q.rest)
                \/ \E k \in DOMAIN tree[n.group].infra :
                       /\ e = InfraEntry(n, k)
                       /\ tree[n.group].infra[k].method = q.method
                       /\ PathMatches(tree[n.group].infra[k].path, q.rest)
    BY <1>2, RouteFound
  <1>5. t.path = q.path /\ t.method = q.method /\ t.ran = Met(q, e.guards)
        /\ t.bound = Captured(e, q.rest, q.bound)
    BY <1>1
  <1>6. tree' = tree /\ nodes' = nodes /\ ops' = ops /\ phase' = "built" OBVIOUS
  <1>7. ASSUME e.guards \in Chains PROVE Closed(t)
    <2>1. \A y \in nodes : y.link # Inline /\ Under(y.prefix, t.path) /\ Installed(y.at) =>
              \A i \in DOMAIN y.chain : \E j \in DOMAIN t.ran : t.ran[j] = y.chain[i]
      <3>1. \A y \in nodes : y.link # Inline /\ Under(y.prefix, q.path) /\ Installed(y.at) =>
                \A i \in DOMAIN y.chain :
                    \E j \in DOMAIN Met(q, e.guards) : Met(q, e.guards)[j] = y.chain[i]
        BY <1>2, <1>3, <1>7, GuardsMet
      <3> QED BY <1>5, <3>1
    <2>2. ASSUME NEW p \in ops, p.method = t.method, PathMatches(p.path, t.path),
                 \A i \in DOMAIN p.path : Dynamic(p.path[i]) => ~Literal(t.path[i])
          PROVE  t.outcome = "op" /\ t.to = <<p.at, p.nth>>
      <3>1. p.method = q.method /\ PathMatches(p.path, q.path)
            /\ \A i \in DOMAIN p.path : Dynamic(p.path[i]) => ~Literal(q.path[i])
        BY <1>5, <2>2
      <3>2. e.kind = "op" /\ e.to = <<p.at, p.nth>> BY <1>2, <1>3, <3>1, Uncontested
      <3> QED BY <3>2
    <2> QED BY <2>1, <2>2 DEF Closed
  <1>8. CASE \E k \in DOMAIN tree[n.group].endpoints :
                 /\ e = OpEntry(n, k)
                 /\ tree[n.group].endpoints[k].method = q.method
                 /\ PathMatches(tree[n.group].endpoints[k].path, q.rest)
    <2>1. PICK k \in DOMAIN tree[n.group].endpoints :
              /\ e = OpEntry(n, k)
              /\ tree[n.group].endpoints[k].method = q.method
              /\ PathMatches(tree[n.group].endpoints[k].path, q.rest)
      BY <1>8
    <2>2. OpEntry(n, k).guards \in Chains /\ OpEntry(n, k).kind = "op"
      BY <1>2, <1>4, <2>1, OperationAnswers
    <2>3. Closed(t) /\ t.outcome = "op" BY <1>7, <2>1, <2>2
    <2>4. \E o \in ops : Answers(o, t) BY <1>2, <1>4, <1>5, <2>1, OperationServes
    <2> QED BY <1>6, <2>3, <2>4, OperationStep
  <1>9. CASE \E k \in DOMAIN tree[n.group].infra :
                 /\ e = InfraEntry(n, k)
                 /\ tree[n.group].infra[k].method = q.method
                 /\ PathMatches(tree[n.group].infra[k].path, q.rest)
    <2>1. PICK k \in DOMAIN tree[n.group].infra : e = InfraEntry(n, k) BY <1>9
    <2>2. PICK i : i = InfraRoute(n, k) OBVIOUS
    <2>3. /\ Met(q, InfraEntry(n, k).guards) = i.guards
          /\ InfraEntry(n, k).guards \in Chains /\ InfraEntry(n, k).kind = "infra"
          /\ InfraEntry(n, k).to = <<i.at, i.nth>>
      BY <1>2, <1>4, <2>2, InfraAnswers DEF Met
    <2>4. Closed(t) /\ t.outcome = "infra" BY <1>7, <2>1, <2>3
    <2>5. t.to = <<i.at, i.nth>> /\ t.ran = i.guards BY <1>5, <2>1, <2>3
    <2>6. i \in InfraRoutes BY <2>2, InfraIs
    <2> QED BY <1>6, <2>4, <2>5, <2>6, InfraStep
  <1> QED BY <1>4, <1>8, <1>9

-----------------------------------------------------------------------------
(* Every step of the program.                                               *)

\* Where the request under way is.
LEMMA UnderWay ==
  ASSUME RoutesInv, request.outcome = "routing"
  PROVE  /\ phase = "built" /\ Sound
         /\ DOMAIN request = {"method", "path", "router", "rest", "ran", "bound", "outcome", "to"}
         /\ \E x \in nodes : AtRouter(x, request)
  <1>1. Routed BY DEF RoutesInv
  <1>2. phase = "built" BY <1>1 DEF Routed, NoRequest
  <1>3. Sound BY <1>2, BuiltSound DEF RoutesInv
  <1> QED BY <1>1, <1>2, <1>3 DEF Routed, AtRouter

LEMMA QuietBefore ==
  ASSUME RoutesInv, CompiledInv', phase # "built", request' = request
  PROVE  RoutesInv'
  <1>1. request = NoRequest BY DEF RoutesInv, Routed
  <1> QED BY <1>1, Quiet

LEMMA Stutter ==
  ASSUME RoutesInv, CompiledInv', UNCHANGED routeVars
  PROVE  RoutesInv'
  <1>1. /\ tree' = tree /\ nodes' = nodes /\ ops' = ops /\ request' = request /\ phase' = phase
    BY DEF routeVars
  <1>2. /\ \A r : NodeAt(r)' = NodeAt(r)
        /\ \A r : Installed(r)' <=> Installed(r)
        /\ \A s : Literal(s)' <=> Literal(s)
        /\ InfraRoutes' = InfraRoutes
    BY <1>1, SameRouting
  <1>3. Answered' = Answered BY <1>1 DEF Answered
  <1>4. PICK t : t = request OBVIOUS
  <1>5. PICK a : a = Answered OBVIOUS
  <1>6. GuardedAsDocumented' BY <1>1, <1>2, <1>3 DEF RoutesInv, ServedInv, GuardedAsDocumented
  <1>7. NoBypass' BY <1>1, <1>2 DEF RoutesInv, ServedInv, NoBypass
  <1>8. ServedAsDocumented'
    <2>1. \A s : Literal(s)' <=> Literal(s) BY <1>2
    <2>2. \A i : Literal(request.path[i])' <=> Literal(t.path[i]) BY <1>1, <1>4 DEF Literal, InfraRoutes, InfraRoute
    <2> QED BY <1>1, <1>3, <1>4, <2>2 DEF RoutesInv, ServedInv, ServedAsDocumented
  <1>9. ParametersBound' BY <1>1, <1>3 DEF RoutesInv, ServedInv, ParametersBound
  <1>10. SecurityHonest'
    <2>1. NodeAt(Answered.at)' = NodeAt(a.at) BY <1>1, <1>3, <1>5 DEF NodeAt
    <2> QED BY <1>1, <1>3, <1>5, <2>1 DEF RoutesInv, ServedInv, SecurityHonest
  <1>11. Routed'
    <2>1. CASE request.outcome = "routing"
      <3>1. /\ phase = "built"
            /\ DOMAIN request = {"method", "path", "router", "rest", "ran", "bound", "outcome", "to"}
            /\ \E x \in nodes : AtRouter(x, request)
        BY <2>1, UnderWay
      <3>2. PICK x \in nodes : AtRouter(x, request) BY <3>1
      <3>3. t = request' /\ AtRouter(x, t) /\ phase' = "built"
            /\ DOMAIN t = {"method", "path", "router", "rest", "ran", "bound", "outcome", "to"}
        BY <1>1, <1>4, <3>1, <3>2
      <3> QED BY <1>1, <3>3, StillRouted
    <2>2. CASE request.outcome # "routing"
      BY <1>1, <2>2 DEF RoutesInv, Routed, NoRequest
    <2> QED BY <2>1, <2>2
  <1> QED BY <1>6, <1>7, <1>8, <1>9, <1>10, <1>11 DEF RoutesInv, ServedInv

LEMMA RouteStep ==
  ASSUME RoutesInv, CompiledInv', Route
  PROVE  RoutesInv'
  <1>1. request.outcome = "routing" /\ UNCHANGED <<tree, attached, phase, work, nodes, ops>>
    BY DEF Route
  <1>2. /\ phase = "built" /\ Sound
        /\ DOMAIN request = {"method", "path", "router", "rest", "ran", "bound", "outcome", "to"}
        /\ \E x \in nodes : AtRouter(x, request)
    BY <1>1, UnderWay
  <1>3. PICK x \in nodes : AtRouter(x, request) BY <1>2
  <1> DEFINE found == Found(request.router, request.method, request.rest)
             met == request.ran \o RouterGuards(request.router)
  <1>4. CASE found = {} /\ request' = [request EXCEPT !.ran = met, !.outcome = "unmatched"]
    BY <1>1, <1>2, <1>3, <1>4, UnmatchedStep
  <1>5. ASSUME NEW e \in found,
               request' = [request EXCEPT
                      !.ran = met \o e.guards,
                      !.bound = Captured(e, request.rest, @),
                      !.rest = SubSeq(@, Len(e.pattern) + 1, Len(@)),
                      !.router = IF e.kind = "mount" THEN e.to ELSE @,
                      !.outcome = IF e.kind = "mount" THEN "routing" ELSE e.kind,
                      !.to = e.to]
        PROVE  RoutesInv'
    <2>1. CASE e.kind = "mount"
      <3>1. request' = [request EXCEPT
                      !.ran = met \o e.guards,
                      !.bound = Captured(e, request.rest, @),
                      !.rest = SubSeq(@, Len(e.pattern) + 1, Len(@)),
                      !.router = e.to,
                      !.outcome = "routing",
                      !.to = e.to]
        BY <1>5, <2>1
      <3> QED BY <1>1, <1>2, <1>3, <2>1, <3>1, MountStep
    <2>2. CASE e.kind # "mount"
      <3>1. PICK t : t = request' OBVIOUS
      <3>2. /\ t.path = request.path /\ t.method = request.method
            /\ t.ran = met \o e.guards /\ t.bound = Captured(e, request.rest, request.bound)
            /\ t.outcome = e.kind /\ t.to = e.to
        BY <1>2, <1>5, <2>2, <3>1
      <3>3. \A m \in found : m.kind # "mount"
        <4> SUFFICES ASSUME NEW f \in found, f.kind = "mount" PROVE FALSE OBVIOUS
        <4>1. request.router = x.at /\ request.rest \in Seq(Segments)
          BY <1>3 DEF AtRouter, RoutedTo
        <4>2. f \in Entries(x.at) /\ Matches(f, request.method, request.rest)
          BY <4>1 DEF Found
        <4>3. PICK m \in Mounted : m.outer.router = x.at /\ f = MountEntry(m)
          <5>1. \A n, k : OpEntry(n, k).kind = "op" /\ InfraEntry(n, k).kind = "infra"
            BY DEF OpEntry, InfraEntry
          <5>2. \A n, k : f # OpEntry(n, k) /\ f # InfraEntry(n, k) BY <5>1
          <5> QED BY <4>2, <5>2, EntryCases
        <4>4. Under(m.link, request.rest) BY <4>2, <4>3, MatchesUnder
        <4>5. Found(x.at, request.method, request.rest) = {MountEntry(m)}
          BY <1>2, <4>1, <4>3, <4>4, MountFound
        <4>6. e = f BY <4>1, <4>3, <4>5
        <4> QED BY <2>2, <4>6
      <3>4. t.ran = Met(request, e.guards) BY <3>2 DEF Met
      <3> QED BY <1>1, <1>2, <1>3, <2>2, <3>1, <3>2, <3>3, <3>4, AnsweredStep
    <2> QED BY <2>1, <2>2
  <1> QED BY <1>4, <1>5 DEF Route

LEMMA RoutesStep == RoutesInv /\ [Next]_routeVars => RoutesInv'
  <1> SUFFICES ASSUME RoutesInv, [Next]_routeVars PROVE RoutesInv' OBVIOUS
  <1>1. CompiledInv' BY CompiledStep DEF RoutesInv
  <1>2. CASE Declaration
    <2>1. phase = "declaring" /\ request' = request
      BY <1>2 DEF Declaration, Guard, Register, HandleInfra, Mount, Declare
    <2> QED BY <1>1, <2>1, QuietBefore
  <1>3. CASE Compiling
    <2>1. phase # "built" /\ request' = request
      BY <1>3 DEF Compiling, Build, Node, Materialize
    <2> QED BY <1>1, <2>1, QuietBefore
  <1>4. ASSUME NEW method \in Methods, NEW path \in Paths, Arrive(method, path) PROVE RoutesInv'
    BY <1>1, <1>4, ArriveStep
  <1>5. CASE Route BY <1>1, <1>5, RouteStep
  <1>6. CASE UNCHANGED routeVars BY <1>1, <1>6, Stutter
  <1> QED BY <1>2, <1>3, <1>4, <1>5, <1>6 DEF Next, Serving

(* The inductive invariant of routing: a request is at the router its path  *)
(* leads to, and what has answered it is what the document says.            *)
THEOREM AlwaysRouted == Spec => []RoutesInv
  BY RoutesStart, RoutesStep, PTL DEF Spec

(* The guards that run before an operation are those compiler.endpoint      *)
(* lists for it, each once and in their order, whatever mix of mounted and  *)
(* inline groups materialize has put them on.                               *)
THEOREM AlwaysGuarded == Spec => []GuardedAsDocumented
  <1>1. RoutesInv => GuardedAsDocumented BY DEF RoutesInv, ServedInv
  <1> QED BY <1>1, AlwaysRouted, PTL

(* No request under the prefix of a patterned group whose router holds      *)
(* anything is answered, not even with 404, without the guards of that      *)
(* group and of the groups above it.                                        *)
THEOREM NeverBypassed == Spec => []NoBypass
  <1>1. RoutesInv => NoBypass BY DEF RoutesInv, ServedInv
  <1> QED BY <1>1, AlwaysRouted, PTL

(* The catalogue is what is served: what answers matches the documented     *)
(* method and path, what is documented is answered, and the path that is    *)
(* only one operation's own is answered by that one.                        *)
THEOREM AlwaysServed == Spec => []ServedAsDocumented
  <1>1. RoutesInv => ServedAsDocumented BY DEF RoutesInv, ServedInv
  <1> QED BY <1>1, AlwaysRouted, PTL

(* Every path field of an operation is filled from the segment at its place *)
(* in the documented path, through every subrouter (chiParams).             *)
THEOREM AlwaysBound == Spec => []ParametersBound
  <1>1. RoutesInv => ParametersBound BY DEF RoutesInv, ServedInv
  <1> QED BY <1>1, AlwaysRouted, PTL

(* The security operationSecurity documents is the conjunction of what the  *)
(* guards that ran, and the operation itself, ask for.                      *)
THEOREM AlwaysHonest == Spec => []SecurityHonest
  <1>1. RoutesInv => SecurityHonest BY DEF RoutesInv, ServedInv
  <1> QED BY <1>1, AlwaysRouted, PTL

-----------------------------------------------------------------------------
(* The address a request is served under (pkg/clientip).                    *)

LEMMA EntryOf ==
  ASSUME NEW lines, NEW e
  PROVE  e \in ForwardedEntries(lines) <=>
           \E i \in 1..Len(lines) : \E j \in 1..Len(lines[i]) :
               e = [line |-> i, place |-> j, text |-> lines[i][j]]
  BY DEF ForwardedEntries

LEMMA EntryFields ==
  ASSUME NEW lines \in Seq(Seq(Spellings)), NEW e \in ForwardedEntries(lines)
  PROVE  /\ e.line \in 1..Len(lines) /\ e.place \in 1..Len(lines[e.line])
         /\ e.text = lines[e.line][e.place]
         /\ e = [line |-> e.line, place |-> e.place, text |-> e.text]
         /\ e.line \in Nat /\ e.place \in Nat
  <1>0. PICK i \in 1..Len(lines) : \E j \in 1..Len(lines[i]) :
          e = [line |-> i, place |-> j, text |-> lines[i][j]]
    BY EntryOf, SMTT(30)
  <1>1. PICK j \in 1..Len(lines[i]) : e = [line |-> i, place |-> j, text |-> lines[i][j]]
    BY <1>0
  <1> QED BY <1>1

(* Two entries of a header are the same or one is before the other.         *)
LEMMA EntriesOrdered ==
  ASSUME NEW lines \in Seq(Seq(Spellings)),
         NEW e \in ForwardedEntries(lines), NEW f \in ForwardedEntries(lines)
  PROVE  e = f \/ EarlierEntry(e, f) \/ EarlierEntry(f, e)
  <1>1. /\ e.line \in Nat /\ e.place \in Nat /\ f.line \in Nat /\ f.place \in Nat
        /\ e.text = lines[e.line][e.place] /\ f.text = lines[f.line][f.place]
        /\ e = [line |-> e.line, place |-> e.place, text |-> e.text]
        /\ f = [line |-> f.line, place |-> f.place, text |-> f.text]
    BY EntryFields
  <1>2. e.line = f.line /\ e.place = f.place => e = f BY <1>1
  <1> QED BY <1>1, <1>2 DEF EarlierEntry

LEMMA Skips ==
  ASSUME NEW e, NEW h, ParseAddr(e.text) = {h}
  PROVE  Skipped(e) <=> IsTrusted(h)
  BY DEF Skipped

(* The walk ends at the entry that has nothing but proxies behind it.       *)
LEMMA WalkEnds ==
  ASSUME NEW lines \in Seq(Seq(Spellings)), NEW e \in ForwardedEntries(lines), NEW h,
         ParseAddr(e.text) = {h}, ~IsTrusted(h),
         \A f \in ForwardedEntries(lines) : EarlierEntry(e, f) => Skipped(f)
  PROVE  FromForwardedFor(lines) = {h}
  <1> DEFINE stops == {s \in ForwardedEntries(lines) :
               ~Skipped(s) /\ \A f \in ForwardedEntries(lines) : EarlierEntry(s, f) => Skipped(f)}
  <1>1. ~Skipped(e) BY Skips
  <1>2. \A s \in stops : s = e BY <1>1, EntriesOrdered
  <1>3. e \in stops BY <1>1
  <1>4. stops = {e} BY <1>2, <1>3
  <1>5. FromForwardedFor(lines) = UNION {ParseAddr(s.text) : s \in stops}
    BY DEF FromForwardedFor
  <1> HIDE DEF stops
  <1> QED BY <1>4, <1>5

(* What a configured proxy adds comes last: on a line of its own ...        *)
LEMMA NewLine ==
  ASSUME NEW lines \in Seq(Seq(Spellings)), NEW s \in Spellings
  PROVE  LET new  == Append(lines, <<s>>)
             last == [line |-> Len(lines) + 1, place |-> 1, text |-> s]
         IN  /\ new \in Seq(Seq(Spellings))
             /\ ForwardedEntries(new) = ForwardedEntries(lines) \cup {last}
             /\ \A e \in ForwardedEntries(lines) : ~EarlierEntry(last, e)
  <1> DEFINE one  == <<s>>
             new  == Append(lines, one)
             last == [line |-> Len(lines) + 1, place |-> 1, text |-> s]
  <1>1. one \in Seq(Spellings) /\ Len(one) = 1 /\ one[1] = s OBVIOUS
  <1> HIDE DEF one
  <1>2. /\ new \in Seq(Seq(Spellings)) /\ Len(new) = Len(lines) + 1 /\ Len(lines) \in Nat
        /\ new[Len(lines) + 1] = one
        /\ \A i \in 1..Len(lines) : new[i] = lines[i]
    BY <1>1
  <1> HIDE DEF new
  <1>3. \A e : e \in ForwardedEntries(lines) => e \in ForwardedEntries(new)
    <2> SUFFICES ASSUME NEW e \in ForwardedEntries(lines) PROVE e \in ForwardedEntries(new) OBVIOUS
    <2>0. PICK i \in 1..Len(lines) : \E j \in 1..Len(lines[i]) :
            e = [line |-> i, place |-> j, text |-> lines[i][j]]
      BY EntryOf, SMTT(30)
    <2>1. PICK j \in 1..Len(lines[i]) : e = [line |-> i, place |-> j, text |-> lines[i][j]]
      BY <2>0
    <2>2. i \in 1..Len(new) /\ new[i] = lines[i] BY <1>2
    <2> QED BY <2>1, <2>2, EntryOf
  <1>4. last \in ForwardedEntries(new)
    <2>1. Len(lines) + 1 \in 1..Len(new) BY <1>2
    <2>3. 1 \in 1..Len(new[Len(lines) + 1])
      <3>1. Len(new[Len(lines) + 1]) = 1 BY <1>1, <1>2
      <3> QED BY <3>1
    <2>2. last = [line |-> Len(lines) + 1, place |-> 1, text |-> new[Len(lines) + 1][1]]
      BY <1>1, <1>2
    <2> QED BY <2>1, <2>2, <2>3, EntryOf
  <1>5. ASSUME NEW e \in ForwardedEntries(new) PROVE e \in ForwardedEntries(lines) \/ e = last
    <2>0. PICK i \in 1..Len(new) : \E j \in 1..Len(new[i]) :
            e = [line |-> i, place |-> j, text |-> new[i][j]]
      BY EntryOf, SMTT(30)
    <2>1. PICK j \in 1..Len(new[i]) : e = [line |-> i, place |-> j, text |-> new[i][j]]
      BY <2>0
    <2>2. CASE i \in 1..Len(lines)
      <3>1. new[i] = lines[i] BY <1>2, <2>2
      <3> QED BY <2>1, <2>2, <3>1, EntryOf
    <2>3. CASE i = Len(lines) + 1
      <3>1. new[i] = one BY <1>2, <2>3
      <3>2. j = 1 BY <3>1, <1>1
      <3> QED BY <2>1, <2>3, <3>1, <3>2, <1>1
    <2> QED BY <1>2, <2>2, <2>3
  <1>6. \A e \in ForwardedEntries(lines) : ~EarlierEntry(last, e)
    <2> SUFFICES ASSUME NEW e \in ForwardedEntries(lines) PROVE ~EarlierEntry(last, e) OBVIOUS
    <2>1. e.line \in 1..Len(lines) /\ last.line = Len(lines) + 1 BY EntryFields
    <2> QED BY <2>1, <1>2 DEF EarlierEntry
  <1> QED BY <1>2, <1>3, <1>4, <1>5, <1>6 DEF new, one

(* ... or at the end of the last one.                                       *)
LEMMA LongerLine ==
  ASSUME NEW lines \in Seq(Seq(Spellings)), NEW s \in Spellings, lines # << >>
  PROVE  LET n    == Len(lines)
             new  == [lines EXCEPT ![n] = Append(@, s)]
             last == [line |-> n, place |-> Len(lines[n]) + 1, text |-> s]
         IN  /\ new \in Seq(Seq(Spellings))
             /\ ForwardedEntries(new) = ForwardedEntries(lines) \cup {last}
             /\ \A e \in ForwardedEntries(lines) : ~EarlierEntry(last, e)
  <1> DEFINE n    == Len(lines)
             grown == Append(lines[n], s)
             new  == [lines EXCEPT ![n] = grown]
             last == [line |-> n, place |-> Len(lines[n]) + 1, text |-> s]
  <1>1. n \in 1..Len(lines) /\ n \in Nat BY EmptySeq
  <1>2. lines[n] \in Seq(Spellings) BY <1>1
  <1>3. /\ grown \in Seq(Spellings) /\ Len(grown) = Len(lines[n]) + 1
        /\ Len(lines[n]) \in Nat /\ grown[Len(lines[n]) + 1] = s
        /\ \A j \in 1..Len(lines[n]) : grown[j] = lines[n][j]
    BY <1>2
  <1> HIDE DEF grown
  <1>4. /\ new \in Seq(Seq(Spellings)) /\ Len(new) = n /\ new[n] = grown
        /\ \A i \in 1..Len(lines) : i # n => new[i] = lines[i]
    BY <1>1, <1>3
  <1> HIDE DEF new
  <1>5. ASSUME NEW e \in ForwardedEntries(lines) PROVE e \in ForwardedEntries(new)
    <2>0. PICK i \in 1..Len(lines) : \E j \in 1..Len(lines[i]) :
            e = [line |-> i, place |-> j, text |-> lines[i][j]]
      BY EntryOf, SMTT(30)
    <2>1. PICK j \in 1..Len(lines[i]) : e = [line |-> i, place |-> j, text |-> lines[i][j]]
      BY <2>0
    <2>2. i \in 1..Len(new) BY <1>4
    <2>3. j \in 1..Len(new[i]) /\ new[i][j] = lines[i][j]
      <3>1. CASE i = n BY <3>1, <1>3, <1>4, <2>1
      <3>2. CASE i # n BY <3>2, <1>4, <2>1
      <3> QED BY <3>1, <3>2
    <2> QED BY <2>1, <2>2, <2>3, EntryOf
  <1>6. last \in ForwardedEntries(new)
    <2>1. n \in 1..Len(new) /\ Len(lines[n]) + 1 \in 1..Len(new[n]) BY <1>1, <1>3, <1>4
    <2>2. last = [line |-> n, place |-> Len(lines[n]) + 1,
                  text |-> new[n][Len(lines[n]) + 1]]
      BY <1>3, <1>4
    <2> QED BY <2>1, <2>2, EntryOf
  <1>7. ASSUME NEW e \in ForwardedEntries(new) PROVE e \in ForwardedEntries(lines) \/ e = last
    <2>0. PICK i \in 1..Len(new) : \E j \in 1..Len(new[i]) :
            e = [line |-> i, place |-> j, text |-> new[i][j]]
      BY EntryOf, SMTT(30)
    <2>1. PICK j \in 1..Len(new[i]) : e = [line |-> i, place |-> j, text |-> new[i][j]]
      BY <2>0
    <2>2. i \in 1..Len(lines) BY <1>4
    <2>3. CASE j \in 1..Len(lines[i])
      <3>1. new[i][j] = lines[i][j]
        <4>1. CASE i = n BY <4>1, <1>3, <1>4, <2>3
        <4>2. CASE i # n BY <4>2, <1>4, <2>2
        <4> QED BY <4>1, <4>2
      <3> QED BY <2>1, <2>2, <2>3, <3>1, EntryOf
    <2>4. CASE j \notin 1..Len(lines[i])
      <3>1. i = n BY <2>4, <2>1, <2>2, <1>4
      <3>2. j = Len(lines[n]) + 1 BY <3>1, <2>4, <2>1, <1>3, <1>4
      <3> QED BY <2>1, <3>1, <3>2, <1>3, <1>4
    <2> QED BY <2>3, <2>4
  <1>8. \A e \in ForwardedEntries(lines) : ~EarlierEntry(last, e)
    <2> SUFFICES ASSUME NEW e \in ForwardedEntries(lines) PROVE ~EarlierEntry(last, e) OBVIOUS
    <2>1. /\ e.line \in 1..Len(lines) /\ e.place \in 1..Len(lines[e.line])
          /\ last.line = n /\ last.place = Len(lines[n]) + 1
      BY EntryFields
    <2> QED BY <2>1, <1>1, <1>3 DEF EarlierEntry
  <1>9. new = [lines EXCEPT ![n] = Append(@, s)] BY <1>1 DEF new, grown
  <1> HIDE DEF last
  <1> QED BY <1>4, <1>5, <1>6, <1>7, <1>8, <1>9 DEF last

LEMMA LastOtherIsLast ==
  ASSUME AddressInv, NEW n, LastOther(n)
  PROVE  LastUntrusted = hops[n]
  <1> DEFINE others == {i \in DOMAIN hops : ~IsTrusted(hops[i])}
             Top(i) == i \in others /\ \A j \in others : j <= i
  <1>1. DOMAIN hops = 1..Len(hops) /\ Len(hops) \in Nat BY DEF AddressInv
  <1>2. \A i \in 1..Len(hops) : i \in Int BY <1>1
  <1>3. n \in others /\ \A j \in others : ~(j > n) BY <1>1 DEF LastOther
  <1>4. Top(n) BY <1>1, <1>2, <1>3
  <1>5. \A i : Top(i) => i = n BY <1>1, <1>2, <1>4
  <1>6. (CHOOSE i \in others : \A j \in others : j <= i) = CHOOSE i : Top(i)
    OBVIOUS
  <1>7. (CHOOSE i : Top(i)) = n BY <1>4, <1>5
  <1> QED BY <1>6, <1>7 DEF LastUntrusted

LEMMA AddressStart == AddressInit => AddressInv
  <1> SUFFICES ASSUME AddressInit PROVE AddressInv OBVIOUS
  <1>1. /\ hops = << >> /\ forwarded = << >> /\ remoteAddr = << >> /\ client = {}
    BY DEF AddressInit
  <1>2. Len(hops) = 0 /\ hops \in Seq(Hosts) /\ forwarded \in Seq(Seq(Spellings))
    BY <1>1
  <1>3. ~Arrived BY <1>1 DEF Arrived
  <1> QED BY <1>1, <1>2, <1>3 DEF AddressInv

(* A hop appended to the path.                                              *)
LEMMA Passed ==
  ASSUME AddressInv, NEW host \in Hosts, hops' = Append(hops, host)
  PROVE  /\ hops' \in Seq(Hosts) /\ Len(hops') = Len(hops) + 1 /\ Len(hops) \in Nat
         /\ hops'[Len(hops) + 1] = host
         /\ \A i \in 1..Len(hops) : hops'[i] = hops[i]
  BY DEF AddressInv

LEMMA SendKeeps ==
  ASSUME AddressInv, NEW host \in Hosts, NEW lines \in Forwarded, NEW real,
         Send(host, lines, real)
  PROVE  AddressInv'
  <1>1. /\ hops' = <<host>> /\ forwarded' = lines /\ ~Arrived /\ client = {}
        /\ remoteAddr' = remoteAddr /\ client' = client
    BY DEF Send, AddressInv
  <1>2. hops' \in Seq(Hosts) /\ Len(hops') = 1 BY <1>1
  <1>3. lines \in Seq(Seq(Spellings)) BY AddressAssumption
  <1>4. ~Arrived' BY <1>1 DEF Arrived
  <1>5. ~IsTrusted(hops'[1]) => LastOther(1)' BY <1>2 DEF LastOther, IsTrusted
  <1>6. \A n \in 1..Len(hops') : Vouched(n)' BY <1>2 DEF Vouched
  <1> QED BY <1>1, <1>2, <1>3, <1>4, <1>5, <1>6 DEF AddressInv, IsTrusted

LEMMA OtherHopKeeps ==
  ASSUME AddressInv, NEW host \in Hosts, NEW lines \in Forwarded, OtherHop(host, lines)
  PROVE  AddressInv'
  <1>1. /\ hops' = Append(hops, host) /\ forwarded' = lines /\ ~Arrived /\ client = {}
        /\ remoteAddr' = remoteAddr /\ client' = client /\ ~IsTrusted(host)
    BY DEF OtherHop, AddressInv
  <1>2. /\ hops' \in Seq(Hosts) /\ Len(hops') = Len(hops) + 1 /\ Len(hops) \in Nat
        /\ hops'[Len(hops) + 1] = host
        /\ \A i \in 1..Len(hops) : hops'[i] = hops[i]
    BY <1>1, Passed
  <1>3. lines \in Seq(Seq(Spellings)) BY AddressAssumption
  <1>4. ~Arrived' BY <1>1 DEF Arrived
  <1>5. \A n : n = Len(hops) + 1 => LastOther(n)'
    BY <1>1, <1>2 DEF LastOther, IsTrusted
  <1>6. \A n \in 1..Len(hops') : LastOther(n)' => n = Len(hops')
    BY <1>1, <1>2 DEF LastOther, IsTrusted
  <1>7. \A n \in 1..Len(hops') : LastOther(n)' => Vouched(n)'
    BY <1>2, <1>6 DEF Vouched
  <1>8. \E n \in 1..Len(hops') : LastOther(n)'
    <2>1. Len(hops) + 1 \in 1..Len(hops') BY <1>2
    <2> QED BY <1>5, <2>1
  <1> QED BY <1>1, <1>2, <1>3, <1>4, <1>7, <1>8 DEF AddressInv

LEMMA TrustedHopKeeps ==
  ASSUME AddressInv, NEW proxy \in Hosts, TrustedHop(proxy)
  PROVE  AddressInv'
  <1>1. /\ hops # << >> /\ hops' = Append(hops, proxy) /\ ~Arrived /\ client = {}
        /\ remoteAddr' = remoteAddr /\ client' = client /\ IsTrusted(proxy)
    BY DEF TrustedHop, AddressInv
  <1>2. /\ hops' \in Seq(Hosts) /\ Len(hops') = Len(hops) + 1 /\ Len(hops) \in Nat
        /\ hops'[Len(hops) + 1] = proxy
        /\ \A i \in 1..Len(hops) : hops'[i] = hops[i]
    BY <1>1, Passed
  <1>3. Len(hops) \in 1..Len(hops) BY <1>1, EmptySeq DEF AddressInv
  <1>4. ~Arrived' BY <1>1 DEF Arrived
  <1>5. PICK last :
            /\ ParseAddr(last.text) = {Holder}
            /\ forwarded' \in Seq(Seq(Spellings))
            /\ ForwardedEntries(forwarded') = ForwardedEntries(forwarded) \cup {last}
            /\ \A e \in ForwardedEntries(forwarded) : ~EarlierEntry(last, e)
            /\ ~EarlierEntry(last, last)
    <2>1. PICK caller \in Spellings :
              /\ ParseAddr(caller) = {Holder}
              /\ \/ forwarded' = Append(forwarded, <<caller>>)
                 \/ /\ forwarded # << >>
                    /\ forwarded' = [forwarded EXCEPT ![Len(forwarded)] = Append(@, caller)]
      BY DEF TrustedHop
    <2>2. forwarded \in Seq(Seq(Spellings)) BY DEF AddressInv
    <2>3. CASE forwarded' = Append(forwarded, <<caller>>)
      <3> DEFINE last == [line |-> Len(forwarded) + 1, place |-> 1, text |-> caller]
      <3>1. /\ forwarded' \in Seq(Seq(Spellings))
            /\ ForwardedEntries(forwarded') = ForwardedEntries(forwarded) \cup {last}
            /\ \A e \in ForwardedEntries(forwarded) : ~EarlierEntry(last, e)
        BY <2>2, <2>3, NewLine
      <3>2. last.text = caller /\ ~EarlierEntry(last, last) BY <2>2 DEF EarlierEntry
      <3> HIDE DEF last
      <3> QED BY <2>1, <3>1, <3>2
    <2>4. CASE /\ forwarded # << >>
               /\ forwarded' = [forwarded EXCEPT ![Len(forwarded)] = Append(@, caller)]
      <3> DEFINE n == Len(forwarded)
                 last == [line |-> n, place |-> Len(forwarded[n]) + 1, text |-> caller]
      <3>1. /\ forwarded' \in Seq(Seq(Spellings))
            /\ ForwardedEntries(forwarded') = ForwardedEntries(forwarded) \cup {last}
            /\ \A e \in ForwardedEntries(forwarded) : ~EarlierEntry(last, e)
        BY <2>2, <2>4, LongerLine
      <3>2. last.text = caller /\ ~EarlierEntry(last, last)
        <4>1. n \in 1..Len(forwarded) BY <2>2, <2>4, EmptySeq
        <4>2. forwarded[n] \in Seq(Spellings) BY <4>1, <2>2
        <4>3. Len(forwarded[n]) \in Nat /\ n \in Nat BY <4>1, <4>2
        <4> QED BY <4>3 DEF EarlierEntry
      <3> HIDE DEF last
      <3> QED BY <2>1, <3>1, <3>2
    <2> QED BY <2>1, <2>3, <2>4
  <1>6. \A n \in 1..Len(hops') : LastOther(n)' <=> n \in 1..Len(hops) /\ LastOther(n)
    BY <1>1, <1>2 DEF LastOther, IsTrusted
  <1>7. ASSUME NEW n \in 1..Len(hops), LastOther(n)
        PROVE  Vouched(n)'
    <2>1. CASE n = Len(hops)
      <3>1. ParseAddr(last.text) = {hops[n]} BY <1>5, <2>1 DEF Holder
      <3>2. hops'[n] = hops[n] BY <1>2
      <3>3. \A f \in ForwardedEntries(forwarded') : ~EarlierEntry(last, f) BY <1>5
      <3>4. last \in ForwardedEntries(forwarded') BY <1>5
      <3> QED BY <3>1, <3>2, <3>3, <3>4 DEF Vouched, ParseAddr
    <2>2. CASE n < Len(hops)
      <3>1. PICK e \in ForwardedEntries(forwarded) :
                /\ ParseAddr(e.text) = {hops[n]}
                /\ \A f \in ForwardedEntries(forwarded) : EarlierEntry(e, f) => Skipped(f)
        BY <1>7, <2>2 DEF AddressInv, Vouched, Arrived, TrustedHop
      <3>2. IsTrusted(Holder) BY <1>3, <1>7, <2>2 DEF LastOther, Holder
      <3>3. Skipped(last) BY <1>5, <3>2, Skips
      <3>4. \A f \in ForwardedEntries(forwarded') : EarlierEntry(e, f) => Skipped(f)
        BY <1>5, <3>1, <3>3
      <3>5. hops'[n] = hops[n] /\ e \in ForwardedEntries(forwarded') BY <1>2, <1>5
      <3> QED BY <3>1, <3>4, <3>5 DEF Vouched, ParseAddr, Skipped, IsTrusted
    <2> QED BY <1>2, <2>1, <2>2
  <1>8. ASSUME NEW i \in 1..Len(hops'), ~IsTrusted(hops'[i])
        PROVE  \E n \in 1..Len(hops') : LastOther(n)'
    <2>1. i \in 1..Len(hops) /\ ~IsTrusted(hops[i]) BY <1>1, <1>2, <1>8
    <2>2. PICK n \in 1..Len(hops) : LastOther(n) BY <2>1 DEF AddressInv
    <2> QED BY <1>2, <1>6, <2>2
  <1>9. \A n \in 1..Len(hops') : LastOther(n)' => Vouched(n)' BY <1>6, <1>7
  <1> QED BY <1>1, <1>2, <1>4, <1>5, <1>8, <1>9 DEF AddressInv, IsTrusted

(* The peer's address is resolved to the last hop that is no proxy.         *)
LEMMA Resolved ==
  ASSUME AddressInv, ~Arrived, NEW n, LastOther(n), NEW form, form # "none"
  PROVE  Resolve(<<[host |-> Holder, form |-> form]>>) = {hops[n]}
  <1> DEFINE peer == <<[host |-> Holder, form |-> form]>>
  <1>1. ParseHeader(peer) = {Holder} BY DEF ParseHeader, ParseAddr
  <1> HIDE DEF peer
  <1>2. n \in 1..Len(hops) /\ Len(hops) \in Nat BY DEF LastOther, AddressInv
  <1>3. CASE n = Len(hops)
    <2>1. ~IsTrusted(Holder) /\ Holder = hops[n] BY <1>3 DEF Holder, LastOther
    <2> QED BY <1>1, <2>1 DEF Resolve, peer
  <1>4. CASE n < Len(hops)
    <2>1. IsTrusted(Holder) BY <1>2, <1>4 DEF Holder, LastOther
    <2>2. PICK e \in ForwardedEntries(forwarded) :
              /\ ParseAddr(e.text) = {hops[n]}
              /\ \A f \in ForwardedEntries(forwarded) : EarlierEntry(e, f) => Skipped(f)
      BY <1>2, <1>4 DEF AddressInv, Vouched
    <2>3. ~IsTrusted(hops[n]) BY DEF LastOther
    <2>4. FromForwardedFor(forwarded) = {hops[n]}
      BY <2>2, <2>3, WalkEnds DEF AddressInv
    <2> QED BY <1>1, <2>1, <2>4 DEF Resolve, peer
  <1> QED BY <1>2, <1>3, <1>4

LEMMA MiddlewareKeeps ==
  ASSUME AddressInv, NEW form \in Forms, Middleware(form)
  PROVE  AddressInv'
  <1> DEFINE peer == <<[host |-> Holder, form |-> form]>>
             addr == Resolve(peer)
  <1>1. /\ hops # << >> /\ ~Arrived /\ client' = addr
        /\ remoteAddr' = IF addr = {} THEN peer ELSE <<Plain(CHOOSE h \in addr : TRUE)>>
        /\ hops' = hops /\ forwarded' = forwarded
    BY DEF Middleware
  <1>2. Arrived' BY <1>1 DEF Arrived
  <1>3. LastUntrusted' = LastUntrusted BY <1>1 DEF LastUntrusted, IsTrusted
  <1>4. AddressIsVouched'
    <2>1. CASE form = "none"
      <3>1. ParseHeader(peer) = {} BY <2>1 DEF ParseHeader, ParseAddr
      <3>2. addr = {} BY <3>1 DEF Resolve
      <3>3. client' = {} /\ ParseHeader(remoteAddr') = {} BY <1>1, <3>1, <3>2
      <3>4. AddrFromRequest' = {} BY <3>3 DEF AddrFromRequest, ParseHeader, ParseAddr
      <3> QED BY <3>4 DEF AddressIsVouched
    <2>2. CASE form # "none" /\ \E i \in 1..Len(hops) : ~IsTrusted(hops[i])
      <3>1. PICK n \in 1..Len(hops) : LastOther(n) BY <2>2 DEF AddressInv
      <3>2. addr = {hops[n]} BY <1>1, <2>2, <3>1, Resolved
      <3>3. LastUntrusted = hops[n] BY <3>1, LastOtherIsLast
      <3> HIDE DEF addr, peer
      <3>4. (CHOOSE h \in addr : TRUE) = hops[n] BY <3>2
      <3>5. remoteAddr' = <<Plain(hops[n])>> BY <1>1, <3>2, <3>4
      <3>6. ParseHeader(<<Plain(hops[n])>>) = {hops[n]} BY DEF ParseHeader, ParseAddr, Plain
      <3>7. ParseHeader(remoteAddr)' = {hops[n]}
        BY <3>5, <3>6 DEF ParseHeader, ParseAddr
      <3>8. AddrFromRequest' = {hops[n]} BY <1>1, <3>2 DEF AddrFromRequest
      <3> QED BY <1>3, <3>3, <3>7, <3>8 DEF AddressIsVouched
    <2>3. CASE ~\E i \in 1..Len(hops) : ~IsTrusted(hops[i])
      <3>1. DOMAIN hops' = 1..Len(hops) BY <1>1 DEF AddressInv
      <3> QED BY <1>1, <2>3, <3>1 DEF AddressIsVouched, IsTrusted
    <2> QED BY <2>1, <2>2, <2>3
  <1>5. \A n : LastOther(n)' <=> LastOther(n) BY <1>1 DEF LastOther, IsTrusted
  <1> QED BY <1>1, <1>2, <1>4, <1>5 DEF AddressInv, IsTrusted

LEMMA AddressStutters ==
  ASSUME AddressInv, UNCHANGED addressVars
  PROVE  AddressInv'
  <1>1. /\ hops' = hops /\ forwarded' = forwarded /\ realIP' = realIP
        /\ remoteAddr' = remoteAddr /\ client' = client
    BY DEF addressVars
  <1>2. \A n : LastOther(n)' <=> LastOther(n) BY <1>1 DEF LastOther, IsTrusted
  <1>3. \A n : Vouched(n)' <=> Vouched(n) BY <1>1 DEF Vouched, ParseAddr, Skipped, IsTrusted
  <1>4. AddressIsVouched' <=> AddressIsVouched
    BY <1>1 DEF AddressIsVouched, AddrFromRequest, ParseHeader, ParseAddr, IsTrusted,
                LastUntrusted
  <1>5. Arrived' <=> Arrived BY <1>1 DEF Arrived
  <1> QED BY <1>1, <1>2, <1>3, <1>4, <1>5 DEF AddressInv, IsTrusted

LEMMA AddressStep == AddressInv /\ [AddressNext]_addressVars => AddressInv'
  <1> SUFFICES ASSUME AddressInv, [AddressNext]_addressVars PROVE AddressInv' OBVIOUS
  <1>1. CASE AddressNext
    BY <1>1, SendKeeps, OtherHopKeeps, TrustedHopKeeps, MiddlewareKeeps DEF AddressNext
  <1>2. CASE UNCHANGED addressVars BY <1>2, AddressStutters
  <1> QED BY <1>1, <1>2

(* For any hosts, any set of configured proxies, any path and any headers   *)
(* the client and foreign hops write, Resolver.Middleware serves a request  *)
(* under the address of the last hop in front of the configured proxies.    *)
THEOREM AddressVouched == AddressSpec => []AddressIsVouched
  <1>1. AddressInv => AddressIsVouched
    <2> SUFFICES ASSUME AddressInv, ~Arrived PROVE AddressIsVouched BY DEF AddressInv
    <2>1. client = {} /\ remoteAddr = << >> BY DEF AddressInv, Arrived
    <2>2. AddrFromRequest = {} BY <2>1 DEF AddrFromRequest, ParseHeader
    <2> QED BY <2>2 DEF AddressIsVouched
  <1> QED BY <1>1, AddressStart, AddressStep, PTL DEF AddressSpec

=============================================================================
