----------------------------- MODULE KeysProofs -----------------------------
(***************************************************************************)
(* Proofs about the keys behind Reload and Requests: a key whose creation  *)
(* was acknowledged is found and listed, and what was encrypted under a    *)
(* key comes back.                                                         *)
(***************************************************************************)
EXTENDS ReloadProofs

-----------------------------------------------------------------------------
(* Sorted slices.  The rank of a name is its index.                        *)
Below(S, x) == {y \in S : y < x}
Rank(S, x) == Cardinality(Below(S, x))

LEMMA NamesFinite ==
    ASSUME NEW S \in SUBSET Names
    PROVE  IsFiniteSet(S) /\ Cardinality(S) \in Nat
<1>1. IsFiniteSet(Names)
  BY NamesAssumption, FS_Interval DEF Names
<1> QED
  BY <1>1, FS_Subset, FS_CardinalityType

LEMMA NameType ==
    ASSUME NEW S \in SUBSET Names, NEW x \in S
    PROVE  x \in Nat \ {0} /\ x \in Int
BY DEF Names

LEMMA RankType ==
    ASSUME NEW S \in SUBSET Names, NEW x \in S
    PROVE  Rank(S, x) \in 0 .. Cardinality(S) - 1
<1>1. /\ Below(S, x) \in SUBSET S /\ x \notin Below(S, x) /\ Below(S, x) # S
      /\ Below(S, x) \in SUBSET Names
  <2>1. x \in Int /\ ~(x < x)
    BY NameType
  <2>2. x \notin Below(S, x)
    BY <2>1 DEF Below
  <2> QED
    BY <2>2 DEF Below
<1>2. /\ Cardinality(Below(S, x)) \in Nat /\ Cardinality(S) \in Nat
      /\ Cardinality(Below(S, x)) <= Cardinality(S) /\ Cardinality(Below(S, x)) # Cardinality(S)
  BY <1>1, NamesFinite, FS_Subset
<1> QED
  BY <1>2 DEF Rank

(* Ranks are ordered as the names are.                                     *)
LEMMA RankOrder ==
    ASSUME NEW S \in SUBSET Names, NEW x \in S, NEW y \in S
    PROVE  x < y <=> Rank(S, x) < Rank(S, y)
<1>1. ASSUME NEW a \in S, NEW b \in S, a < b
      PROVE  Rank(S, a) < Rank(S, b)
  <2>0. \A c \in S : c \in Int
    BY NameType
  <2>1. /\ Below(S, a) \in SUBSET Below(S, b) /\ a \in Below(S, b) \ Below(S, a)
        /\ Below(S, a) \in SUBSET Names /\ Below(S, b) \in SUBSET Names
    BY <1>1, <2>0 DEF Below
  <2>2. /\ Cardinality(Below(S, a)) \in Nat /\ Cardinality(Below(S, b)) \in Nat
        /\ Cardinality(Below(S, a)) <= Cardinality(Below(S, b))
        /\ Cardinality(Below(S, a)) # Cardinality(Below(S, b))
    BY <2>1, NamesFinite, FS_Subset
  <2> QED
    BY <2>2 DEF Rank
<1>2. Rank(S, x) \in Int /\ Rank(S, y) \in Int /\ x \in Int /\ y \in Int
  <2>1. Cardinality(S) \in Nat /\ Rank(S, x) \in 0 .. Cardinality(S) - 1
                              /\ Rank(S, y) \in 0 .. Cardinality(S) - 1
    BY RankType, NamesFinite
  <2> QED
    BY <2>1, NameType
<1> QED
  BY <1>1, <1>2

(* Every index of a slice is the rank of a name.                           *)
LEMMA RankExists ==
    ASSUME NEW S \in SUBSET Names, NEW k \in 0 .. Cardinality(S) - 1
    PROVE  \E x \in S : Rank(S, x) = k
<1> DEFINE f == [x \in S |-> Rank(S, x)]
           T == 0 .. Cardinality(S) - 1
<1>1. Cardinality(S) \in Nat
  BY NamesFinite
<1>2. f \in [S -> T]
  BY RankType
<1>3. \A a, b \in S : f[a] = f[b] => a = b
  <2> SUFFICES ASSUME NEW a \in S, NEW b \in S, Rank(S, a) = Rank(S, b) PROVE a = b
    OBVIOUS
  <2>1. ~(a < b) /\ ~(b < a) /\ a \in Int /\ b \in Int
    <3>1. Rank(S, a) \in Int /\ Rank(S, b) \in Int
      BY <1>1, RankType
    <3> QED
      BY <3>1, RankOrder, NameType
  <2> QED
    BY <2>1
<1>4. f \in Injection(S, T)
  BY <1>2, <1>3 DEF Injection, IsInjective
<1>5. IsFiniteSet(T) /\ Cardinality(T) = Cardinality(S)
  BY <1>1, FS_Interval
<1>6. f \in Surjection(S, T)
  BY <1>4, <1>5, FS_Injection
<1> QED
  BY <1>6 DEF Surjection

LEMMA NthFacts ==
    ASSUME NEW S \in SUBSET Names, NEW k \in 0 .. Cardinality(S) - 1
    PROVE  Nth(S, k) \in S /\ Rank(S, Nth(S, k)) = k
<1>1. \E x \in S : Cardinality({y \in S : y < x}) = k
  BY RankExists DEF Rank, Below
<1>2. Nth(S, k) \in S /\ Cardinality({y \in S : y < Nth(S, k)}) = k
  BY <1>1 DEF Nth
<1> QED
  BY <1>2 DEF Rank, Below

LEMMA LeastFacts ==
    ASSUME NEW S \in SUBSET Names, S # {}
    PROVE  Least(S) \in S /\ \A x \in S : Least(S) <= x
<1>1. Cardinality(S) \in Nat /\ Cardinality(S) # 0
  BY NamesFinite, FS_EmptySet
<1>2. Least(S) \in S /\ Rank(S, Least(S)) = 0
  BY <1>1, NthFacts DEF Least
<1>3. \A x \in S : ~(x < Least(S)) /\ x \in Int
  <2> SUFFICES ASSUME NEW x \in S PROVE ~(x < Least(S)) /\ x \in Int
    OBVIOUS
  <2>1. Rank(S, x) \in 0 .. Cardinality(S) - 1
    BY RankType
  <2> QED
    BY <1>1, <1>2, <2>1, RankOrder, NameType
<1>4. Least(S) \in Int
  BY <1>2, NameType
<1> QED
  BY <1>2, <1>3, <1>4

LEMMA FirstFacts ==
    ASSUME NEW S \in SUBSET Names, NEW k \in Nat
    PROVE  /\ First(S, k) \in SUBSET S /\ \A x \in S : x \in First(S, k) <=> Rank(S, x) < k
           /\ k = 0 => First(S, k) = {}
           /\ k >= Cardinality(S) => First(S, k) = S
           /\ k <= Cardinality(S) => Cardinality(First(S, k)) = k
           /\ k > 0 /\ S # {} => First(S, k) # {}
<1>1. First(S, k) \in SUBSET S /\ \A x \in S : x \in First(S, k) <=> Rank(S, x) < k
  BY DEF First, Rank, Below
<1>2. Cardinality(S) \in Nat /\ \A x \in S : Rank(S, x) \in 0 .. Cardinality(S) - 1
  BY NamesFinite, RankType
<1>3. k = 0 => First(S, k) = {}
  BY <1>1, <1>2
<1>4. k >= Cardinality(S) => First(S, k) = S
  BY <1>1, <1>2
<1>5. ASSUME k < Cardinality(S) PROVE Cardinality(First(S, k)) = k
  <2>1. PICK m \in S : Rank(S, m) = k
    BY <1>2, <1>5, RankExists
  <2>2. First(S, k) = Below(S, m)
    BY <1>1, <2>1, RankOrder DEF Below
  <2> QED
    BY <2>1, <2>2 DEF Rank
<1>6. ASSUME k > 0, S # {} PROVE First(S, k) # {}
  <2>1. PICK m \in S : Rank(S, m) = 0
    BY <1>2, <1>6, RankExists
  <2> QED
    BY <1>1, <1>6, <2>1
<1> QED
  BY <1>1, <1>2, <1>3, <1>4, <1>5, <1>6

-----------------------------------------------------------------------------
(* The listings: one that says it is at the end has all names with the     *)
(* prefix.                                                                 *)
CompleteFor(l, all, prefix) ==
    l.next = Empty => all \cap StartingWith(prefix) \subseteq l.names

(* A listing that is cut off names the next one.                           *)
LEMMA CutFacts ==
    ASSUME NEW S \in SUBSET Names, NEW k \in Nat, k < Cardinality(S)
    PROVE  Cut(S, k).next # Empty
<1>1. Nth(S, k) \in S
  BY NamesFinite, NthFacts
<1>2. Nth(S, k) # 0
  BY <1>1, NameType
<1> QED
  BY <1>2 DEF Cut, Listing, Empty

LEMMA FromFacts ==
    ASSUME NEW S \in SUBSET Names, NEW n \in Int
    PROVE  /\ From(S, n) \in SUBSET S
           /\ n >= 0 => \A x \in S : x \in From(S, n) <=> x >= n
BY NameType DEF From

LEMMA ListComplete ==
    ASSUME NEW all \in SUBSET Names, NEW prefix \in Int
    PROVE  CompleteFor(List(all, prefix, -1), all, prefix)
<1> DEFINE matches == all \cap StartingWith(prefix)
           names == IF prefix = Empty THEN all ELSE From(all, Least(matches))
           len == Cardinality(names)
<1>1. PageSize \in Nat \ {0}
  BY PageAssumption
<1>2. matches \in SUBSET Names
  OBVIOUS
<1>3. matches # {} => Least(matches) \in matches /\ \A x \in matches : Least(matches) <= x
  BY <1>2, LeastFacts
<1>4. ASSUME prefix = Empty \/ matches # {}
      PROVE  names \in SUBSET Names /\ matches \subseteq names
  <2>1. CASE prefix = Empty
    BY <2>1
  <2>2. CASE prefix # Empty
    <3>1. Least(matches) \in Nat
      BY <1>2, <1>3, <1>4, <2>2, NameType
    <3>2. names = From(all, Least(matches))
      BY <2>2
    <3> HIDE DEF names
    <3>3. \A x \in all : x \in names <=> x >= Least(matches)
      BY <3>1, <3>2, FromFacts
    <3>4. names \in SUBSET all
      BY <3>1, <3>2, FromFacts
    <3>5. \A x \in matches : x \in all /\ x >= Least(matches)
      <4> SUFFICES ASSUME NEW x \in matches PROVE x >= Least(matches)
        OBVIOUS
      <4> HIDE DEF matches
      <4>1. x \in Nat /\ Least(matches) <= x
        BY <1>2, <1>3, NameType
      <4> QED
        BY <3>1, <4>1
    <3> QED
      BY <3>3, <3>4, <3>5
  <2> QED
    BY <2>1, <2>2
<1>5. ASSUME prefix = Empty \/ matches # {}
      PROVE  len \in Nat /\ Cardinality(matches) \in Nat /\ Cardinality(matches) <= len
  BY <1>2, <1>4, <1>5, NamesFinite, FS_Subset
<1>6. List(all, prefix, -1) =
         CASE prefix # Empty /\ matches = {} -> Listing({}, Empty)
           [] prefix # Empty /\ matches # {} /\ PageSize < Cardinality(matches) ->
                 IF PageSize = len - 1 THEN Listing(names, Empty) ELSE Cut(names, PageSize)
           [] prefix # Empty /\ matches # {} /\ Cardinality(matches) <= PageSize /\ matches # names ->
                 Listing(matches, Empty)
           [] OTHER ->
                 IF (-1 <= 0 /\ len <= PageSize) \/ len <= -1 THEN Listing(names, Empty)
                 ELSE Cut(names, IF -1 <= 0 THEN PageSize ELSE -1)
  BY DEF List
<1> HIDE DEF matches, names, len
<1>7. \/ /\ prefix # Empty /\ matches = {} /\ List(all, prefix, -1) = Listing({}, Empty)
      \/ /\ prefix = Empty \/ matches # {}
         /\ \/ List(all, prefix, -1) \in {Listing(names, Empty), Listing(matches, Empty)}
            \/ PageSize < len /\ List(all, prefix, -1) = Cut(names, PageSize)
  BY <1>1, <1>5, <1>6, SMTT(60)
<1>8. \A S, n : Listing(S, n).names = S
  BY DEF Listing
<1> QED
  BY <1>1, <1>4, <1>7, <1>8, CutFacts DEF CompleteFor, matches, len

LEMMA MemListComplete ==
    ASSUME NEW all \in SUBSET Names, NEW prefix \in Int
    PROVE  CompleteFor(MemList(all, prefix, -1), all, prefix)
BY DEF CompleteFor, MemList, Listing

(* The names with a prefix come from the prefix on.                        *)
LEMMA PrefixFrom ==
    ASSUME NEW all \in SUBSET Names, NEW prefix \in Int
    PROVE  all \cap StartingWith(prefix) \subseteq From(all, prefix)
<1> SUFFICES ASSUME NEW x \in all, x \in StartingWith(prefix) PROVE x \in From(all, prefix)
  OBVIOUS
<1>1. x \in Nat
  BY NameType
<1>2. CASE prefix = 0
  BY <1>1, <1>2, FromFacts
<1>3. CASE prefix > 0
  <2>1. x >= prefix
    BY <1>1, <1>3 DEF StartingWith, Empty
  <2> QED
    BY <1>3, <2>1, FromFacts
<1>4. CASE prefix < 0
  BY <1>4 DEF StartingWith, Empty
<1> QED
  BY <1>2, <1>3, <1>4

LEMMA EntrustListComplete ==
    ASSUME NEW all \in SUBSET Names, NEW prefix \in Int
    PROVE  CompleteFor(EntrustList(all, prefix, -1), all, prefix)
<1> DEFINE rest == From(all, prefix)
           page == First(rest, PageSize)
<1>1. EntrustList(all, prefix, -1) =
          [names |-> page, blanks |-> Cardinality(page),
           next |-> IF page = rest THEN Empty ELSE Least(rest \ page)]
  BY DEF EntrustList
<1>2. rest \in SUBSET Names /\ page \in SUBSET rest
  BY FromFacts, FirstFacts, PageAssumption
<1> HIDE DEF rest, page
<1>3. ASSUME page # rest PROVE Least(rest \ page) # Empty
  <2>1. rest \ page # {} /\ rest \ page \in SUBSET Names
    BY <1>2, <1>3
  <2>2. Least(rest \ page) \in rest \ page
    BY <2>1, LeastFacts
  <2> QED
    BY <2>1, <2>2, NameType DEF Empty
<1>4. all \cap StartingWith(prefix) \subseteq rest
  BY PrefixFrom DEF rest
<1> QED
  BY <1>1, <1>3, <1>4 DEF CompleteFor

(* fortanix: the loop ends when there are no names behind the prefix.      *)
LEMMA FortanixLast ==
    ASSUME NEW all \in SUBSET Names, NEW prefix \in Int, NEW so,
           FortanixRound(all, prefix, so).last
    PROVE  all \cap StartingWith(prefix) = {}
<1>1. First(From(all, prefix), PageSize) = {}
  BY DEF FortanixRound, StartPage
<1>2. From(all, prefix) = {}
  BY <1>1, FromFacts, FirstFacts, PageAssumption
<1> QED
  BY <1>2, PrefixFrom

(* A name moves back in a slice when others are added.                     *)
LEMMA FirstShrinks ==
    ASSUME NEW T \in SUBSET Names, NEW S \in SUBSET T, NEW k \in Nat
    PROVE  S \cap First(T, k) \subseteq First(S, k)
<1> SUFFICES ASSUME NEW x \in S, x \in First(T, k) PROVE x \in First(S, k)
  OBVIOUS
<1>1. Below(S, x) \in SUBSET Below(T, x) /\ Below(T, x) \in SUBSET Names
      /\ Below(S, x) \in SUBSET Names
  BY DEF Below
<1>2. /\ Rank(S, x) \in Nat /\ Rank(T, x) \in Nat /\ Rank(S, x) <= Rank(T, x)
  BY <1>1, NamesFinite, FS_Subset DEF Rank
<1>3. Rank(T, x) < k
  BY FirstFacts
<1>4. Rank(S, x) < k
  BY <1>2, <1>3
<1>5. S \in SUBSET Names
  OBVIOUS
<1> QED
  BY <1>4, <1>5, FirstFacts

(* gemalto: a round goes on where the last one has stopped, and a name     *)
(* among the first skip ones was seen; so the last round has seen all.     *)
LEMMA GemaltoRoundKeeps ==
    ASSUME NEW all \in SUBSET Names, NEW so, so.skip \in Nat, so.names \in SUBSET Names,
           NEW known, known \cap First(all, so.skip) \subseteq so.names
    PROVE  LET g == GemaltoRound(all, so)
           IN  /\ g.skip \in Nat /\ g.names \in SUBSET Names
               /\ known \cap First(all, g.skip) \subseteq g.names
               /\ g.last => known \cap all \subseteq g.names
<1> DEFINE head == First(all, so.skip)
           tail == all \ head
           page == First(tail, PageSize)
           g == GemaltoRound(all, so)
<1>1. g.names = so.names \cup page /\ g.skip = so.skip + Cardinality(page)
      /\ (g.last <=> so.skip >= Cardinality(all))
  BY DEF GemaltoRound, SkipPage
<1>2. /\ head \in SUBSET all /\ tail \in SUBSET Names /\ page \in SUBSET tail
      /\ \A x \in all : x \in head <=> Rank(all, x) < so.skip
      /\ \A x \in tail : x \in page <=> Rank(tail, x) < PageSize
      /\ so.skip >= Cardinality(all) => head = all
      /\ so.skip <= Cardinality(all) => Cardinality(head) = so.skip
  <2>1. /\ head \in SUBSET all /\ \A x \in all : x \in head <=> Rank(all, x) < so.skip
        /\ so.skip >= Cardinality(all) => head = all
        /\ so.skip <= Cardinality(all) => Cardinality(head) = so.skip
    BY FirstFacts
  <2> HIDE DEF head
  <2>2. tail \in SUBSET Names
    BY <2>1
  <2> HIDE DEF tail
  <2>3. page \in SUBSET tail /\ \A x \in tail : x \in page <=> Rank(tail, x) < PageSize
    BY <2>2, FirstFacts, PageAssumption
  <2> QED
    BY <2>1, <2>2, <2>3
<1> HIDE DEF head, page, g
<1>3. /\ Cardinality(page) \in Nat /\ Cardinality(all) \in Nat /\ Cardinality(head) \in Nat
      /\ IsFiniteSet(page) /\ IsFiniteSet(head)
  <2>1. page \in SUBSET Names /\ head \in SUBSET Names
    BY <1>2
  <2> QED
    BY <2>1, NamesFinite
<1>4. g.skip \in Nat /\ g.names \in SUBSET Names
  BY <1>1, <1>2, <1>3
<1>5. ASSUME NEW x \in known, x \in First(all, g.skip), x \notin head
      PROVE  x \in page
  <2> SUFFICES ASSUME x \notin page PROVE FALSE
    OBVIOUS
  <2>1. x \in all /\ Rank(all, x) < g.skip /\ x \in tail
    BY <1>4, <1>5, FirstFacts
  <2>2. Rank(all, x) \in Nat /\ Rank(all, x) < Cardinality(all) /\ so.skip <= Rank(all, x)
    BY <1>2, <1>3, <1>5, <2>1, RankType
  <2>3. Cardinality(head) = so.skip
    BY <1>2, <1>3, <2>2
  <2>4. head \subseteq Below(all, x)
    <3> SUFFICES ASSUME NEW y \in head PROVE y < x
      BY <1>2 DEF Below
    <3>1. y \in all /\ Rank(all, y) \in Int /\ Rank(all, y) < so.skip
      BY <1>2, RankType
    <3>2. Rank(all, y) < Rank(all, x)
      BY <2>2, <3>1
    <3> QED
      BY <2>1, <3>1, <3>2, RankOrder
  <2>5. page \subseteq Below(all, x)
    <3> SUFFICES ASSUME NEW y \in page PROVE y < x
      BY <1>2 DEF Below
    <3>0. y \in tail /\ tail \in SUBSET Names /\ x \in tail
      BY <1>2, <2>1
    <3>1. /\ y \in tail /\ Rank(tail, y) \in Int /\ Rank(tail, y) < PageSize
          /\ Rank(tail, x) \in Int /\ ~(Rank(tail, x) < PageSize)
      <4> HIDE DEF tail
      <4>1. \A z \in tail : Rank(tail, z) \in 0 .. Cardinality(tail) - 1
        BY <3>0, RankType
      <4>2. Rank(tail, y) \in Int /\ Rank(tail, x) \in Int
        BY <3>0, <4>1
      <4> QED
        BY <1>2, <3>0, <4>2
    <3>2. Rank(tail, y) < Rank(tail, x)
      BY <3>1, PageAssumption
    <3>3. tail \in SUBSET Names
      BY <1>2
    <3> QED
      BY <2>1, <3>1, <3>2, <3>3, RankOrder
  <2>6. head \cap page = {}
    BY <1>2
  <2>7. /\ Cardinality(head \cup page) = Cardinality(head) + Cardinality(page)
    <3>1. /\ Cardinality(head \cup page) = Cardinality(head) + Cardinality(page) - Cardinality({})
          /\ Cardinality({}) = 0
      BY <1>3, <2>6, FS_Union, FS_EmptySet
    <3> QED
      BY <1>3, <3>1
  <2>8. Cardinality(head \cup page) <= Rank(all, x)
    <3>1. Below(all, x) \in SUBSET Names /\ head \cup page \in SUBSET Below(all, x)
      BY <2>4, <2>5 DEF Below
    <3> QED
      BY <3>1, NamesFinite, FS_Subset DEF Rank
  <2> QED
    BY <1>1, <1>3, <2>1, <2>2, <2>3, <2>7, <2>8
<1>6. known \cap First(all, g.skip) \subseteq g.names
  BY <1>1, <1>5 DEF head
<1>7. g.last => known \cap all \subseteq g.names
  BY <1>1, <1>2 DEF head
<1> QED
  BY <1>4, <1>6, <1>7 DEF g

-----------------------------------------------------------------------------
Creators == {"createKey", "importKey"}
Users == {"describeKey", "encryptKey", "decryptKey", "hmacKey", "generateKey"}

(* The keys of a key store, and whether a request tried to delete one.     *)
Here(k) == {n \in Names : store[k][n] # Nothing}
Damaged(k) == \E n \in Names : <<k, n>> \in doomed

(* Acknowledged keys that nobody tried to delete are stored.               *)
KeptInv == \A k \in UsedKinds, n \in Names : <<k, n>> \in durable \ doomed => n \in Here(k)

(* A key that is about to be acknowledged is stored, or was deleted since. *)
Promised(r) ==
    LET name == Request(r).resource.name
    IN  Request(r).api \in Creators /\ req[r].codes = <<200>> =>
            <<req[r].used, name>> \in doomed \/ name \in Here(req[r].used)

(* Durable, from the call of the handler on.                               *)
Found(r) ==
    \A n \in Certain(r) : Request(r).resource = Resource(n, FALSE) =>
        /\ Request(r).api \in Users /\ ~Refused(r) => req[r].codes # <<404>>
        /\ Request(r).api # "deleteKey" \/ req[r].codes = <<>>
        /\ Request(r).api \in Creators => req[r].codes # <<200>>

Prefix(r) ==
    IF Request(r).resource.star THEN Starred(Request(r).resource.name)
    ELSE Request(r).resource.name

Shown(r) ==
    /\ Request(r).api = "listKeys" /\ req[r].codes = <<200>>
    /\ req[r].used = "gemalto" => ~Damaged("gemalto")
    => CompleteFor(req[r].result.listing, Certain(r), Prefix(r))

(* Of the keys that gemalto's loop skips it has seen the certain ones.     *)
Passed(r) ==
    req[r].pc = "page" /\ req[r].used = "gemalto" /\ ~Damaged("gemalto") =>
        Certain(r) \cap First(Here("gemalto"), req[r].page.skip) \subseteq req[r].page.names

(* A key that azure or vault has yet to write is not a certain one.        *)
Creating(r) ==
    req[r].pc = "write" =>
        /\ Request(r).api \in Creators /\ req[r].used \in ChecksFirst
        /\ req[r].effect.put \notin {Keep, Nothing}
        /\ Request(r).resource.name \notin Certain(r)

KeyInv(r) ==
    /\ req[r].known \subseteq durable
    /\ req[r].page.names \in SUBSET Names /\ req[r].page.skip \in Nat
    /\ req[r].pc \in Early \cup {"handler"} => req[r].page = NoPage
    /\ req[r].granted => Promised(r) /\ Found(r) /\ Shown(r)
    /\ Passed(r) /\ Creating(r)

DInv == KeptInv /\ \A r \in Reqs : KeyInv(r)

-----------------------------------------------------------------------------
(* What the handlers do to keys, and what they say about them.             *)
Truthful(x, e) ==
    LET name == x.q.resource.name
    IN  /\ e.put \notin {Keep, Nothing} => x.keys[name] = Nothing /\ x.q.api \in Creators
        /\ x.q.api \in Creators /\ e.codes = <<200>> =>
               x.keys[name] = Nothing /\ e.put \notin {Keep, Nothing} /\ validName(x.q.resource)
        /\ x.q.api \in Users /\ x.keys[name] # Nothing /\ ~Denied(x) => e.codes # <<404>>
        /\ x.q.api = "listKeys" /\ e.codes = <<200>> =>
               CompleteFor(e.result.listing, Stocked(x), ListPrefix(x))

LEMMA FormsDiffer ==
    /\ Keep # Nothing
    /\ \A key : EncodeKeyVersion(key) \notin {Keep, Nothing}
<1>1. /\ Keep.form = "keep" /\ Nothing.form = "none"
      /\ \A key : EncodeKeyVersion(key).form = "pb"
  BY DEF Keep, Nothing, EncodeKeyVersion, Stored
<1> QED
  BY <1>1

(* An answer that changes nothing and is neither 200 nor 404.              *)
Mild(e) == e.put = Keep /\ e.codes # <<200>> /\ e.codes # <<404>>

LEMMA MildCodes ==
    ASSUME NEW code \in Codes \ {200, 404}
    PROVE  Mild(Fail(code)) /\ Mild(LogAndFail(code))
<1>1. <<code>> # <<200>> /\ <<code>> # <<404>>
  OBVIOUS
<1> QED
  BY <1>1 DEF Mild, Fail, LogAndFail, Effect

LEMMA MildAnswers ==
    /\ Mild(Fail(400)) /\ Mild(Fail(406)) /\ Mild(Fail(409)) /\ Mild(Fail(500))
    /\ Mild(LogAndFail(400)) /\ Mild(LogAndFail(500)) /\ Mild(LogAndFail(502))
    /\ Mild(InvalidBody) /\ Mild(ErrKeyExists) /\ Mild(ErrDecrypt)
<1>1. {400, 406, 409, 500, 502} \subseteq Codes \ {200, 404}
  BY DEF Codes
<1>2. \A c \in {400, 406, 409, 500, 502} : Mild(Fail(c)) /\ Mild(LogAndFail(c))
  BY <1>1, MildCodes
<1> QED
  BY <1>2 DEF InvalidBody, ErrKeyExists, ErrDecrypt

LEMMA MildPanic == Mild(Panic)
BY DEF Mild, Panic, Effect

(* The errors of backends and of the system.                               *)
LEMMA MildErrors ==
    ASSUME NEW x, NEW e \in BackendErrors(x) \cup SystemErrors(x)
    PROVE  Mild(e)
<1>1. e \in {LogAndFail(502), LogAndFail(500)}
  BY DEF BackendErrors, SystemErrors
<1> QED
  BY <1>1, MildAnswers

LEMMA ReplyFacts ==
    /\ \A result : /\ ReplyWith(result).put = Keep /\ ReplyWith(result).codes = <<200>>
                   /\ ReplyWith(result).result = result
    /\ \A code : Fail(code).put = Keep /\ LogAndFail(code).put = Keep
    /\ \A put : Audited(put).put = put /\ Audited(put).codes = <<200>>
BY DEF ReplyWith, Audited, Fail, LogAndFail, Effect

LEMMA SimpleKept ==
    ASSUME NEW x, NEW e, Simple(x, e)
    PROVE  e.put = Keep
BY ReplyFacts, MildErrors, MildPanic DEF Simple, Mild

LEMMA MildTruthful ==
    ASSUME NEW x, NEW e, Mild(e)
    PROVE  Truthful(x, e)
BY FormsDiffer DEF Mild, Truthful

LEMMA CreateTruthful ==
    ASSUME NEW x, x.q.api \in Creators, NEW e \in createKey(x) \cup importKey(x)
    PROVE  Truthful(x, e)
<1>1. \/ e \in {Fail(400), InvalidBody, Fail(406)} \cup SystemErrors(x)
      \/ validName(x.q.resource) /\ \E key : e \in KeysCreate(x, key)
  BY DEF createKey, importKey
<1>2. CASE e \in {Fail(400), InvalidBody, Fail(406)} \cup SystemErrors(x)
  BY <1>2, MildAnswers, MildErrors, MildTruthful
<1>3. ASSUME NEW key, e \in KeysCreate(x, key), validName(x.q.resource)
      PROVE  Truthful(x, e)
  <2> DEFINE new == EncodeKeyVersion(key)
  <2>1. \/ e \in {LogAndFail(502), ErrKeyExists}
        \/ e = Audited(new) /\ x.keys[x.q.resource.name] = Nothing
        \/ \E f \in BackendErrors(x), v \in {Keep, new, Nothing} :
               /\ e = [f EXCEPT !.put = v]
               /\ v = new => x.keys[x.q.resource.name] = Nothing
    BY <1>3, FormsDiffer DEF KeysCreate, FailedCreate
  <2>2. new \notin {Keep, Nothing}
    BY FormsDiffer
  <2> HIDE DEF new
  <2>3. CASE e \in {LogAndFail(502), ErrKeyExists}
    BY <2>3, MildAnswers, MildErrors, MildTruthful
  <2>4. CASE e = Audited(new) /\ x.keys[x.q.resource.name] = Nothing
    <3>1. e.put = new /\ e.codes = <<200>>
      BY <2>4, ReplyFacts
    <3> QED
      BY <1>3, <2>2, <2>4, <3>1 DEF Truthful, Creators, Users
  <2>5. ASSUME NEW f \in BackendErrors(x), NEW v \in {Keep, new, Nothing}, e = [f EXCEPT !.put = v],
               v = new => x.keys[x.q.resource.name] = Nothing
        PROVE  Truthful(x, e)
    <3>1. f = LogAndFail(502) /\ Mild(f)
      BY MildErrors DEF BackendErrors
    <3>2. e.put = v /\ e.codes = f.codes
      BY <2>5, <3>1 DEF Fail, LogAndFail, Effect
    <3> QED
      BY <2>2, <2>5, <3>1, <3>2 DEF Truthful, Creators, Users, Mild
  <2> QED
    BY <2>1, <2>3, <2>4, <2>5
<1> QED
  BY <1>1, <1>2, <1>3

(* A handler that gets a key finds it if it is there.                      *)
NoUseOf(x) == {Fail(400), InvalidBody, Panic, LogAndFail(502)} \cup BackendErrors(x)

LEMMA UseTruthful ==
    ASSUME NEW x, x.q.api \in Users,
           NEW e \in describeKey(x) \cup encryptKey(x) \cup generateKey(x)
                       \cup decryptKey(x) \cup hmacKey(x)
    PROVE  Truthful(x, e)
<1>1. e.put = Keep
  BY UseEffects, SimpleKept
<1>2. ASSUME x.keys[x.q.resource.name] # Nothing, ~Denied(x)
      PROVE  e.codes # <<404>>
  <2>1. \/ e \in NoUseOf(x) \cup {LogAndFail(500), ErrDecrypt, Fail(409)} \cup SystemErrors(x)
        \/ \E result : e = ReplyWith(result)
    <3>1. CASE e \in describeKey(x)
      <4> DEFINE Describe(key) == {ReplyWith([kind |-> "key", cipher |-> key.cipher, by |-> key.by])}
      <4> SUFFICES ASSUME e \notin NoUseOf(x) PROVE \E result : e = ReplyWith(result)
        OBVIOUS
      <4>1. e \in KeysGet(x, Describe)
        BY <3>1 DEF describeKey, NoUseOf
      <4> HIDE DEF Describe
      <4>2. PICK v \in GetFinds(x) : e \in Describe(ParseKeyVersion(v).key)
        BY <1>2, <4>1 DEF KeysGet, NoUseOf
      <4> QED
        BY <4>2 DEF Describe
    <3>2. ASSUME NEW key, NEW plaintext, e \in Encrypted(x, key, plaintext)
          PROVE  e = LogAndFail(500) \/ e \in SystemErrors(x) \/ \E result : e = ReplyWith(result)
      BY <3>2 DEF Encrypted
    <3>3. CASE e \in encryptKey(x)
      <4>1. e \in NoUseOf(x) \/ \E key : e \in Encrypted(x, key, x.q.body.plaintext)
        BY <1>2, <3>3 DEF encryptKey, KeysGet, NoUseOf
      <4> QED
        BY <3>2, <4>1
    <3>4. CASE e \in generateKey(x)
      <4>1. \/ e \in NoUseOf(x) \/ e \in SystemErrors(x)
            \/ \E key : e \in Encrypted(x, key, x.random)
        BY <1>2, <3>4 DEF generateKey, KeysGet, NoUseOf
      <4> QED
        BY <3>2, <4>1
    <3>5. CASE e \in decryptKey(x)
      BY <1>2, <3>5 DEF decryptKey, KeysGet, NoUseOf
    <3>6. CASE e \in hmacKey(x)
      <4> DEFINE Use(key) == IF HasHMACKey(key)
                             THEN {ReplyWith([kind |-> "sum", sum |-> Sum(key, x.q.body.plaintext)])}
                             ELSE {Fail(409)}
      <4> SUFFICES ASSUME e \notin NoUseOf(x)
                   PROVE  e = Fail(409) \/ \E result : e = ReplyWith(result)
        OBVIOUS
      <4>0. validName(x.q.resource) /\ ~BadBody(x)
        <5>1. e # Fail(400) /\ e # InvalidBody
          BY DEF NoUseOf
        <5>2. validName(x.q.resource)
          BY <3>6, <5>1 DEF hmacKey
        <5> QED
          BY <3>6, <5>1, <5>2 DEF hmacKey
      <4>1. e \in KeysGet(x, Use)
        BY <3>6, <4>0 DEF hmacKey
      <4> HIDE DEF Use
      <4>2. PICK v \in GetFinds(x) : e \in Use(ParseKeyVersion(v).key)
        BY <1>2, <4>1 DEF KeysGet, NoUseOf
      <4> QED
        BY <4>2 DEF Use
    <3> QED
      BY <3>1, <3>3, <3>4, <3>5, <3>6
  <2>2. CASE e \in NoUseOf(x) \cup {LogAndFail(500), ErrDecrypt, Fail(409)} \cup SystemErrors(x)
    <3>1. Mild(e)
      BY <2>2, MildAnswers, MildErrors, MildPanic DEF NoUseOf
    <3> QED
      BY <3>1 DEF Mild
  <2>3. CASE \E result : e = ReplyWith(result)
    <3>1. e.codes = <<200>>
      BY <2>3, ReplyFacts
    <3> QED
      BY <3>1
  <2> QED
    BY <2>1, <2>2, <2>3
<1>3. x.q.api \notin Creators /\ x.q.api # "listKeys"
  BY DEF Users, Creators
<1> QED
  BY <1>1, <1>2, <1>3, FormsDiffer DEF Truthful

LEMMA DeleteTruthful ==
    ASSUME NEW x, x.q.api = "deleteKey", NEW e \in deleteKey(x)
    PROVE  Truthful(x, e)
<1>1. x.q.api \notin Creators \cup Users /\ x.q.api # "listKeys"
  BY DEF Creators, Users
<1>2. e = Fail(400) \/ (validName(x.q.resource) /\ e \in KeysDelete(x))
  BY DEF deleteKey
<1>3. e.put \in {Keep, Nothing}
  <2>1. \/ e \in {Fail(400), ErrNotFound, Audited(Nothing), Audited(Keep)} \cup BackendErrors(x)
        \/ \E f \in BackendErrors(x) : e = [f EXCEPT !.put = Nothing]
    BY <1>2 DEF KeysDelete
  <2>2. ASSUME NEW f \in BackendErrors(x), e = [f EXCEPT !.put = Nothing]
        PROVE  e.put = Nothing
    BY <2>2 DEF BackendErrors, Fail, LogAndFail, Effect
  <2> QED
    BY <2>1, <2>2, ReplyFacts, MildErrors DEF Mild, ErrNotFound
<1> QED
  BY <1>1, <1>2, <1>3, ReplyFacts, FormsDiffer DEF Truthful

(* The effects of listKeys other than an error.                            *)
LEMMA ListErrorCodes ==
    ASSUME NEW x, NEW e \in ListErrors(x) \cup {ListCanceled}
    PROVE  e.put = Keep /\ e.codes # <<200>>
<1>1. e = ListFailed(LogAndFail(502))
  BY DEF ListErrors, ListCanceled, BackendErrors
<1>2. /\ LogAndFail(502).log = TRUE
      /\ \A codes : LET g == [LogAndFail(502) EXCEPT !.codes = codes]
                    IN  g.codes = codes /\ g.put = Keep
  BY DEF LogAndFail, Effect
<1>3. <<502, 200>> # <<200>>
  OBVIOUS
<1> QED
  BY <1>1, <1>2, <1>3 DEF ListFailed

LEMMA ListedFacts ==
    ASSUME NEW l
    PROVE  /\ Listed(l).put = Keep /\ Listed(l).result.listing = l
BY ReplyFacts DEF Listed

LEMMA ListTruthful ==
    ASSUME NEW x, x.q.api = "listKeys", x.conf.keys \in Kinds, ListPrefix(x) \in Int,
           ~(Paged(x) /\ validPattern(x.q.resource)), NEW e \in listKeys(x)
    PROVE  Truthful(x, e)
<1>1. x.q.api \notin Creators \cup Users
  BY DEF Creators, Users
<1>2. \/ e = Fail(400) \/ e \in ListErrors(x)
      \/ e \in {Listed(List(Stocked(x), ListPrefix(x), -1)),
                Listed(MemList(Stocked(x), ListPrefix(x), -1)),
                Listed(EntrustList(Stocked(x), ListPrefix(x), -1))}
  <2>1. CASE ~validPattern(x.q.resource)
    BY <2>1 DEF listKeys
  <2>2. CASE validPattern(x.q.resource)
    <3>1. x.conf.keys \in {"mem", "fs", "efs", "aws", "gcp", "azure", "vault", "entrust"}
      BY <2>2 DEF Paged, Kinds
    <3>2. e \in memList(x) \cup fsList(x) \cup efsList(x) \cup awsList(x) \cup gcpList(x)
                  \cup azureList(x) \cup vaultList(x) \cup entrustList(x)
      BY <2>2, <3>1 DEF listKeys
    <3> QED
      BY <3>2 DEF memList, fsList, efsList, awsList, gcpList, azureList, vaultList, entrustList,
                  ListAll
  <2> QED
    BY <2>1, <2>2
<1>3. CASE e = Fail(400) \/ e \in ListErrors(x)
  BY <1>1, <1>3, ListErrorCodes, MildAnswers, FormsDiffer DEF Truthful, Mild
<1>4. Stocked(x) \in SUBSET Names
  BY DEF Stocked
<1>5. ASSUME NEW l, e = Listed(l), CompleteFor(l, Stocked(x), ListPrefix(x))
      PROVE  Truthful(x, e)
  <2>1. e.put = Keep /\ e.result.listing = l
    BY <1>5, ListedFacts
  <2> QED
    BY <1>1, <1>5, <2>1, FormsDiffer DEF Truthful
<1> QED
  BY <1>2, <1>3, <1>4, <1>5, ListComplete, MemListComplete, EntrustListComplete

LEMMA OtherTruthful ==
    ASSUME NEW x, x.q.api \notin Creators \cup Users \cup {"listKeys", "deleteKey"}, NEW e, Simple(x, e)
    PROVE  Truthful(x, e)
BY SimpleKept, FormsDiffer DEF Truthful

LEMMA HandlerTruthful ==
    ASSUME NEW x, x.q.api \in APIs, x.conf.keys \in Kinds, ListPrefix(x) \in Int,
           ~(Paged(x) /\ validPattern(x.q.resource)), NEW e \in Handler(x)
    PROVE  Truthful(x, e)
<1>1. CASE x.q.api \in DOMAIN ServerRoutes
  <2>1. e \in version(x) \cup ready(x) \cup status(x) \cup metrics(x) \cup listAPIs(x)
    BY <1>1, RouteTables DEF Handler
  <2>2. x.q.api \notin Creators \cup Users \cup {"listKeys", "deleteKey"}
    BY <1>1, RouteTables DEF Creators, Users
  <2> QED
    BY <2>1, <2>2, ServerEffects, OtherTruthful
<1>2. CASE x.q.api \in Creators
  <2>1. e \in createKey(x) \cup importKey(x)
    BY <1>2 DEF Handler, Creators
  <2> QED
    BY <1>2, <2>1, CreateTruthful
<1>3. CASE x.q.api = "deleteKey"
  <2>1. e \in deleteKey(x)
    BY <1>3 DEF Handler
  <2> QED
    BY <1>3, <2>1, DeleteTruthful
<1>4. CASE x.q.api = "listKeys"
  <2>1. e \in listKeys(x)
    BY <1>4 DEF Handler
  <2> QED
    BY <1>4, <2>1, ListTruthful
<1>5. CASE x.q.api \in Users
  <2>1. e \in describeKey(x) \cup encryptKey(x) \cup generateKey(x) \cup decryptKey(x) \cup hmacKey(x)
    BY <1>5 DEF Handler, Users
  <2> QED
    BY <1>5, <2>1, UseTruthful
<1>6. CASE x.q.api \in DOMAIN PolicyRoutes \cup DOMAIN IdentityRoutes \cup DOMAIN LogRoutes
  <2>1. e \in describePolicy(x) \cup readPolicy(x) \cup listPolicies(x)
                 \cup describeIdentity(x) \cup listIdentities(x)
                 \cup selfDescribeIdentity(x) \cup subscribe(x)
    BY <1>6, RouteTables DEF Handler
  <2>2. x.q.api \notin Creators \cup Users \cup {"listKeys", "deleteKey"}
    BY <1>6, RouteTables DEF Creators, Users
  <2> QED
    BY <2>1, <2>2, LookupEffects, OtherTruthful
<1> QED
  BY <1>1, <1>2, <1>3, <1>4, <1>5, <1>6, RouteTables DEF APIs, Creators, Users

-----------------------------------------------------------------------------
(* No step loses a key that nobody tries to delete.                        *)
Grows ==
    /\ setup' = setup /\ durable \subseteq durable' /\ doomed \subseteq doomed'
    /\ \A k \in UsedKinds : \A n \in Here(k) : n \in Here(k)' \/ <<k, n>> \in doomed'

LEMMA HereNames ==
    \A k : Here(k) \in SUBSET Names
BY DEF Here

LEMMA SameKeys ==
    ASSUME UNCHANGED <<setup, keyVars>>
    PROVE  Grows
BY DEF Grows, Here, keyVars

LEMMA KeptNext ==
    ASSUME KeptInv, Grows, durable' = durable
    PROVE  KeptInv'
<1>1. UsedKinds' = UsedKinds
  BY SameScenario DEF Grows
<1> QED
  BY <1>1 DEF KeptInv, Grows

(* What is certain is there.                                               *)
LEMMA CertainHere ==
    ASSUME IInv, DInv, NEW r \in Reqs, NEW n \in Certain(r)
    PROVE  req[r].used \in UsedKinds /\ n \in Here(req[r].used)
<1>1. n \in Names /\ <<req[r].used, n>> \in durable \ doomed
  BY DEF Certain, DInv, KeyInv
<1>2. req[r].used \in UsedKinds
  BY <1>1 DEF IInv, StoreInv
<1> QED
  BY <1>1, <1>2 DEF DInv, KeptInv

(* A request that goes on after its handler, or does nothing.              *)
Follow(q) ==
    /\ Same(q, {"known", "page", "codes", "used", "result", "effect"})
    /\ req'[q].granted => req[q].granted
    /\ req'[q].pc \in Early \cup {"handler", "write", "page"} => req'[q].pc = req[q].pc

LEMMA FollowKeyInv ==
    ASSUME IInv, DInv, Grows, NEW q \in Reqs, Follow(q)
    PROVE  KeyInv(q)'
<1>1. /\ req'[q].known = req[q].known /\ req'[q].page = req[q].page /\ req'[q].codes = req[q].codes
      /\ req'[q].used = req[q].used /\ req'[q].result = req[q].result
      /\ req'[q].effect = req[q].effect
  BY DEF Follow, Same
<1>2. Request(q)' = Request(q) /\ UsedKinds' = UsedKinds /\ setup' = setup
  BY SameScenario DEF Grows
<1>3. KeyInv(q) /\ Progress(q)
  BY DEF DInv, IInv, RequestInv
<1>4. Certain(q)' \subseteq Certain(q)
  BY <1>1 DEF Certain, Grows
<1>5. \A k : Damaged(k) => Damaged(k)'
  BY DEF Damaged, Grows
<1>6. req'[q].known \subseteq durable'
  BY <1>1, <1>3 DEF KeyInv, Grows
<1>7. /\ req'[q].page.names \in SUBSET Names /\ req'[q].page.skip \in Nat
      /\ req'[q].pc \in Early \cup {"handler"} => req'[q].page = NoPage
  BY <1>1, <1>3 DEF KeyInv, Follow
<1>8. ASSUME req'[q].granted
      PROVE  Promised(q)' /\ Found(q)' /\ Shown(q)'
  <2>1. req[q].granted /\ Promised(q) /\ Found(q) /\ Shown(q)
    BY <1>3, <1>8 DEF Follow, KeyInv
  <2>2. ASSUME req[q].codes = << 200 >>
        PROVE  req[q].used \in UsedKinds
    <3>1. req[q].codes # <<>>
      BY <2>2
    <3> QED
      BY <1>3, <2>1, <3>1 DEF Progress, Decided, Early, Called
  <2>3. Promised(q)'
    BY <1>1, <1>2, <2>1, <2>2 DEF Promised, Grows
  <2>4. Found(q)'
    BY <1>1, <1>2, <1>4, <2>1 DEF Found, Refused, Resource
  <2>5. Prefix(q)' = Prefix(q)
    BY <1>2 DEF Prefix
  <2>6. Shown(q)'
    BY <1>1, <1>2, <1>4, <1>5, <2>1, <2>5 DEF Shown, CompleteFor
  <2> QED
    BY <2>3, <2>4, <2>6
<1>9. Passed(q)'
  <2> DEFINE S == Here("gemalto")
             T == Here("gemalto")'
             k == req[q].page.skip
  <2> SUFFICES ASSUME req'[q].pc = "page", req[q].used = "gemalto", ~Damaged("gemalto")'
               PROVE  Certain(q)' \cap First(T, k) \subseteq req[q].page.names
    BY <1>1 DEF Passed
  <2>1. req[q].pc = "page" /\ "gemalto" \in UsedKinds
    BY <1>3 DEF Follow, Progress
  <2>2. Certain(q) \cap First(S, k) \subseteq req[q].page.names
    BY <1>3, <1>5, <2>1 DEF KeyInv, Passed
  <2>3. S \in SUBSET T /\ T \in SUBSET Names
    BY <2>1 DEF Grows, Damaged, Here
  <2>4. k \in Nat
    BY <1>3 DEF KeyInv
  <2>5. Certain(q) \subseteq S
    BY CertainHere
  <2> HIDE DEF S, T, k
  <2>6. S \cap First(T, k) \subseteq First(S, k)
    BY <2>3, <2>4, FirstShrinks
  <2> QED
    BY <1>4, <2>2, <2>5, <2>6
<1>10. Creating(q)'
  BY <1>1, <1>2, <1>3, <1>4 DEF Creating, KeyInv, Follow
<1> QED
  BY <1>6, <1>7, <1>8, <1>9, <1>10 DEF KeyInv

(* A request that has no answer of a handler.                              *)
LEMMA BlankKeyInv ==
    ASSUME NEW q, ~req'[q].granted \/ req'[q].codes = <<>>, req'[q].known \subseteq durable',
           req'[q].page.names \in SUBSET Names, req'[q].page.skip \in Nat,
           req'[q].pc \in Early \cup {"handler"} => req'[q].page = NoPage,
           req'[q].pc \notin {"page", "write"}
    PROVE  KeyInv(q)'
<1>1. <<>> # <<200>> /\ <<>> # <<404>>
  OBVIOUS
<1> QED
  BY <1>1 DEF KeyInv, Promised, Found, Shown, Passed, Creating

(* A step of one request: the others follow.                               *)
LEMMA OneStep ==
    ASSUME IInv, DInv, Grows, NEW r \in Reqs, Others(r), KeptInv', KeyInv(r)'
    PROVE  DInv'
<1>1. Reqs' = Reqs
  BY SameScenario DEF Grows
<1>2. ASSUME NEW q \in Reqs \ {r}
      PROVE  KeyInv(q)'
  <2>1. req'[q] = req[q]
    BY DEF Others
  <2>2. Follow(q)
    BY <2>1 DEF Follow, Same
  <2> QED
    BY <2>2, FollowKeyInv
<1> QED
  BY <1>1, <1>2 DEF DInv

(* A step of nobody's request: all follow.                                 *)
LEMMA AllFollow ==
    ASSUME IInv, DInv, Grows, durable' = durable, \A q \in Reqs : Follow(q)
    PROVE  DInv'
<1>1. Reqs' = Reqs
  BY SameScenario DEF Grows
<1>2. KeptInv'
  BY KeptNext DEF DInv
<1> QED
  BY <1>1, <1>2, FollowKeyInv DEF DInv

LEMMA SameRequests ==
    ASSUME req' = req
    PROVE  \A q \in Reqs : Follow(q)
BY DEF Follow, Same

(* The steps before the handler is called.                                 *)
LEMMA BlankStep ==
    ASSUME IInv, DInv, NEW r \in Reqs, UNCHANGED <<setup, confVars, keyVars>>, Elsewhere,
           NEW rec, DOMAIN rec = DOMAIN Fresh, req' = [req EXCEPT ![r] = rec],
           ~rec.granted \/ rec.codes = << >>, rec.pc \notin {"page", "write"},
           rec.pc \in Early \cup {"handler"} => req[r].pc \in Early \cup {"handler"},
           rec.page = req[r].page, rec.known \in {req[r].known, durable \ doomed}
    PROVE  DInv'
<1>1. Others(r) /\ req'[r] = rec
  BY Replaced
<1>2. Grows /\ durable' = durable
  BY SameKeys DEF keyVars
<1>3. KeyInv(r)
  BY DEF DInv
<1>4. KeyInv(r)'
  BY <1>1, <1>2, <1>3, BlankKeyInv DEF KeyInv
<1> QED
  BY <1>1, <1>2, <1>4, OneStep, KeptNext DEF DInv

LEMMA HandshakeDInv ==
    ASSUME IInv, DInv, NEW r \in Reqs, Handshake(r), Elsewhere
    PROVE  DInv'
<1>1. /\ req[r].pc = "new" /\ UNCHANGED <<setup, confVars, keyVars>>
      /\ \E to \in {"connected", "done"} : req' = [req EXCEPT ![r].pc = to]
  BY DEF Handshake
<1>2. PICK to \in {"connected", "done"} : req' = [req EXCEPT ![r].pc = to]
  BY <1>1
<1> DEFINE rec == [req[r] EXCEPT !.pc = to]
<1>3. req' = [req EXCEPT ![r] = rec] /\ DOMAIN rec = DOMAIN Fresh
  BY <1>2 DEF IInv, RequestInv, Shape
<1>4. /\ rec.pc = to /\ rec.granted = req[r].granted /\ rec.page = req[r].page
      /\ rec.known = req[r].known
  BY ReqFields DEF IInv, RequestInv, Shape
<1> HIDE DEF rec
<1>5. ~req[r].granted
  BY <1>1 DEF IInv, RequestInv, Progress, Early
<1> QED
  BY <1>1, <1>3, <1>4, <1>5, BlankStep DEF Early

LEMMA ArriveDInv ==
    ASSUME IInv, DInv, NEW r \in Reqs, Arrive(r), Elsewhere
    PROVE  DInv'
<1> DEFINE rec == [req[r] EXCEPT !.pc = "routed", !.skip = handler, !.seen = inForce,
                                 !.known = durable \ doomed,
                                 !.audited = AuditOn /\ HandlerEnabled(auditH)]
<1>1. /\ req[r].pc = "connected" /\ UNCHANGED <<setup, confVars, keyVars>>
      /\ req' = [req EXCEPT ![r] = rec] /\ DOMAIN rec = DOMAIN Fresh
  BY DEF Arrive, IInv, RequestInv, Shape
<1>2. /\ rec.pc = "routed" /\ rec.granted = req[r].granted /\ rec.page = req[r].page
      /\ rec.known = durable \ doomed
  BY ReqFields DEF IInv, RequestInv, Shape
<1> HIDE DEF rec
<1>3. ~req[r].granted
  BY <1>1 DEF IInv, RequestInv, Progress, Early
<1> QED
  BY <1>1, <1>2, <1>3, BlankStep DEF Early

LEMMA RefuseDInv ==
    ASSUME IInv, DInv, NEW r \in Reqs, NEW code, req[r].pc = "routed", Refuse(r, code),
           UNCHANGED <<setup, confVars, keyVars>>, Elsewhere
    PROVE  DInv'
<1> DEFINE codes == <<code>>
           rec == [req[r] EXCEPT !.pc = "done", !.codes = codes]
<1>1. req' = [req EXCEPT ![r] = rec] /\ DOMAIN rec = DOMAIN Fresh
  BY DEF Refuse, IInv, RequestInv, Shape
<1> HIDE DEF codes
<1>2. /\ rec.pc = "done" /\ rec.granted = req[r].granted /\ rec.page = req[r].page
      /\ rec.known = req[r].known
  BY ReqFields DEF IInv, RequestInv, Shape
<1> HIDE DEF rec
<1>3. ~req[r].granted
  BY DEF IInv, RequestInv, Progress, Early
<1> QED
  BY <1>1, <1>2, <1>3, BlankStep DEF Early

LEMMA PanicDInv ==
    ASSUME IInv, DInv, NEW r \in Reqs, Panics(r),
           UNCHANGED <<setup, confVars>>, Elsewhere, Grows, durable' = durable
    PROVE  DInv'
<1> DEFINE no == <<>>
           rec == [req[r] EXCEPT !.pc = "done", !.panicked = TRUE, !.codes = no]
<1>1. req' = [req EXCEPT ![r] = rec] /\ DOMAIN rec = DOMAIN Fresh
  BY DEF Panics, IInv, RequestInv, Shape
<1> HIDE DEF no
<1>2. /\ rec.pc = "done" /\ rec.page = req[r].page /\ rec.known = req[r].known
      /\ rec.codes = no
  BY ReqFields DEF IInv, RequestInv, Shape
<1> HIDE DEF rec
<1>3. Others(r) /\ req'[r] = rec
  BY <1>1, Replaced
<1>4. KeyInv(r) /\ req'[r].codes = <<>>
  BY <1>2, <1>3 DEF DInv, no
<1>5. KeyInv(r)'
  BY <1>2, <1>3, <1>4, BlankKeyInv DEF KeyInv, Early
<1> QED
  BY <1>3, <1>5, OneStep, KeptNext DEF DInv

LEMMA AuthenticateRequestDInv ==
    ASSUME IInv, DInv, NEW r \in Reqs, CheckMethod(r) \/ SetTimeout(r) \/ AuthenticateRequest(r),
           Elsewhere
    PROVE  DInv'
<1>1. /\ req[r].pc = "routed" /\ UNCHANGED <<setup, confVars, keyVars>>
      /\ \/ \E code : Refuse(r, code)
         \/ Panics(r)
         \/ \E id : req' = [req EXCEPT ![r].pc = "handler", ![r].granted = TRUE, ![r].id = id]
  BY DEF CheckMethod, SetTimeout, AuthenticateRequest
<1>2. CASE \E code : Refuse(r, code)
  BY <1>1, <1>2, RefuseDInv
<1>3. CASE Panics(r)
  BY <1>1, <1>3, PanicDInv, SameKeys DEF keyVars
<1>4. ASSUME NEW id, req' = [req EXCEPT ![r].pc = "handler", ![r].granted = TRUE, ![r].id = id]
      PROVE  DInv'
  <2> DEFINE rec == [req[r] EXCEPT !.pc = "handler", !.granted = TRUE, !.id = id]
  <2>1. req' = [req EXCEPT ![r] = rec] /\ DOMAIN rec = DOMAIN Fresh
    BY <1>4 DEF IInv, RequestInv, Shape
  <2>2. /\ rec.pc = "handler" /\ rec.codes = req[r].codes /\ rec.page = req[r].page
        /\ rec.known = req[r].known
    BY ReqFields DEF IInv, RequestInv, Shape
  <2> HIDE DEF rec
  <2>3. req[r].codes = <<>>
    BY <1>1 DEF IInv, RequestInv, Progress, Early
  <2>4. /\ rec.codes = <<>> /\ rec.pc \notin {"page", "write"} /\ req[r].pc \in Early \cup {"handler"}
        /\ rec.known \in {req[r].known, durable \ doomed}
    BY <1>1, <2>2, <2>3 DEF Early
  <2>5. UNCHANGED <<setup, confVars, keyVars>>
    BY <1>1
  <2> QED
    BY <2>1, <2>2, <2>4, <2>5, BlankStep
<1> QED
  BY <1>1, <1>2, <1>3, <1>4

(* The steps behind the handler.                                           *)
LEMMA AfterStep ==
    ASSUME IInv, DInv, NEW r \in Reqs, UNCHANGED <<setup, confVars, store, held, doomed>>, Elsewhere,
           durable \subseteq durable', KeptInv',
           NEW rec, DOMAIN rec = DOMAIN Fresh, req' = [req EXCEPT ![r] = rec],
           \A f \in {"known", "page", "codes", "used", "result", "effect", "granted"} :
               rec[f] = req[r][f],
           rec.pc = req[r].pc \/ rec.pc \in {"record", "reply", "done"}
    PROVE  DInv'
<1>1. Others(r) /\ req'[r] = rec
  BY Replaced
<1>2. Grows
  BY DEF Grows, Here
<1>3. Follow(r)
  BY <1>1 DEF Follow, Same, Early
<1> QED
  BY <1>1, <1>2, <1>3, OneStep, FollowKeyInv

LEMMA LogErrorDInv ==
    ASSUME IInv, DInv, NEW r \in Reqs, LogError(r), Elsewhere
    PROVE  DInv'
<1>1. /\ UNCHANGED <<setup, confVars, keyVars>>
      /\ Panics(r) \/ req' = [req EXCEPT ![r].pc = "reply"]
  BY DEF LogError
<1>2. Grows /\ KeptInv' /\ UNCHANGED <<store, held, durable, doomed>>
  BY <1>1, SameKeys, KeptNext DEF DInv, keyVars
<1>3. CASE req' = [req EXCEPT ![r].pc = "reply"]
  <2> DEFINE rec == [req[r] EXCEPT !.pc = "reply"]
  <2>1. req' = [req EXCEPT ![r] = rec] /\ DOMAIN rec = DOMAIN Fresh
    BY <1>3 DEF IInv, RequestInv, Shape
  <2>2. /\ \A f \in {"known", "page", "codes", "used", "result", "effect", "granted"} :
               rec[f] = req[r][f]
        /\ rec.pc = "reply"
    BY ReqFields DEF IInv, RequestInv, Shape
  <2> HIDE DEF rec
  <2> QED
    BY <1>1, <1>2, <2>1, <2>2, AfterStep
<1> QED
  BY <1>1, <1>2, <1>3, PanicDInv

(* Where the question whether to audit may lead.                           *)
LEMMA AuditEnabledLeads ==
    ASSUME IInv, NEW r \in Reqs, AuditEnabled(r)
    PROVE  /\ UNCHANGED <<setup, confVars, keyVars>>
           /\ \/ Panics(r)
              \/ req' = [req EXCEPT ![r].pc = "reply"]
              \/ \E to \in {"record", "reply"} : \E h, o, a :
                   req' = [req EXCEPT ![r].pc = to, ![r].hEnabled = h, ![r].oEnabled = o,
                                      ![r].audited = a]
<1> DEFINE answers == IF auditH = Torn THEN BOOLEAN ELSE {HandlerEnabled(auditH)}
           watched == Subscribed("logAudit") # {}
           whole == req[r].audited /\ auditH # Torn
           To(enabled) == IF enabled \/ watched THEN "record" ELSE "reply"
<1>1. \/ Panics(r)
      \/ req' = [req EXCEPT ![r].pc = "reply"]
      \/ \E enabled \in answers :
           req' = [req EXCEPT ![r].pc = To(enabled), ![r].hEnabled = enabled,
                              ![r].oEnabled = watched, ![r].audited = whole]
  BY DEF AuditEnabled, IInv, RequestInv, Shape
<1>2. \A enabled : To(enabled) \in {"record", "reply"}
  OBVIOUS
<1>3. UNCHANGED <<setup, confVars, keyVars>>
  BY DEF AuditEnabled
<1> HIDE DEF answers, watched, whole, To
<1>4. ASSUME NEW enabled \in answers,
             req' = [req EXCEPT ![r].pc = To(enabled), ![r].hEnabled = enabled,
                                ![r].oEnabled = watched, ![r].audited = whole]
      PROVE  \E to \in {"record", "reply"} : \E h, o, a :
                 req' = [req EXCEPT ![r].pc = to, ![r].hEnabled = h, ![r].oEnabled = o,
                                    ![r].audited = a]
  <2>1. To(enabled) \in {"record", "reply"}
    BY <1>2
  <2> WITNESS To(enabled) \in {"record", "reply"}
  <2> WITNESS enabled, watched, whole
  <2> QED
    BY <1>4
<1> QED
  BY <1>1, <1>3, <1>4

LEMMA AuditEnabledDInv ==
    ASSUME IInv, DInv, NEW r \in Reqs, AuditEnabled(r), Elsewhere
    PROVE  DInv'
<1>1. /\ UNCHANGED <<setup, confVars, keyVars>>
      /\ \/ Panics(r)
         \/ req' = [req EXCEPT ![r].pc = "reply"]
         \/ \E to \in {"record", "reply"} : \E h, o, a :
              req' = [req EXCEPT ![r].pc = to, ![r].hEnabled = h, ![r].oEnabled = o,
                                 ![r].audited = a]
  BY AuditEnabledLeads
<1>2. Grows /\ KeptInv' /\ UNCHANGED <<store, held, durable, doomed>>
  BY <1>1, SameKeys, KeptNext DEF DInv, keyVars
<1>3. CASE req' = [req EXCEPT ![r].pc = "reply"]
  <2> DEFINE rec == [req[r] EXCEPT !.pc = "reply"]
  <2>1. req' = [req EXCEPT ![r] = rec] /\ DOMAIN rec = DOMAIN Fresh
    BY <1>3 DEF IInv, RequestInv, Shape
  <2>2. /\ \A f \in {"known", "page", "codes", "used", "result", "effect", "granted"} :
               rec[f] = req[r][f]
        /\ rec.pc = "reply"
    BY ReqFields DEF IInv, RequestInv, Shape
  <2> HIDE DEF rec
  <2> QED
    BY <1>1, <1>2, <2>1, <2>2, AfterStep
<1>4. ASSUME NEW to \in {"record", "reply"}, NEW h, NEW o, NEW a,
             req' = [req EXCEPT ![r].pc = to, ![r].hEnabled = h, ![r].oEnabled = o,
                                ![r].audited = a]
      PROVE  DInv'
  <2> DEFINE rec == [req[r] EXCEPT !.pc = to, !.hEnabled = h, !.oEnabled = o, !.audited = a]
  <2>1. req' = [req EXCEPT ![r] = rec] /\ DOMAIN rec = DOMAIN Fresh
    BY <1>4 DEF IInv, RequestInv, Shape
  <2>2. /\ \A f \in {"known", "page", "codes", "used", "result", "effect", "granted"} :
               rec[f] = req[r][f]
        /\ rec.pc = to
    BY ReqFields DEF IInv, RequestInv, Shape
  <2> HIDE DEF rec
  <2> QED
    BY <1>1, <1>2, <2>1, <2>2, AfterStep
<1> QED
  BY <1>1, <1>2, <1>3, <1>4, PanicDInv

LEMMA AuditHandleDInv ==
    ASSUME IInv, DInv, NEW r \in Reqs, AuditHandle(r), Elsewhere
    PROVE  DInv'
<1>1. /\ UNCHANGED <<setup, confVars, keyVars>>
      /\ \/ Panics(r)
         \/ \E a : req' = [req EXCEPT ![r].pc = "reply", ![r].audited = a]
  BY DEF AuditHandle
<1>2. Grows /\ KeptInv' /\ UNCHANGED <<store, held, durable, doomed>>
  BY <1>1, SameKeys, KeptNext DEF DInv, keyVars
<1>3. ASSUME NEW a, req' = [req EXCEPT ![r].pc = "reply", ![r].audited = a]
      PROVE  DInv'
  <2> DEFINE rec == [req[r] EXCEPT !.pc = "reply", !.audited = a]
  <2>1. req' = [req EXCEPT ![r] = rec] /\ DOMAIN rec = DOMAIN Fresh
    BY <1>3 DEF IInv, RequestInv, Shape
  <2>2. /\ \A f \in {"known", "page", "codes", "used", "result", "effect", "granted"} :
               rec[f] = req[r][f]
        /\ rec.pc = "reply"
    BY ReqFields DEF IInv, RequestInv, Shape
  <2> HIDE DEF rec
  <2> QED
    BY <1>1, <1>2, <2>1, <2>2, AfterStep
<1> QED
  BY <1>1, <1>2, <1>3, PanicDInv

(* The answer makes a promise, which the key store keeps already.          *)
LEMMA ReplyDInv ==
    ASSUME IInv, DInv, NEW r \in Reqs, Reply(r), Elsewhere
    PROVE  DInv'
<1> DEFINE rec == [req[r] EXCEPT !.pc = "done"]
           name == Request(r).resource.name
           creates == Request(r).api \in Creators /\ req[r].codes = <<200>>
<1>1. /\ req[r].pc = "reply" /\ UNCHANGED <<setup, confVars, store, held, doomed>>
      /\ durable' = IF creates THEN durable \cup {<<req[r].used, name>>} ELSE durable
      /\ req' = [req EXCEPT ![r] = rec] /\ DOMAIN rec = DOMAIN Fresh
  BY DEF Reply, IInv, RequestInv, Shape, Creators
<1>2. /\ \A f \in {"known", "page", "codes", "used", "result", "effect", "granted"} :
               rec[f] = req[r][f]
      /\ rec.pc = "done"
  BY ReqFields DEF IInv, RequestInv, Shape
<1> HIDE DEF rec
<1>3. KeptInv'
  <2>1. UsedKinds' = UsedKinds /\ \A k : Here(k)' = Here(k)
    BY <1>1, SameScenario DEF Here
  <2>2. req[r].granted
    BY <1>1 DEF IInv, RequestInv, Progress, Called
  <2>3. creates => <<req[r].used, name>> \in doomed \/ name \in Here(req[r].used)
    BY <2>2 DEF DInv, KeyInv, Promised
  <2> HIDE DEF creates
  <2> QED
    BY <1>1, <2>1, <2>3 DEF KeptInv, DInv
<1> QED
  BY <1>1, <1>2, <1>3, AfterStep

LEMMA UnsubscribeDInv ==
    ASSUME IInv, DInv, NEW r \in Reqs, Unsubscribe(r) \/ ClientLeaves(r), Elsewhere
    PROVE  DInv'
<1>1. UNCHANGED <<setup, confVars, keyVars>>
  BY DEF Unsubscribe, ClientLeaves
<1>2. Grows /\ KeptInv' /\ UNCHANGED <<store, held, durable, doomed>>
  BY <1>1, SameKeys, KeptNext DEF DInv, keyVars
<1>3. CASE Unsubscribe(r)
  <2> DEFINE rec == [req[r] EXCEPT !.pc = "done"]
  <2>1. req' = [req EXCEPT ![r] = rec] /\ DOMAIN rec = DOMAIN Fresh
    BY <1>3 DEF Unsubscribe, IInv, RequestInv, Shape
  <2>2. /\ \A f \in {"known", "page", "codes", "used", "result", "effect", "granted"} :
               rec[f] = req[r][f]
        /\ rec.pc = "done"
    BY ReqFields DEF IInv, RequestInv, Shape
  <2> HIDE DEF rec
  <2> QED
    BY <1>1, <1>2, <2>1, <2>2, AfterStep
<1>4. CASE ClientLeaves(r)
  <2> DEFINE rec == [req[r] EXCEPT !.left = TRUE]
  <2>1. req' = [req EXCEPT ![r] = rec] /\ DOMAIN rec = DOMAIN Fresh
    BY <1>4 DEF ClientLeaves, IInv, RequestInv, Shape
  <2>2. /\ \A f \in {"known", "page", "codes", "used", "result", "effect", "granted"} :
               rec[f] = req[r][f]
        /\ rec.pc = req[r].pc
    BY ReqFields DEF IInv, RequestInv, Shape
  <2> HIDE DEF rec
  <2> QED
    BY <1>1, <1>2, <2>1, <2>2, AfterStep
<1> QED
  BY <1>3, <1>4

-----------------------------------------------------------------------------
(* The call of the key store.                                              *)
LEMMA PutGrows ==
    ASSUME IInv, NEW kind \in UsedKinds, NEW name, NEW value, name \in Names \/ value = Keep,
           Put(kind, name, value), setup' = setup, durable' = durable, doomed \subseteq doomed',
           value = Nothing => <<kind, name>> \in doomed'
    PROVE  Grows /\ (value \notin {Keep, Nothing} => name \in Here(kind)')
<1>1. CASE value = Keep
  BY <1>1 DEF Grows, Here, Put
<1>2. CASE value # Keep
  <2>1. name \in Names /\ store' = [store EXCEPT ![kind][name] = value]
    BY <1>2 DEF Put
  <2>2. /\ store'[kind][name] = value
        /\ \A k \in UsedKinds, n \in Names :
               ~(k = kind /\ n = name) => store'[k][n] = store[k][n]
    BY <2>1 DEF IInv, StoreInv
  <2> QED
    BY <2>1, <2>2 DEF Grows, Here
<1> QED
  BY <1>1, <1>2

(* The record of a request that has its answer.                            *)
LEMMA TakesFacts ==
    ASSUME IInv, NEW r \in Reqs, NEW e, NEW kind, Takes(r, e, kind),
           UNCHANGED <<setup, confVars>>, Elsewhere
    PROVE  /\ Others(r)
           /\ req'[r].used = kind /\ req'[r].codes = e.codes /\ req'[r].result = e.result
           /\ req'[r].known = req[r].known /\ req'[r].page = req[r].page
           /\ req'[r].pc \in {"log", "audit", "stream", "reply"}
<1> DEFINE to == After(Request(r), e)
           rec == [req[r] EXCEPT !.pc = to, !.used = kind, !.codes = e.codes, !.result = e.result]
<1>1. req' = [req EXCEPT ![r] = rec] /\ DOMAIN rec = DOMAIN Fresh
  BY DEF Takes, IInv, RequestInv, Shape
<1>2. to \in {"log", "audit", "stream", "reply"}
  BY DEF After
<1> HIDE DEF to
<1>3. /\ rec.pc = to /\ rec.used = kind /\ rec.codes = e.codes /\ rec.result = e.result
      /\ rec.known = req[r].known /\ rec.page = req[r].page
  BY ReqFields DEF IInv, RequestInv, Shape
<1> HIDE DEF rec
<1>4. Others(r) /\ req'[r] = rec
  BY <1>1, Replaced
<1> QED
  BY <1>2, <1>3, <1>4

(* Everything an answer has to be true of, in the new state.               *)
LEMMA TakesKeyInv ==
    ASSUME IInv, DInv, NEW r \in Reqs, NEW e, NEW kind, Takes(r, e, kind),
           UNCHANGED <<setup, confVars>>, durable \subseteq durable', Elsewhere,
           Promised(r)', Found(r)', Shown(r)'
    PROVE  KeyInv(r)'
<1>1. /\ req'[r].known = req[r].known /\ req'[r].page = req[r].page
      /\ req'[r].pc \in {"log", "audit", "stream", "reply"}
  BY TakesFacts
<1>2. KeyInv(r)
  BY DEF DInv
<1> QED
  BY <1>1, <1>2 DEF KeyInv, Passed, Creating, Early

LEMMA PrefixFacts ==
    ASSUME IInv, NEW r \in Reqs, NEW conf
    PROVE  ListPrefix(CallOf(r, conf)) = Prefix(r) /\ Prefix(r) \in Int
<1>1. ListPrefix(CallOf(r, conf)) = Prefix(r)
  BY CallFacts DEF ListPrefix, Prefix
<1>2. IsRequest(Request(r))
  BY ScenarioFacts DEF IInv, ConfInv
<1>3. Request(r).resource.name \in Int
  BY <1>2 DEF IsRequest
<1> QED
  BY <1>1, <1>3 DEF Prefix, Starred

LEMMA CallKeys ==
    ASSUME NEW r, NEW conf
    PROVE  /\ CallOf(r, conf).keys = store[conf.keys]
           /\ Stocked(CallOf(r, conf)) = Here(conf.keys)
BY DEF CallOf, Stocked, Here

(* What is certain when the handler is called is there.                    *)
LEMMA CertainAtCall ==
    ASSUME DInv, NEW r \in Reqs, NEW kind \in UsedKinds, req'[r].used = kind,
           req'[r].known = req[r].known, doomed \subseteq doomed'
    PROVE  Certain(r)' \subseteq Here(kind)
<1> SUFFICES ASSUME NEW n \in Certain(r)' PROVE n \in Here(kind)
  OBVIOUS
<1>1. n \in Names /\ <<kind, n>> \in durable \ doomed
  BY DEF Certain, DInv, KeyInv
<1> QED
  BY <1>1 DEF DInv, KeptInv

(* What Call does with an effect of the handler.                           *)
Doomed(q, kind, e) ==
    IF (q.api = "deleteKey" /\ validName(q.resource)) \/ e.put = Nothing
    THEN doomed \cup {<<kind, q.resource.name>>} ELSE doomed

Calls(r, e, kind) ==
    /\ \/ /\ Takes(r, e, kind) \/ Panics(r)
          /\ Put(kind, Request(r).resource.name, e.put)
       \/ /\ Unwritten(kind, e)
          /\ req' = [req EXCEPT ![r].pc = "write", ![r].used = kind, ![r].effect = e]
          /\ UNCHANGED <<store, held>>
    /\ doomed' = Doomed(Request(r), kind, e)

LEMMA CallLeads ==
    ASSUME IInv, NEW r \in Reqs, Call(r), NEW kind, kind = state.conf.keys
    PROVE  LET x == CallOf(r, state.conf)
           IN  /\ req[r].pc = "handler" /\ kind \in UsedKinds \cap Kinds
               /\ UNCHANGED <<setup, confVars, durable>> /\ doomed \subseteq doomed'
               /\ x.q = Request(r) /\ x.keys = store[kind] /\ Stocked(x) = Here(kind)
               /\ Denied(x) <=> setup.faults /\ kind = "gemalto"
               /\ ListPrefix(x) = Prefix(r) /\ Prefix(r) \in Int
               /\ \E e \in Handler(x) :
                    /\ Calls(r, e, kind) /\ Truthful(x, e) /\ Plausible(x, e)
                    /\ Request(r).resource.name \in Names \/ e.put = Keep
<1> DEFINE x == CallOf(r, state.conf)
<1>1. /\ req[r].pc = "handler" /\ ~(Paged(x) /\ validPattern(Request(r).resource))
      /\ UNCHANGED <<setup, confVars, durable>>
      /\ \E e \in Handler(x) : Calls(r, e, kind)
  BY DEF Call, Calls, Doomed
<1>2. /\ x.q = Request(r) /\ x.conf = state.conf /\ x.keys = store[kind] /\ Stocked(x) = Here(kind)
      /\ ListPrefix(x) = Prefix(r) /\ Prefix(r) \in Int /\ x.faults = setup.faults
  BY CallFacts, CallKeys, PrefixFacts DEF CallOf
<1>3. kind \in UsedKinds \cap Kinds /\ Request(r).api \in APIs
  BY KindInForce, ScenarioFacts DEF IInv, ConfInv
<1> HIDE DEF x
<1>4. PICK e \in Handler(x) : Calls(r, e, kind)
  BY <1>1
<1>5. Truthful(x, e) /\ Plausible(x, e)
  BY <1>1, <1>2, <1>3, <1>4, HandlerTruthful, HandlerEffects
<1>6. Request(r).resource.name \in Names \/ e.put = Keep
  BY <1>2, <1>5 DEF Plausible, validName
<1>7. doomed \subseteq doomed'
  BY <1>4 DEF Calls, Doomed
<1>8. Denied(x) <=> setup.faults /\ kind = "gemalto"
  BY <1>2 DEF Denied
<1> QED
  BY <1>1, <1>2, <1>3, <1>4, <1>5, <1>6, <1>7, <1>8 DEF x

LEMMA CallDInv ==
    ASSUME IInv, DInv, NEW r \in Reqs, Call(r), Elsewhere
    PROVE  DInv'
<1>0. PICK kind : kind = state.conf.keys
  OBVIOUS
<1> DEFINE x == CallOf(r, state.conf)
           name == Request(r).resource.name
<1>1. /\ req[r].pc = "handler" /\ kind \in UsedKinds
      /\ UNCHANGED <<setup, confVars, durable>> /\ doomed \subseteq doomed'
      /\ x.q = Request(r) /\ x.keys = store[kind] /\ Stocked(x) = Here(kind)
      /\ Denied(x) <=> setup.faults /\ kind = "gemalto"
      /\ ListPrefix(x) = Prefix(r) /\ Prefix(r) \in Int
      /\ \E e \in Handler(x) :
           /\ Calls(r, e, kind) /\ Truthful(x, e) /\ Plausible(x, e)
           /\ name \in Names \/ e.put = Keep
  BY <1>0, CallLeads
<1> HIDE DEF x
<1>2. PICK e \in Handler(x) : /\ Calls(r, e, kind) /\ Truthful(x, e) /\ Plausible(x, e)
                              /\ name \in Names \/ e.put = Keep
  BY <1>1
<1>3. e.put = Nothing => <<kind, name>> \in doomed'
  BY <1>2 DEF Calls, Doomed
<1>4. ASSUME Put(kind, name, e.put)
      PROVE  Grows /\ KeptInv' /\ (e.put \notin {Keep, Nothing} => name \in Here(kind)')
  <2>1. Grows /\ (e.put \notin {Keep, Nothing} => name \in Here(kind)')
    BY <1>1, <1>2, <1>3, <1>4, PutGrows
  <2> QED
    BY <1>1, <2>1, KeptNext DEF DInv
<1>5. Request(r)' = Request(r) /\ setup' = setup
  BY <1>1, SameScenario
<1>6. CASE Panics(r) /\ Put(kind, name, e.put)
  BY <1>1, <1>4, <1>6, PanicDInv
<1>7. CASE Takes(r, e, kind) /\ Put(kind, name, e.put)
  <2>1. /\ Others(r) /\ req'[r].used = kind /\ req'[r].codes = e.codes
        /\ req'[r].result = e.result /\ req'[r].known = req[r].known
    BY <1>1, <1>7, TakesFacts
  <2>2. Certain(r)' \subseteq Here(kind)
    BY <1>1, <2>1, CertainAtCall
  <2>3. Promised(r)'
    BY <1>1, <1>2, <1>4, <1>5, <1>7, <2>1 DEF Promised, Truthful
  <2>4. Found(r)'
    <3> SUFFICES ASSUME NEW n \in Certain(r)', Request(r).resource = Resource(n, FALSE)
                 PROVE  /\ Request(r).api \in Users /\ ~Denied(x) => e.codes # <<404>>
                        /\ Request(r).api # "deleteKey"
                        /\ Request(r).api \in Creators => e.codes # <<200>>
      BY <1>1, <1>5, <2>1 DEF Found, Refused, Resource
    <3>1. n = name /\ validName(Request(r).resource)
      BY DEF Resource, validName, Certain
    <3>2. x.keys[name] # Nothing
      BY <1>1, <2>2, <3>1 DEF Here
    <3>3. <<kind, n>> \notin doomed'
      BY <2>1 DEF Certain
    <3> QED
      BY <1>1, <1>2, <3>1, <3>2, <3>3 DEF Truthful, Calls, Doomed
  <2>5. Shown(r)'
    <3> SUFFICES ASSUME Request(r).api = "listKeys", e.codes = << 200 >>
                 PROVE  CompleteFor(e.result.listing, Certain(r)', Prefix(r))
      BY <1>5, <2>1 DEF Shown, Prefix, CompleteFor
    <3> QED
      BY <1>1, <1>2, <2>2 DEF Truthful, CompleteFor
  <2>6. KeyInv(r)'
    BY <1>1, <1>7, <2>3, <2>4, <2>5, TakesKeyInv
  <2> QED
    BY <1>4, <1>7, <2>1, <2>6, OneStep
<1>8. CASE /\ Unwritten(kind, e) /\ UNCHANGED <<store, held>>
           /\ req' = [req EXCEPT ![r].pc = "write", ![r].used = kind, ![r].effect = e]
  <2> DEFINE rec == [req[r] EXCEPT !.pc = "write", !.used = kind, !.effect = e]
  <2>1. req' = [req EXCEPT ![r] = rec] /\ DOMAIN rec = DOMAIN Fresh
    BY <1>8 DEF IInv, RequestInv, Shape
  <2>2. /\ rec.pc = "write" /\ rec.used = kind /\ rec.effect = e
        /\ \A f \in {"known", "page", "codes"} : rec[f] = req[r][f]
    BY ReqFields DEF IInv, RequestInv, Shape
  <2> HIDE DEF rec
  <2>3. Others(r) /\ req'[r] = rec
    BY <1>1, <2>1, Replaced
  <2>4. Grows /\ KeptInv'
    <3>1. Grows
      BY <1>1, <1>8 DEF Grows, Here
    <3> QED
      BY <1>1, <3>1, KeptNext DEF DInv
  <2>5. KeyInv(r) /\ req'[r].codes = <<>>
    BY <1>1, <2>2, <2>3 DEF DInv, IInv, RequestInv, Progress
  <2>6. Promised(r)' /\ Found(r)' /\ Shown(r)'
    <3>1. <<>> # <<200>> /\ <<>> # <<404>>
      OBVIOUS
    <3> QED
      BY <2>5, <3>1 DEF Promised, Found, Shown
  <2>7. Certain(r)' \subseteq Here(kind)
    BY <1>1, <2>2, <2>3, CertainAtCall
  <2>8. Creating(r)'
    <3>1. /\ e.put \notin {Keep, Nothing} /\ kind \in ChecksFirst
          /\ Request(r).api \in Creators /\ store[kind][name] = Nothing
      BY <1>1, <1>2, <1>8 DEF Unwritten, Truthful
    <3>2. name \notin Certain(r)'
      BY <2>7, <3>1 DEF Here
    <3> QED
      BY <1>5, <2>2, <2>3, <3>1, <3>2 DEF Creating
  <2>9. KeyInv(r)'
    BY <1>1, <2>2, <2>3, <2>5, <2>6, <2>8 DEF KeyInv, Passed, Early
  <2> QED
    BY <2>3, <2>4, <2>9, OneStep
<1> QED
  BY <1>2, <1>6, <1>7, <1>8 DEF Calls

(* azure and vault write a key that was not there: nobody can be certain   *)
(* of it, also if another Create was faster.                               *)
LEMMA WriteDInv ==
    ASSUME IInv, DInv, NEW r \in Reqs, Write(r), Elsewhere
    PROVE  DInv'
<1>0. PICK kind, name, e : kind = req[r].used /\ name = Request(r).resource.name /\ e = req[r].effect
  OBVIOUS
<1>1. /\ req[r].pc = "write" /\ UNCHANGED <<setup, confVars, durable, doomed>>
      /\ \/ Takes(r, e, kind) /\ Put(kind, name, e.put)
         \/ Takes(r, LogAndFail(502), kind) /\ UNCHANGED <<store, held>>
  BY <1>0 DEF Write
<1>2. /\ Request(r).api \in Creators /\ e.put \notin {Keep, Nothing} /\ name \notin Certain(r)
      /\ kind \in UsedKinds /\ name \in Names
  <2>1. Creating(r) /\ Writes(r)
    BY DEF DInv, KeyInv, IInv, RequestInv
  <2> QED
    BY <1>0, <1>1, <2>1 DEF Creating, Writes, Plausible, validName
<1>3. LogAndFail(502).codes # <<200>>
  BY MildAnswers DEF Mild
<1>4. PICK f : /\ Takes(r, f, kind)
               /\ \/ Put(kind, name, e.put)
                  \/ f.codes # <<200>> /\ UNCHANGED <<store, held>>
  BY <1>1, <1>3
<1>5. Grows /\ KeptInv' /\ (f.codes = <<200>> => name \in Here(kind)')
  <2>1. Grows /\ (f.codes = <<200>> => name \in Here(kind)')
    <3>1. CASE Put(kind, name, e.put)
      BY <1>1, <1>2, <3>1, PutGrows
    <3>2. CASE f.codes # <<200>> /\ UNCHANGED <<store, held>>
      BY <1>1, <3>2 DEF Grows, Here
    <3> QED
      BY <1>4, <3>1, <3>2
  <2> QED
    BY <1>1, <2>1, KeptNext DEF DInv
<1>6. /\ Others(r) /\ req'[r].used = kind /\ req'[r].codes = f.codes
      /\ req'[r].known = req[r].known
  BY <1>1, <1>4, TakesFacts
<1>7. Request(r)' = Request(r) /\ Certain(r)' = Certain(r)
  BY <1>0, <1>1, <1>6, SameScenario DEF Certain
<1>8. Promised(r)'
  BY <1>0, <1>5, <1>6, <1>7 DEF Promised
<1>9. Found(r)' /\ Shown(r)'
  BY <1>0, <1>2, <1>7 DEF Found, Shown, Resource, Creators
<1>10. KeyInv(r)'
  BY <1>1, <1>4, <1>8, <1>9, TakesKeyInv
<1> QED
  BY <1>5, <1>6, <1>10, OneStep

-----------------------------------------------------------------------------
(* A listing in pages.                                                     *)
LEMMA CallPagedDInv ==
    ASSUME IInv, DInv, NEW r \in Reqs, CallPaged(r), Elsewhere
    PROVE  DInv'
<1> DEFINE kind == state.conf.keys
           rec == [req[r] EXCEPT !.pc = "page", !.used = kind]
<1>1. /\ req[r].pc = "handler" /\ UNCHANGED <<setup, confVars, keyVars>>
      /\ req' = [req EXCEPT ![r] = rec] /\ DOMAIN rec = DOMAIN Fresh
  BY DEF CallPaged, IInv, RequestInv, Shape
<1>2. /\ rec.pc = "page" /\ rec.page = req[r].page /\ rec.known = req[r].known
      /\ rec.codes = req[r].codes
  BY ReqFields DEF IInv, RequestInv, Shape
<1> HIDE DEF rec
<1>3. Others(r) /\ req'[r] = rec
  BY <1>1, Replaced
<1>4. Grows /\ KeptInv' /\ durable' = durable
  BY <1>1, SameKeys, KeptNext DEF DInv, keyVars
<1>5. KeyInv(r) /\ req[r].page = NoPage /\ req[r].codes = <<>>
  BY <1>1 DEF DInv, KeyInv, IInv, RequestInv, Progress
<1>6. Promised(r)' /\ Found(r)' /\ Shown(r)'
  <2>1. req'[r].codes = <<>> /\ <<>> # <<200>> /\ <<>> # <<404>>
    BY <1>2, <1>3, <1>5
  <2> QED
    BY <2>1 DEF Promised, Found, Shown
<1>7. Passed(r)'
  <2>1. req'[r].page.skip = 0
    BY <1>2, <1>3, <1>5 DEF NoPage
  <2>2. First(Here("gemalto")', 0) = {}
    <3>1. Here("gemalto")' \in SUBSET Names
      BY DEF Here
    <3> QED
      BY <3>1, FirstFacts
  <2> QED
    BY <2>1, <2>2 DEF Passed
<1>8. KeyInv(r)'
  BY <1>2, <1>3, <1>4, <1>5, <1>6, <1>7 DEF KeyInv, Creating, Early
<1> QED
  BY <1>3, <1>4, <1>8, OneStep

(* What a page brings: of the keys it has passed it has the certain ones,  *)
(* and after the last page all of them that the listing is to have.        *)
LEMMA RoundFacts ==
    ASSUME IInv, DInv, NEW r \in Reqs, req[r].pc = "page",
           NEW conf, conf.keys = req[r].used
    PROVE  LET round == ListRound(CallOf(r, conf), req[r].page)
           IN  /\ round.names \in SUBSET Names /\ round.skip \in Nat
               /\ req[r].used = "gemalto" /\ ~Damaged("gemalto") =>
                      Certain(r) \cap First(Here("gemalto"), round.skip) \subseteq round.names
               /\ round.last /\ (req[r].used = "gemalto" => ~Damaged("gemalto")) =>
                      Certain(r) \cap StartingWith(Prefix(r)) \subseteq round.names
<1> DEFINE x == CallOf(r, conf)
           all == Here(req[r].used)
           so == req[r].page
           round == ListRound(x, so)
<1>1. /\ x.conf.keys = req[r].used /\ Stocked(x) = all /\ ListPrefix(x) = Prefix(r)
      /\ Prefix(r) \in Int
  BY CallFacts, CallKeys, PrefixFacts
<1>2. all \in SUBSET Names /\ so.names \in SUBSET Names /\ so.skip \in Nat
  BY HereNames DEF DInv, KeyInv
<1>3. Certain(r) \subseteq all
  BY CertainHere
<1> HIDE DEF x, all, so
<1>4. CASE req[r].used = "gemalto"
  <2>1. round = GemaltoRound(all, so) /\ all = Here("gemalto")
    BY <1>1, <1>4 DEF ListRound, all
  <2> HIDE DEF round
  <2>2. round.names \in SUBSET Names /\ round.skip \in Nat
    BY <1>2, <2>1, GemaltoRoundKeeps
  <2>3. ASSUME ~Damaged("gemalto")
        PROVE  /\ Certain(r) \cap First(all, round.skip) \subseteq round.names
               /\ round.last => Certain(r) \cap all \subseteq round.names
    <3>1. Certain(r) \cap First(all, so.skip) \subseteq so.names
      BY <1>4, <2>1, <2>3 DEF DInv, KeyInv, Passed, so
    <3> QED
      BY <1>2, <2>1, <3>1, GemaltoRoundKeeps
  <2> QED
    BY <1>3, <1>4, <2>1, <2>2, <2>3 DEF round, x, so
<1>5. CASE req[r].used # "gemalto"
  <2>1. round = FortanixRound(all, Prefix(r), so)
    BY <1>1, <1>5 DEF ListRound
  <2>2. round.names = so.names \cup StartPage(all, Prefix(r)) /\ round.skip = 0
    BY <2>1 DEF FortanixRound
  <2>3. StartPage(all, Prefix(r)) \in SUBSET Names
    BY <1>2 DEF StartPage, First, From
  <2>4. round.last => all \cap StartingWith(Prefix(r)) = {}
    BY <1>1, <1>2, <2>1, FortanixLast
  <2> HIDE DEF round
  <2> QED
    BY <1>2, <1>3, <1>5, <2>2, <2>3, <2>4 DEF round, x, so
<1> QED
  BY <1>4, <1>5

(* How it ends.                                                            *)
LEMMA PagedTakesDInv ==
    ASSUME IInv, DInv, NEW r \in Reqs, req[r].pc = "page", UNCHANGED <<setup, confVars, keyVars>>,
           NEW e, Takes(r, e, req[r].used), Elsewhere,
           \/ e.codes # << 200 >>
           \/ (req[r].used = "gemalto" => ~Damaged("gemalto")) =>
                  CompleteFor(e.result.listing, Certain(r), Prefix(r))
    PROVE  DInv'
<1>1. /\ Others(r) /\ req'[r].used = req[r].used /\ req'[r].codes = e.codes
      /\ req'[r].result = e.result /\ req'[r].known = req[r].known
  BY TakesFacts
<1>2. Grows /\ KeptInv' /\ durable' = durable /\ doomed' = doomed
  BY SameKeys, KeptNext DEF DInv, keyVars
<1>3. /\ Request(r)' = Request(r) /\ Certain(r)' = Certain(r)
      /\ \A k : Damaged(k)' <=> Damaged(k)
  BY <1>1, <1>2, SameScenario DEF Certain, Damaged
<1>4. Request(r).api = "listKeys"
  BY DEF IInv, RequestInv, Progress
<1>5. Promised(r)' /\ Found(r)'
  BY <1>3, <1>4 DEF Promised, Found, Creators, Users
<1>6. Shown(r)'
  BY <1>1, <1>3 DEF Shown, Prefix, CompleteFor
<1>7. KeyInv(r)'
  BY <1>2, <1>5, <1>6, TakesKeyInv
<1> QED
  BY <1>1, <1>2, <1>7, OneStep

LEMMA NextPageDInv ==
    ASSUME IInv, DInv, NEW r \in Reqs, NextPage(r), Elsewhere
    PROVE  DInv'
<1> DEFINE conf == [state.conf EXCEPT !.keys = req[r].used]
           x == CallOf(r, conf)
           round == ListRound(x, req[r].page)
<1>1. /\ req[r].pc = "page" /\ UNCHANGED <<setup, confVars, keyVars>>
      /\ \/ req' = [req EXCEPT ![r].page = round]
         \/ \E e \in ListEnd(x, round) : Takes(r, e, req[r].used)
  BY DEF NextPage
<1>2. conf.keys = req[r].used
  BY DEF IInv, ConfInv, Proposed, IsConf
<1> HIDE DEF conf
<1>3. /\ round.names \in SUBSET Names /\ round.skip \in Nat
      /\ req[r].used = "gemalto" /\ ~Damaged("gemalto") =>
             Certain(r) \cap First(Here("gemalto"), round.skip) \subseteq round.names
      /\ round.last /\ (req[r].used = "gemalto" => ~Damaged("gemalto")) =>
             Certain(r) \cap StartingWith(Prefix(r)) \subseteq round.names
  BY <1>1, <1>2, RoundFacts
<1>4. ListPrefix(x) = Prefix(r) /\ Prefix(r) \in Int
  BY PrefixFacts
<1> HIDE DEF x, round
<1>5. CASE req' = [req EXCEPT ![r].page = round]
  <2> DEFINE rec == [req[r] EXCEPT !.page = round]
  <2>1. req' = [req EXCEPT ![r] = rec] /\ DOMAIN rec = DOMAIN Fresh
    BY <1>5 DEF IInv, RequestInv, Shape
  <2>2. /\ rec.page = round /\ rec.pc = "page" /\ rec.codes = req[r].codes
        /\ rec.used = req[r].used /\ rec.known = req[r].known
    BY <1>1, ReqFields DEF IInv, RequestInv, Shape
  <2> HIDE DEF rec
  <2>3. Others(r) /\ req'[r] = rec
    BY <1>1, <2>1, Replaced
  <2>4. Grows /\ KeptInv' /\ UNCHANGED <<store, durable, doomed>>
    BY <1>1, SameKeys, KeptNext DEF DInv, keyVars
  <2>5. KeyInv(r) /\ req[r].codes = <<>>
    BY <1>1 DEF DInv, IInv, RequestInv, Progress
  <2>6. Promised(r)' /\ Found(r)' /\ Shown(r)'
    <3>1. req'[r].codes = <<>> /\ <<>> # <<200>> /\ <<>> # <<404>>
      BY <2>2, <2>3, <2>5
    <3> QED
      BY <3>1 DEF Promised, Found, Shown
  <2>7. Passed(r)'
    <3>1. Certain(r)' = Certain(r) /\ Here("gemalto")' = Here("gemalto")
          /\ (Damaged("gemalto")' <=> Damaged("gemalto"))
      BY <2>2, <2>3, <2>4 DEF Certain, Here, Damaged
    <3> QED
      BY <1>3, <2>2, <2>3, <3>1 DEF Passed
  <2>8. KeyInv(r)'
    BY <1>3, <2>2, <2>3, <2>4, <2>5, <2>6, <2>7 DEF KeyInv, Creating, Early
  <2> QED
    BY <2>3, <2>4, <2>8, OneStep
<1>6. ASSUME NEW e \in ListEnd(x, round), Takes(r, e, req[r].used)
      PROVE  DInv'
  <2> DEFINE l == List(round.names, Prefix(r), -1)
  <2>1. e \in ListErrors(x) \/ (round.last /\ e = Listed(l))
    BY <1>4 DEF ListEnd
  <2>2. CompleteFor(l, round.names, Prefix(r))
    BY <1>3, <1>4, ListComplete
  <2> HIDE DEF l
  <2>3. ASSUME round.last, e = Listed(l), req[r].used = "gemalto" => ~Damaged("gemalto")
        PROVE  CompleteFor(e.result.listing, Certain(r), Prefix(r))
    <3>1. e.result.listing = l
      BY <2>3, ListedFacts
    <3> QED
      BY <1>3, <2>2, <2>3, <3>1 DEF CompleteFor
  <2>4. \/ e.codes # <<200>>
        \/ (req[r].used = "gemalto" => ~Damaged("gemalto")) =>
               CompleteFor(e.result.listing, Certain(r), Prefix(r))
    BY <2>1, <2>3, ListErrorCodes
  <2> QED
    BY <1>1, <1>6, <2>4, PagedTakesDInv
<1> QED
  BY <1>1, <1>5, <1>6

LEMMA PageCanceledDInv ==
    ASSUME IInv, DInv, NEW r \in Reqs, PageCanceled(r), Elsewhere
    PROVE  DInv'
BY ListErrorCodes, PagedTakesDInv DEF PageCanceled

-----------------------------------------------------------------------------
(* The Update, cmd/kes and the signals.                                    *)
LEMMA PredefinedGrows ==
    ASSUME IInv, NEW conf, conf.keys \in UsedKinds, NEW names, createPredefinedKeys(conf, names),
           UNCHANGED <<setup, durable, doomed>>
    PROVE  Grows
<1> DEFINE k == conf.keys
           new == {n \in names : store[k][n] = Nothing}
           key(n) == PredefinedKey(conf, n)
<1>1. store' = [store EXCEPT ![k] = [n \in Names |-> IF n \in new THEN key(n) ELSE @[n]]]
  BY DEF createPredefinedKeys
<1>2. \A n : key(n) # Nothing
  BY FormsDiffer DEF PredefinedKey
<1> HIDE DEF new, key
<1>3. /\ \A j \in UsedKinds \ {k} : store'[j] = store[j]
      /\ store'[k] = [n \in Names |-> IF n \in new THEN key(n) ELSE store[k][n]]
  BY <1>1 DEF IInv, StoreInv
<1>4. ASSUME NEW j \in UsedKinds, NEW n \in Here(j)
      PROVE  n \in Here(j)'
  <2>1. n \in Names /\ store[j][n] # Nothing
    BY DEF Here
  <2>2. CASE j # k
    BY <1>3, <2>1, <2>2 DEF Here
  <2>3. CASE j = k
    <3>1. store'[j][n] \in {key(n), store[j][n]}
      BY <1>3, <2>1, <2>3
    <3> QED
      BY <1>2, <2>1, <3>1 DEF Here
  <2> QED
    BY <2>2, <2>3
<1> QED
  BY <1>4 DEF Grows

LEMMA ReqNoted ==
    ASSUME IInv,
           req' = req \/ (\E conf : Announce(conf)) \/ (\E on \in BOOLEAN : StillAudited(on))
    PROVE  \A q \in Reqs : Follow(q)
<1>1. CASE req' = req
  BY <1>1, SameRequests
<1>2. ASSUME NEW q \in Reqs, NEW f \in {"seen", "audited"}, NEW v, req'[q] = [req[q] EXCEPT ![f] = v]
      PROVE  Follow(q)
  BY <1>2, ReqFields DEF IInv, RequestInv, Shape, Follow, Same
<1>3. ASSUME NEW conf, Announce(conf), NEW q \in Reqs
      PROVE  Follow(q)
  <2> DEFINE v == req[q].seen \cup {conf}
  <2>1. req'[q] = [req[q] EXCEPT !["seen"] = v]
    BY <1>3 DEF Announce
  <2> QED
    BY <1>2, <2>1
<1>4. ASSUME NEW on \in BOOLEAN, StillAudited(on), NEW q \in Reqs
      PROVE  Follow(q)
  <2> DEFINE v == req[q].audited /\ on
  <2>1. req'[q] = [req[q] EXCEPT !["audited"] = v]
    BY <1>4 DEF StillAudited
  <2> QED
    BY <1>2, <2>1
<1> QED
  BY <1>1, <1>3, <1>4

(* Nothing but the configuration, and what requests note of it, changes.   *)
LEMMA NotedDInv ==
    ASSUME IInv, DInv, UNCHANGED << setup, durable >>, UNCHANGED << store, doomed >> \/ Grows,
           req' = req \/ (\E conf : Announce(conf)) \/ (\E on \in BOOLEAN : StillAudited(on))
    PROVE  DInv'
<1>1. Grows
  BY DEF Grows, Here
<1> QED
  BY <1>1, ReqNoted, AllFollow

LEMMA QuietDInv ==
    ASSUME IInv, DInv, UNCHANGED <<setup, keyVars, req>>
    PROVE  DInv'
BY NotedDInv DEF keyVars

LEMMA StartDInv ==
    ASSUME IInv, DInv, Start
    PROVE  DInv'
<1>1. UNCHANGED <<setup, durable, doomed, req>>
  BY DEF Start
<1>2. UNCHANGED store \/ createPredefinedKeys(state.conf, state.conf.predefined)
  BY DEF Start
<1>3. UNCHANGED <<store, doomed>> \/ Grows
  BY <1>1, <1>2, PredefinedGrows, KindInForce
<1> QED
  BY <1>1, <1>3, NotedDInv

LEMMA PredefineDInv ==
    ASSUME IInv, DInv, Predefine
    PROVE  DInv'
<1>1. UNCHANGED <<setup, durable>> /\ (req' = req \/ Announce(target))
  BY DEF Predefine, PredefineFails
<1>2. target.keys \in UsedKinds /\ target.predefined \subseteq Names
  BY DEF IInv, UpdateInv, Proposed, IsConf
<1>3. \/ UNCHANGED <<store, doomed>>
      \/ UNCHANGED doomed /\ \E n : createPredefinedKeys(target, {n})
      \/ \E n \in target.predefined, v \in {Keep, Nothing} \cup {PredefinedKey(target, m) : m \in Names} :
           /\ Put(target.keys, n, v)
           /\ doomed' = IF v = Nothing THEN doomed \cup {<<target.keys, n>>} ELSE doomed
  BY <1>2 DEF Predefine, FailedCreate
<1>4. ASSUME NEW n \in target.predefined, NEW v, Put(target.keys, n, v),
             doomed' = IF v = Nothing THEN doomed \cup {<< target.keys, n >>} ELSE doomed
      PROVE  Grows
  BY <1>1, <1>2, <1>4, PutGrows
<1>5. UNCHANGED <<store, doomed>> \/ Grows
  BY <1>1, <1>2, <1>3, <1>4, PredefinedGrows
<1> QED
  BY <1>1, <1>5, NotedDInv

LEMMA PredefineWriteDInv ==
    ASSUME IInv, MissingInv, DInv, PredefineWrite
    PROVE  DInv'
<1>1. /\ UNCHANGED <<setup, durable, doomed, req>> /\ missing # Empty
      /\ \E v : Put(target.keys, missing, v) /\ v # Nothing
  BY FormsDiffer DEF PredefineWrite, PredefineFails, PredefinedKey
<1>2. target.keys \in UsedKinds /\ missing \in Names
  BY <1>1 DEF IInv, UpdateInv, Proposed, MissingInv
<1>3. Grows
  BY <1>1, <1>2, PutGrows
<1> QED
  BY <1>1, <1>3, NotedDInv

LEMMA UpdateStepDInv ==
    ASSUME IInv, MissingInv, DInv, UpdateStep
    PROVE  DInv'
<1>1. CASE ReloadRead \/ ReloadConnect \/ UpdateCall \/ StoreTLS \/ StoreState \/ StoreHandler
  <2>1. UNCHANGED <<setup, keyVars, req>>
    BY <1>1 DEF ReloadRead, ReloadConnect, UpdateCall, StoreTLS, StoreState, StoreHandler, Dies,
                requestVars
  <2> QED
    BY <2>1, QuietDInv
<1>2. CASE UpdateBegin
  <2>1. UNCHANGED <<setup, keyVars>> /\ (req' = req \/ Announce(target))
    BY <1>2 DEF UpdateBegin
  <2> QED
    BY <2>1, NotedDInv DEF keyVars
<1>3. CASE Predefine \/ PredefineWrite
  BY <1>3, PredefineDInv, PredefineWriteDInv
<1>4. CASE UpdateAudit
  <2>1. UNCHANGED <<setup, keyVars>> /\ (req' = req \/ StillAudited(HandlerEnabled(target.audit)))
    BY <1>4 DEF UpdateAudit
  <2>2. HandlerEnabled(target.audit) \in BOOLEAN
    BY DEF HandlerEnabled
  <2> QED
    BY <2>1, <2>2, NotedDInv DEF keyVars
<1>5. CASE SetLevels
  <2> DEFINE on == state.conf.levels.audit <= LevelInfo
  <2>1. UNCHANGED <<setup, keyVars>> /\ StillAudited(on)
    BY <1>5 DEF SetLevels
  <2>2. on \in BOOLEAN
    BY DEF IInv, ConfInv, Proposed, IsConf, LevelInfo
  <2> HIDE DEF on
  <2> QED
    BY <2>1, <2>2, NotedDInv DEF keyVars
<1> QED
  BY <1>1, <1>2, <1>3, <1>4, <1>5 DEF UpdateStep

LEMMA InitDInv ==
    ASSUME Init
    PROVE  DInv
<1>1. /\ req = [r \in Reqs |-> Fresh] /\ doomed = {}
      /\ durable = {at \in UsedKinds \X Names :
                        store[at[1]][at[2]] # Nothing /\ Cacheable(store[at[1]][at[2]])}
  BY DEF Init, InitRequests
<1>2. KeptInv
  BY <1>1 DEF KeptInv, Here
<1>3. /\ Fresh.pc = "new" /\ Fresh.granted = FALSE /\ Fresh.page = NoPage /\ Fresh.known = {}
      /\ NoPage.names = {} /\ NoPage.skip = 0
  BY DEF Fresh, NoPage
<1>4. \A r \in Reqs : KeyInv(r)
  BY <1>1, <1>3 DEF KeyInv, Passed, Creating, Early
<1> QED
  BY <1>2, <1>4 DEF DInv

LEMMA NextDInv ==
    ASSUME IInv, MissingInv, DInv, [Next]_vars
    PROVE  DInv'
<1>1. ASSUME NEW r \in Reqs, Handshake(r) \/ Arrive(r) \/ ClientLeaves(r), Elsewhere
      PROVE  DInv'
  BY <1>1, HandshakeDInv, ArriveDInv, UnsubscribeDInv
<1>2. ASSUME NEW r \in Reqs, HandleRequest(r), Elsewhere
      PROVE  DInv'
  BY <1>2, AuthenticateRequestDInv, CallDInv, WriteDInv, CallPagedDInv, NextPageDInv, PageCanceledDInv,
     LogErrorDInv, AuditEnabledDInv, AuditHandleDInv, ReplyDInv, UnsubscribeDInv
     DEF HandleRequest
<1>3. ASSUME EditFile \/ Signal \/ TickRead \/ TickUpdate \/ UNCHANGED vars
      PROVE  DInv'
  <2>1. UNCHANGED <<setup, keyVars, req>>
    BY <1>3 DEF EditFile, Signal, TickRead, TickUpdate, Dies, requestVars, vars
  <2> QED
    BY <2>1, QuietDInv
<1> QED
  BY <1>1, <1>2, <1>3, StartDInv, UpdateStepDInv DEF Next, RequestStep, Elsewhere

-----------------------------------------------------------------------------
(* What is known of the keys is invariant, for every set of scenarios.     *)
THEOREM KeysInvariance == Spec => []DInv
<1>1. Init => DInv
  BY InitDInv
<1>2. IInv /\ MissingInv /\ DInv /\ [Next]_vars => DInv'
  BY NextDInv
<1> QED
  BY <1>1, <1>2, Invariance, PTL DEF Spec

(* A key whose creation was answered with 200 (createKey and importKey of  *)
(* server.go) is there for every later request, whatever is reconfigured   *)
(* meanwhile: it is found, it is not created again, and a listing that is  *)
(* at the end has it, whichever key store's List made it (Durable).        *)
THEOREM AcknowledgedKeys == Spec => []Durable
<1>1. IInv /\ DInv => Durable
  <2> SUFFICES ASSUME IInv, DInv, NEW r \in Reqs, NEW n \in Certain(r),
                      req[r].pc = "done" /\ req[r].granted
               PROVE  /\ Request(r).resource = Resource(n, FALSE) =>
                          /\ Request(r).api \in {"describeKey", "encryptKey", "decryptKey", "hmacKey",
                                                 "generateKey", "deleteKey"} /\ ~Refused(r)
                             => req[r].codes # <<404>>
                          /\ Request(r).api \in {"createKey", "importKey"} => ~Answered(r)
                      /\ Complete(r) /\ n \in StartingWith(ListPrefix(CallOf(r, state.conf))) =>
                          n \in req[r].result.listing.names
    BY Zenon DEF Durable
  <2>1. Found(r) /\ Shown(r)
    BY DEF DInv, KeyInv
  <2>2. <<>> # <<404>>
    OBVIOUS
  <2>3. ASSUME Request(r).resource = Resource(n, FALSE)
        PROVE  /\ Request(r).api \in {"describeKey", "encryptKey", "decryptKey", "hmacKey",
                                      "generateKey", "deleteKey"} /\ ~Refused(r)
                  => req[r].codes # <<404>>
               /\ Request(r).api \in {"createKey", "importKey"} => ~Answered(r)
    <3>1. /\ Request(r).api \in Users /\ ~Refused(r) => req[r].codes # <<404>>
          /\ Request(r).api = "deleteKey" => req[r].codes = <<>>
          /\ Request(r).api \in Creators => req[r].codes # <<200>>
      BY <2>1, <2>3 DEF Found
    <3>2. Request(r).api = "deleteKey" => req[r].codes # <<404>>
      BY <2>2, <3>1
    <3> QED
      BY <3>1, <3>2 DEF Answered, Users, Creators
  <2>4. ASSUME Complete(r), n \in StartingWith(ListPrefix(CallOf(r, state.conf)))
        PROVE  n \in req[r].result.listing.names
    <3>1. n \in StartingWith(Prefix(r))
      BY <2>4, PrefixFacts
    <3>2. CompleteFor(req[r].result.listing, Certain(r), Prefix(r))
      BY <2>1, <2>4 DEF Shown, Complete, Answered, Damaged
    <3> QED
      BY <2>4, <3>1, <3>2 DEF CompleteFor, Complete
  <2> QED
    BY <2>3, <2>4
<1> QED
  BY <1>1, Invariance, KeysInvariance, PTL

-----------------------------------------------------------------------------
(* What comes back.  The part of a ciphertext that is sealed carries the   *)
(* secret key, context and plaintext it stands for.                        *)
Sealers == {"encryptKey", "generateKey"}
Body(r) == Request(r).body
SealedPart(c) == Parts(c)[1]
WellSealed(c) ==
    /\ c.form \in {"raw", "msgp", "json"} /\ c.known \in BOOLEAN
    /\ SealedPart(c) = Seal(SealedPart(c), Parts(c)[2], Parts(c)[3], SealedPart(c).context,
                            SealedPart(c).plaintext)

(* A name that nobody tried to delete, and that no failed Create removed,  *)
(* has stood for one key, except on azure and vault.                       *)
LoneInv ==
    \A k \in UsedKinds, n \in Names :
        /\ Nothing \notin held[k][n]
        /\ k \notin ChecksFirst /\ <<k, n>> \notin doomed => held[k][n] \subseteq {store[k][n]}

(* An encryption that was answered is sealed under a key of its name.      *)
SealInv(r) ==
    req[r].codes = <<200>> =>
        /\ req[r].granted
        /\ Request(r).api \in Sealers =>
            LET c == req[r].result.ciphertext
            IN  /\ validName(Request(r).resource)
                /\ c.form = "raw" /\ WellSealed(c)
                /\ SealedPart(c).context = req[r].result.context
                /\ SealedPart(c).plaintext = req[r].result.plaintext
                /\ SecretOf(SealedPart(c)) \in Secrets(req[r].used, Request(r).resource.name)

(* A client that decrypts an answer has it.                                *)
HasInv(r) ==
    /\ Request(r).api = "decryptKey" /\ Body(r).of > 0
    /\ req[r].pc = "routed" \/ req[r].granted
    => Answered(Body(r).of)

(* RoundTrip, in terms of the ciphertext.                                  *)
TripInv(r) ==
    LET s == SealedPart(Ciphertext(r))
        mine == Secrets(req[r].used, Request(r).resource.name)
    IN  Request(r).api = "decryptKey" /\ req[r].granted =>
            /\ req[r].codes = <<200>> =>
                /\ validName(Request(r).resource)
                /\ s.context = Body(r).context /\ s.plaintext = req[r].result.plaintext
                /\ SecretOf(s) \in mine
            /\ /\ req[r].codes = <<400>> /\ validName(Request(r).resource)
               /\ Body(r).sent /\ Body(r).valid
               /\ s.context = Body(r).context /\ Readable(Ciphertext(r))
               => \E t \in mine : t # SecretOf(s)

CInv == LoneInv /\ \A r \in Reqs : SealInv(r) /\ HasInv(r) /\ TripInv(r)

-----------------------------------------------------------------------------
(* The secret key, context and plaintext of what opens are those it was    *)
(* sealed with, in each of the three formats.                              *)
LEMMA OpensSealed ==
    ASSUME NEW c, WellSealed(c), NEW key, NEW context
    PROVE  /\ Decrypts(key, c, context) =>
                  /\ SecretOf(key) = SecretOf(SealedPart(c)) /\ context = SealedPart(c).context
                  /\ Decrypt(c) = SealedPart(c).plaintext
           /\ /\ Readable(c) /\ SecretOf(key) = SecretOf(SealedPart(c))
              /\ context = SealedPart(c).context
              => Decrypts(key, c, context)
<1> DEFINE p == parseCiphertext(c)
           s == SealedPart(c)
<1>1. Readable(c) => p.form = "raw" /\ p.raw[1] = s /\ p.raw[2] = Parts(c)[2] /\ p.raw[3] = Parts(c)[3]
  <2>1. CASE c.form = "raw"
    BY <2>1 DEF parseCiphertext, UnmarshalBinary, UnmarshalJSON, Parts, SealedPart
  <2>2. CASE c.form # "raw" /\ c.known
    <3>1. p = Raw(c.Bytes, c.IV, c.Nonce)
      BY <2>2 DEF parseCiphertext, UnmarshalBinary, UnmarshalJSON, WellSealed
    <3>2. Parts(c) = <<c.Bytes, c.IV, c.Nonce>>
      BY <2>2 DEF Parts
    <3> QED
      BY <3>1, <3>2 DEF Raw, SealedPart
  <2> QED
    BY <2>1, <2>2 DEF Readable
<1>2. ~Readable(c) => p.form # "raw"
  BY DEF Readable, parseCiphertext, UnmarshalBinary, UnmarshalJSON
<1>3. s = Seal(s, Parts(c)[2], Parts(c)[3], s.context, s.plaintext)
  BY DEF WellSealed
<1>4. Decrypts(key, c, context) <=>
          Readable(c) /\ s = Seal(key, Parts(c)[2], Parts(c)[3], context, s.plaintext)
  BY <1>1, <1>2 DEF Decrypts, Opens
<1>5. Readable(c) => Decrypt(c) = s.plaintext
  BY <1>1 DEF Decrypt
<1> HIDE DEF s, p
<1>6. ASSUME s = Seal(key, Parts(c)[2], Parts(c)[3], context, s.plaintext)
      PROVE  s.bytes = key.bytes /\ s.cipher = key.cipher /\ s.context = context
  <2> DEFINE t == Seal(key, Parts(c)[2], Parts(c)[3], context, s.plaintext)
  <2>1. t.bytes = key.bytes /\ t.cipher = key.cipher /\ t.context = context
    BY DEF Seal
  <2> QED
    BY <1>6, <2>1
<1>7. ASSUME SecretOf(key) = SecretOf(s), context = s.context
      PROVE  s = Seal(key, Parts(c)[2], Parts(c)[3], context, s.plaintext)
  <2>1. key.bytes = s.bytes /\ key.cipher = s.cipher
    BY <1>7 DEF SecretOf
  <2> QED
    BY <1>3, <1>7, <2>1 DEF Seal
<1> QED
  BY <1>4, <1>5, <1>6, <1>7 DEF SecretOf, s

(* What SecretKey.Encrypt returns is sealed under the key.                 *)
LEMMA EncryptSeals ==
    ASSUME NEW key, NEW random, NEW context, NEW plaintext
    PROVE  LET c == Encrypt(key, random, context, plaintext)
           IN  /\ c.form = "raw" /\ WellSealed(c) /\ SecretOf(SealedPart(c)) = SecretOf(key)
               /\ SealedPart(c).context = context /\ SealedPart(c).plaintext = plaintext
<1> DEFINE s == Seal(key, random, random, context, plaintext)
           c == Encrypt(key, random, context, plaintext)
<1>1. /\ s.bytes = key.bytes /\ s.cipher = key.cipher /\ s.context = context
      /\ s.plaintext = plaintext
      /\ s = Seal(s, random, random, s.context, s.plaintext)
  BY DEF Seal
<1> HIDE DEF s
<1>2. c.form = "raw" /\ c.known = FALSE /\ c.raw = <<s, random, random>>
  BY DEF Encrypt, Raw, s
<1> HIDE DEF c
<1>3. Parts(c)[1] = s /\ Parts(c)[2] = random /\ Parts(c)[3] = random
  BY <1>2 DEF Parts
<1> QED
  BY <1>1, <1>2, <1>3 DEF WellSealed, SealedPart, SecretOf, c

(* A value that Get finds and can parse.                                   *)
Gets(x, v) == v \in x.held[x.q.resource.name] /\ Cacheable(v)

(* The answers of encryptKey, generateKey and decryptKey.                  *)
LEMMA EncryptAnswers ==
    ASSUME NEW x, NEW e \in encryptKey(x) \cup generateKey(x), e.codes = << 200 >>
    PROVE  /\ validName(x.q.resource)
           /\ \E v, plaintext :
                /\ Gets(x, v)
                /\ e.result.plaintext = plaintext /\ e.result.context = x.q.body.context
                /\ e.result.ciphertext = Encrypt(ParseKeyVersion(v).key, x.random,
                                                 x.q.body.context, plaintext)
<1>1. \A f : Mild(f) => e # f
  BY DEF Mild
<1>2. e # ErrNotFound /\ e \notin NoUseOf(x) \cup SystemErrors(x) \cup {LogAndFail(500)}
  <2>1. e # ErrNotFound
    <3>1. <<404>> # <<200>>
      OBVIOUS
    <3> QED
      BY <3>1 DEF ErrNotFound, Fail, Effect
  <2> QED
    BY <1>1, <2>1, MildAnswers, MildErrors, MildPanic DEF NoUseOf
<1>3. ASSUME NEW v \in GetFinds(x), ~ParsePanics(v), ParseKeyVersion(v).ok
      PROVE  Gets(x, v)
  BY <1>3 DEF Gets, GetFinds, Cacheable
<1>4. ASSUME NEW key, NEW plaintext, e \in Encrypted(x, key, plaintext)
      PROVE  /\ e.result.plaintext = plaintext /\ e.result.context = x.q.body.context
             /\ e.result.ciphertext = Encrypt(key, x.random, x.q.body.context, plaintext)
  <2> DEFINE result == [kind |-> "ciphertext", plaintext |-> plaintext, context |-> x.q.body.context,
                        ciphertext |-> Encrypt(key, x.random, x.q.body.context, plaintext)]
  <2>1. e = ReplyWith(result)
    BY <1>2, <1>4 DEF Encrypted
  <2>2. e.result = result
    BY <2>1, ReplyFacts
  <2> QED
    BY <2>2
<1>5. /\ validName(x.q.resource)
      /\ \E v \in GetFinds(x), plaintext \in {x.q.body.plaintext, x.random} :
           /\ ~ParsePanics(v) /\ ParseKeyVersion(v).ok
           /\ e \in Encrypted(x, ParseKeyVersion(v).key, plaintext)
  <2>1. CASE e \in encryptKey(x)
    BY <1>2, <2>1 DEF encryptKey, KeysGet, NoUseOf
  <2>2. CASE e \in generateKey(x)
    BY <1>2, <2>2 DEF generateKey, KeysGet, NoUseOf
  <2> QED
    BY <2>1, <2>2
<1>6. PICK v \in GetFinds(x), plaintext \in {x.q.body.plaintext, x.random} :
           /\ ~ParsePanics(v) /\ ParseKeyVersion(v).ok
           /\ e \in Encrypted(x, ParseKeyVersion(v).key, plaintext)
  BY <1>5
<1> QED
  BY <1>3, <1>4, <1>5, <1>6

LEMMA DecryptAnswers ==
    ASSUME NEW x, NEW e \in decryptKey(x)
    PROVE  /\ e.codes = <<200>> =>
                /\ validName(x.q.resource)
                /\ e.result.plaintext = Decrypt(x.cipher)
                /\ \E v : /\ Gets(x, v)
                          /\ Decrypts(ParseKeyVersion(v).key, x.cipher, x.q.body.context)
           /\ e.codes = <<400>> /\ validName(x.q.resource) /\ x.q.body.sent /\ x.q.body.valid =>
                \E v : /\ Gets(x, v)
                       /\ ~Decrypts(ParseKeyVersion(v).key, x.cipher, x.q.body.context)
<1> DEFINE answer == ReplyWith([kind |-> "plaintext", plaintext |-> Decrypt(x.cipher)])
           other == {ErrNotFound, Panic, LogAndFail(502), LogAndFail(500)} \cup BackendErrors(x)
<1>1. ASSUME NEW v \in GetFinds(x), ~ParsePanics(v), ParseKeyVersion(v).ok
      PROVE  Gets(x, v)
  BY <1>1 DEF Gets, GetFinds, Cacheable
<1>2. ASSUME NEW f \in other
      PROVE  f.codes # <<200>> /\ f.codes # <<400>>
  <2>1. \A c \in {404, 500, 502} : <<c>> # <<200>> /\ <<c>> # <<400>> /\ <<>> # <<200>> /\ <<>> # <<400>>
    OBVIOUS
  <2>2. f.codes \in {<<404>>, <<500>>, <<502>>, <<>>}
    BY DEF BackendErrors, ErrNotFound, Panic, LogAndFail, Fail, Effect
  <2> QED
    BY <2>1, <2>2
<1>3. /\ answer.codes = <<200>> /\ answer.result.plaintext = Decrypt(x.cipher)
      /\ Fail(400).codes = <<400>> /\ InvalidBody.codes = <<400>> /\ ErrDecrypt.codes = <<400>>
      /\ <<200>> # <<400>>
  BY ReplyFacts DEF Fail, LogAndFail, Effect, InvalidBody, ErrDecrypt
<1>4. \/ e = Fail(400) /\ ~validName(x.q.resource)
      \/ e = InvalidBody /\ BadBody(x)
      \/ e \in other
      \/ validName(x.q.resource) /\ \E v \in GetFinds(x) :
            /\ ~ParsePanics(v) /\ ParseKeyVersion(v).ok
            /\ \/ e = answer /\ Decrypts(ParseKeyVersion(v).key, x.cipher, x.q.body.context)
               \/ e = ErrDecrypt /\ ~Decrypts(ParseKeyVersion(v).key, x.cipher, x.q.body.context)
  BY DEF decryptKey, KeysGet
<1> HIDE DEF answer, other
<1> QED
  BY <1>1, <1>2, <1>3, <1>4 DEF BadBody

-----------------------------------------------------------------------------
(* What a name has stood for stays known.                                  *)
HeldGrows ==
    /\ setup' = setup
    /\ \A k \in UsedKinds, n \in Names : held[k][n] \subseteq held'[k][n]

LEMMA SecretsGrow ==
    ASSUME HeldGrows, NEW k \in UsedKinds, NEW n \in Names
    PROVE  Secrets(k, n) \subseteq Secrets(k, n)'
BY DEF HeldGrows, Secrets

LEMMA SameHeld ==
    ASSUME LoneInv, UNCHANGED <<setup, store, held>>, doomed \subseteq doomed'
    PROVE  HeldGrows /\ LoneInv'
<1>1. UsedKinds' = UsedKinds
  BY SameScenario
<1> QED
  BY <1>1 DEF HeldGrows, LoneInv

(* A key is put where none is, except on azure and vault, and removed      *)
(* where a request tried to or a Create failed.                            *)
LEMMA PutLone ==
    ASSUME IInv, LoneInv, NEW kind \in UsedKinds, NEW name, NEW value, name \in Names \/ value = Keep,
           Put(kind, name, value), setup' = setup, doomed \subseteq doomed',
           value = Nothing => <<kind, name>> \in doomed',
           value \notin {Keep, Nothing} => store[kind][name] = Nothing \/ kind \in ChecksFirst
    PROVE  HeldGrows /\ LoneInv'
<1>1. CASE value = Keep
  BY <1>1, SameHeld DEF Put
<1>2. CASE value # Keep
  <2>1. name \in Names /\ UsedKinds' = UsedKinds
    BY <1>2, SameScenario
  <2>2. /\ store' = [store EXCEPT ![kind][name] = value]
        /\ held' = [held EXCEPT ![kind][name] = @ \cup ({value} \ {Nothing})]
    BY <1>2 DEF Put
  <2>3. /\ store'[kind][name] = value /\ held'[kind][name] = held[kind][name] \cup ({value} \ {Nothing})
        /\ \A k \in UsedKinds, n \in Names :
               ~(k = kind /\ n = name) => store'[k][n] = store[k][n] /\ held'[k][n] = held[k][n]
    BY <2>1, <2>2 DEF IInv, StoreInv
  <2>4. HeldGrows
    BY <2>3 DEF HeldGrows
  <2>5. ASSUME NEW k \in UsedKinds, NEW n \in Names
        PROVE  /\ Nothing \notin held'[k][n]
               /\ k \notin ChecksFirst /\ <<k, n>> \notin doomed' => held'[k][n] \subseteq {store'[k][n]}
    <3>1. /\ Nothing \notin held[k][n]
          /\ k \notin ChecksFirst /\ <<k, n>> \notin doomed' => held[k][n] \subseteq {store[k][n]}
      BY DEF LoneInv
    <3>2. CASE k = kind /\ n = name
      BY <1>2, <2>3, <3>1, <3>2
    <3>3. CASE ~(k = kind /\ n = name)
      BY <2>3, <3>1, <3>3
    <3> QED
      BY <3>2, <3>3
  <2> QED
    BY <2>1, <2>4, <2>5 DEF LoneInv
<1> QED
  BY <1>1, <1>2

LEMMA PredefinedLone ==
    ASSUME IInv, LoneInv, NEW conf, conf.keys \in UsedKinds, NEW names,
           createPredefinedKeys(conf, names), UNCHANGED <<setup, doomed>>
    PROVE  HeldGrows /\ LoneInv'
<1> DEFINE k == conf.keys
           new == {n \in names : store[k][n] = Nothing}
           key(n) == PredefinedKey(conf, n)
<1>1. /\ store' = [store EXCEPT ![k] = [n \in Names |-> IF n \in new THEN key(n) ELSE @[n]]]
      /\ held' = [held EXCEPT ![k] = [n \in Names |-> IF n \in new THEN @[n] \cup {key(n)} ELSE @[n]]]
  BY DEF createPredefinedKeys
<1>2. (\A n : key(n) # Nothing) /\ \A n \in new : store[k][n] = Nothing
  BY FormsDiffer DEF PredefinedKey
<1> HIDE DEF new, key
<1>3. /\ store'[k] = [n \in Names |-> IF n \in new THEN key(n) ELSE store[k][n]]
      /\ held'[k] = [n \in Names |-> IF n \in new THEN held[k][n] \cup {key(n)} ELSE held[k][n]]
      /\ \A j \in UsedKinds \ {k} : store'[j] = store[j] /\ held'[j] = held[j]
  BY <1>1 DEF IInv, StoreInv
<1>4. ASSUME NEW j \in UsedKinds, NEW n \in Names
      PROVE  /\ held[j][n] \subseteq held'[j][n] /\ Nothing \notin held'[j][n]
             /\ j \notin ChecksFirst /\ <<j, n>> \notin doomed => held'[j][n] \subseteq {store'[j][n]}
  <2>1. /\ Nothing \notin held[j][n]
        /\ j \notin ChecksFirst /\ <<j, n>> \notin doomed => held[j][n] \subseteq {store[j][n]}
    BY DEF LoneInv
  <2>2. CASE j = k /\ n \in new
    <3>1. store'[j][n] = key(n) /\ held'[j][n] = held[j][n] \cup {key(n)}
      BY <1>3, <2>2
    <3> QED
      BY <1>2, <2>1, <2>2, <3>1
  <2>3. CASE j # k \/ n \notin new
    <3>1. store'[j][n] = store[j][n] /\ held'[j][n] = held[j][n]
      BY <1>3, <2>3
    <3> QED
      BY <2>1, <3>1
  <2> QED
    BY <2>2, <2>3
<1>5. UsedKinds' = UsedKinds
  BY SameScenario
<1> QED
  BY <1>4, <1>5 DEF HeldGrows, LoneInv

-----------------------------------------------------------------------------
(* What a step may do to a request: leave its answer alone, leave it       *)
(* without one, give it the answer of its handler, or that of a listing or *)
(* of a key store that has written a key.                                  *)
Keeps(q) ==
    /\ Same(q, {"codes", "used", "result", "granted"})
    /\ req[q].pc = "done" => req'[q].pc = "done"
    /\ req'[q].pc = "routed" /\ req[q].pc # "routed" =>
           (Body(q).of > 0 => Answered(Body(q).of))

Blank(q) ==
    /\ req[q].pc # "done" /\ req'[q].pc # "routed" /\ req'[q].codes # <<200>>
    /\ req'[q].granted => req'[q].codes = <<>> /\ (req[q].pc = "routed" \/ req[q].granted)

Reads(q) ==
    /\ req[q].pc = "handler" /\ req'[q].pc # "routed" /\ Same(q, {"granted"})
    /\ \E e \in Handler(CallOf(q, state.conf)) :
         /\ req'[q].used = state.conf.keys /\ req'[q].codes = e.codes /\ req'[q].result = e.result

Ends(q) ==
    /\ req[q].pc \in {"page", "write"} /\ Same(q, {"granted"})
    /\ Request(q).api \notin Sealers \cup {"decryptKey"}

Moves(q) == Keeps(q) \/ Blank(q) \/ Reads(q) \/ Ends(q)

(* A step of one request.                                                  *)
LEMMA OneMoves ==
    ASSUME NEW r \in Reqs, Others(r), Moves(r)
    PROVE  \A q \in Reqs : Moves(q)
<1>1. ASSUME NEW q \in Reqs, req'[q] = req[q]
      PROVE  Keeps(q)
  BY <1>1 DEF Keeps, Same
<1> QED
  BY <1>1 DEF Others, Moves

LEMMA KeepStep ==
    ASSUME IInv, NEW r \in Reqs, UNCHANGED <<setup, confVars>>, Elsewhere,
           NEW rec, DOMAIN rec = DOMAIN Fresh, req' = [req EXCEPT ![r] = rec],
           \A f \in {"codes", "used", "result", "granted"} : rec[f] = req[r][f],
           req[r].pc # "done",
           rec.pc = "routed" => (Body(r).of > 0 => Answered(Body(r).of))
    PROVE  \A q \in Reqs : Moves(q)
<1>1. Others(r) /\ req'[r] = rec
  BY Replaced
<1>2. Keeps(r)
  BY <1>1 DEF Keeps, Same
<1> QED
  BY <1>1, <1>2, OneMoves DEF Moves

LEMMA BlankMoves ==
    ASSUME IInv, NEW r \in Reqs, UNCHANGED <<setup, confVars>>, Elsewhere,
           NEW rec, DOMAIN rec = DOMAIN Fresh, req' = [req EXCEPT ![r] = rec],
           req[r].pc # "done", rec.pc # "routed", rec.codes # << 200 >>,
           rec.granted => rec.codes = << >> /\ (req[r].pc = "routed" \/ req[r].granted)
    PROVE  \A q \in Reqs : Moves(q)
<1>1. Others(r) /\ req'[r] = rec
  BY Replaced
<1>2. Blank(r)
  BY <1>1 DEF Blank
<1> QED
  BY <1>1, <1>2, OneMoves DEF Moves

LEMMA PanicMoves ==
    ASSUME IInv, NEW r \in Reqs, Panics(r), req[r].pc \in {"routed"} \cup Called,
           UNCHANGED <<setup, confVars>>, Elsewhere
    PROVE  \A q \in Reqs : Moves(q)
<1> DEFINE no == <<>>
           rec == [req[r] EXCEPT !.pc = "done", !.panicked = TRUE, !.codes = no]
<1>1. req' = [req EXCEPT ![r] = rec] /\ DOMAIN rec = DOMAIN Fresh
  BY DEF Panics, IInv, RequestInv, Shape
<1> HIDE DEF no
<1>2. rec.pc = "done" /\ rec.codes = no /\ rec.granted = req[r].granted
  BY ReqFields DEF IInv, RequestInv, Shape
<1> HIDE DEF rec
<1>3. no = <<>> /\ no # <<200>>
  BY DEF no
<1>4. req[r].pc # "done"
  BY DEF Called
<1> QED
  BY <1>1, <1>2, <1>3, <1>4, BlankMoves

LEMMA ConnectMoves ==
    ASSUME IInv, NEW r \in Reqs, Handshake(r) \/ Arrive(r), Elsewhere
    PROVE  \A q \in Reqs : Moves(q)
<1>1. CASE Handshake(r)
  <2>1. /\ req[r].pc = "new" /\ UNCHANGED <<setup, confVars>>
        /\ \E to \in {"connected", "done"} : req' = [req EXCEPT ![r].pc = to]
    BY <1>1 DEF Handshake
  <2>2. PICK to \in {"connected", "done"} : req' = [req EXCEPT ![r].pc = to]
    BY <2>1
  <2> DEFINE rec == [req[r] EXCEPT !.pc = to]
  <2>3. req' = [req EXCEPT ![r] = rec] /\ DOMAIN rec = DOMAIN Fresh
    BY <2>2 DEF IInv, RequestInv, Shape
  <2>4. /\ \A f \in {"codes", "used", "result", "granted"} : rec[f] = req[r][f]
        /\ rec.pc = to
    BY ReqFields DEF IInv, RequestInv, Shape
  <2> HIDE DEF rec
  <2> QED
    BY <2>1, <2>3, <2>4, KeepStep
<1>2. CASE Arrive(r)
  <2> DEFINE rec == [req[r] EXCEPT !.pc = "routed", !.skip = handler, !.seen = inForce,
                                   !.known = durable \ doomed,
                                   !.audited = AuditOn /\ HandlerEnabled(auditH)]
  <2>1. /\ req[r].pc = "connected" /\ UNCHANGED <<setup, confVars>>
        /\ Body(r).of > 0 => Answered(Body(r).of)
        /\ req' = [req EXCEPT ![r] = rec] /\ DOMAIN rec = DOMAIN Fresh
    BY <1>2 DEF Arrive, Body, IInv, RequestInv, Shape
  <2>2. \A f \in {"codes", "used", "result", "granted"} : rec[f] = req[r][f]
    BY ReqFields DEF IInv, RequestInv, Shape
  <2> HIDE DEF rec
  <2> QED
    BY <2>1, <2>2, KeepStep
<1> QED
  BY <1>1, <1>2

LEMMA Rejected ==
    ASSUME NEW route, NEW conf, NEW q
    PROVE  Authenticate(route, conf, q) # 200
BY DEF Authenticate, verifyIdentity

LEMMA AuthenticateMoves ==
    ASSUME IInv, NEW r \in Reqs, CheckMethod(r) \/ SetTimeout(r) \/ AuthenticateRequest(r), Elsewhere
    PROVE  \A q \in Reqs : Moves(q)
<1>1. /\ req[r].pc = "routed" /\ UNCHANGED <<setup, confVars>>
      /\ \/ \E code : code # 200 /\ Refuse(r, code)
         \/ Panics(r)
         \/ \E id : req' = [req EXCEPT ![r].pc = "handler", ![r].granted = TRUE, ![r].id = id]
  BY Rejected DEF CheckMethod, SetTimeout, AuthenticateRequest
<1>2. ASSUME NEW code, code # 200, Refuse(r, code)
      PROVE  \A q \in Reqs : Moves(q)
  <2> DEFINE codes == <<code>>
             rec == [req[r] EXCEPT !.pc = "done", !.codes = codes]
  <2>1. req' = [req EXCEPT ![r] = rec] /\ DOMAIN rec = DOMAIN Fresh
    BY <1>2 DEF Refuse, IInv, RequestInv, Shape
  <2>2. codes # <<200>>
    BY <1>2
  <2> HIDE DEF codes
  <2>3. rec.pc = "done" /\ rec.codes = codes /\ rec.granted = req[r].granted
    BY ReqFields DEF IInv, RequestInv, Shape
  <2> HIDE DEF rec
  <2>4. ~req[r].granted
    BY <1>1 DEF IInv, RequestInv, Progress, Early
  <2> QED
    BY <1>1, <2>1, <2>2, <2>3, <2>4, BlankMoves
<1>3. CASE Panics(r)
  BY <1>1, <1>3, PanicMoves
<1>4. ASSUME NEW id, req' = [req EXCEPT ![r].pc = "handler", ![r].granted = TRUE, ![r].id = id]
      PROVE  \A q \in Reqs : Moves(q)
  <2> DEFINE rec == [req[r] EXCEPT !.pc = "handler", !.granted = TRUE, !.id = id]
  <2>1. req' = [req EXCEPT ![r] = rec] /\ DOMAIN rec = DOMAIN Fresh
    BY <1>4 DEF IInv, RequestInv, Shape
  <2>2. rec.pc = "handler" /\ rec.codes = req[r].codes
    BY ReqFields DEF IInv, RequestInv, Shape
  <2> HIDE DEF rec
  <2>3. req[r].codes = <<>> /\ <<>> # <<200>>
    BY <1>1 DEF IInv, RequestInv, Progress, Early
  <2> QED
    BY <1>1, <2>1, <2>2, <2>3, BlankMoves
<1> QED
  BY <1>1, <1>2, <1>3, <1>4

(* The steps behind the handler, and those that do not touch an answer.    *)
LEMMA BehindMoves ==
    ASSUME IInv, NEW r \in Reqs, UNCHANGED <<setup, confVars>>, Elsewhere, req[r].pc # "done",
           NEW rec, req' = [req EXCEPT ![r] = rec], DOMAIN rec = DOMAIN Fresh,
           \A f \in {"codes", "used", "result", "granted"} : rec[f] = req[r][f],
           rec.pc \in {req[r].pc, "record", "reply", "done"}, req[r].pc # "routed"
    PROVE  \A q \in Reqs : Moves(q)
BY KeepStep

LEMMA ServeMoves ==
    ASSUME IInv, NEW r \in Reqs, Elsewhere,
           LogError(r) \/ AuditEnabled(r) \/ AuditHandle(r) \/ Reply(r) \/ Unsubscribe(r) \/ ClientLeaves(r)
    PROVE  \A q \in Reqs : Moves(q)
<1>1. /\ req[r].pc \in {"log", "audit", "record", "reply", "stream", "page"}
      /\ UNCHANGED <<setup, confVars>>
  BY DEF LogError, AuditEnabled, AuditHandle, Reply, Unsubscribe, ClientLeaves
<1>2. \/ Panics(r)
      \/ \E to \in {"reply", "done"} : req' = [req EXCEPT ![r].pc = to]
      \/ req' = [req EXCEPT ![r].left = TRUE]
      \/ \E a : req' = [req EXCEPT ![r].pc = "reply", ![r].audited = a]
      \/ \E to \in {"record", "reply"} : \E h, o, a :
           req' = [req EXCEPT ![r].pc = to, ![r].hEnabled = h, ![r].oEnabled = o, ![r].audited = a]
  <2>1. CASE AuditEnabled(r)
    BY <2>1, AuditEnabledLeads
  <2>2. CASE AuditHandle(r)
    BY <2>2 DEF AuditHandle
  <2>3. CASE LogError(r) \/ Reply(r) \/ Unsubscribe(r) \/ ClientLeaves(r)
    BY <2>3 DEF LogError, Reply, Unsubscribe, ClientLeaves
  <2> QED
    BY <2>1, <2>2, <2>3
<1>3. CASE Panics(r)
  BY <1>1, <1>3, PanicMoves DEF Called
<1>4. ASSUME NEW to \in {"reply", "done"}, req' = [req EXCEPT ![r].pc = to]
      PROVE  \A q \in Reqs : Moves(q)
  <2> DEFINE rec == [req[r] EXCEPT !.pc = to]
  <2>1. req' = [req EXCEPT ![r] = rec] /\ DOMAIN rec = DOMAIN Fresh
    BY <1>4 DEF IInv, RequestInv, Shape
  <2>2. /\ \A f \in {"codes", "used", "result", "granted"} : rec[f] = req[r][f]
        /\ rec.pc = to
    BY ReqFields DEF IInv, RequestInv, Shape
  <2> HIDE DEF rec
  <2> QED
    BY <1>1, <2>1, <2>2, BehindMoves
<1>5. CASE req' = [req EXCEPT ![r].left = TRUE]
  <2> DEFINE rec == [req[r] EXCEPT !.left = TRUE]
  <2>1. req' = [req EXCEPT ![r] = rec] /\ DOMAIN rec = DOMAIN Fresh
    BY <1>5 DEF IInv, RequestInv, Shape
  <2>2. \A f \in {"codes", "used", "result", "granted", "pc"} : rec[f] = req[r][f]
    BY ReqFields DEF IInv, RequestInv, Shape
  <2> HIDE DEF rec
  <2> QED
    BY <1>1, <2>1, <2>2, BehindMoves
<1>6. ASSUME NEW a, req' = [req EXCEPT ![r].pc = "reply", ![r].audited = a]
      PROVE  \A q \in Reqs : Moves(q)
  <2> DEFINE rec == [req[r] EXCEPT !.pc = "reply", !.audited = a]
  <2>1. req' = [req EXCEPT ![r] = rec] /\ DOMAIN rec = DOMAIN Fresh
    BY <1>6 DEF IInv, RequestInv, Shape
  <2>2. /\ \A f \in {"codes", "used", "result", "granted"} : rec[f] = req[r][f]
        /\ rec.pc = "reply"
    BY ReqFields DEF IInv, RequestInv, Shape
  <2> HIDE DEF rec
  <2> QED
    BY <1>1, <2>1, <2>2, BehindMoves
<1>7. ASSUME NEW to \in {"record", "reply"}, NEW h, NEW o, NEW a,
             req' = [req EXCEPT ![r].pc = to, ![r].hEnabled = h, ![r].oEnabled = o,
                                ![r].audited = a]
      PROVE  \A q \in Reqs : Moves(q)
  <2> DEFINE rec == [req[r] EXCEPT !.pc = to, !.hEnabled = h, !.oEnabled = o, !.audited = a]
  <2>1. req' = [req EXCEPT ![r] = rec] /\ DOMAIN rec = DOMAIN Fresh
    BY <1>7 DEF IInv, RequestInv, Shape
  <2>2. /\ \A f \in {"codes", "used", "result", "granted"} : rec[f] = req[r][f]
        /\ rec.pc = to
    BY ReqFields DEF IInv, RequestInv, Shape
  <2> HIDE DEF rec
  <2> QED
    BY <1>1, <2>1, <2>2, BehindMoves
<1>8. CASE \E to \in {"reply", "done"} : req' = [req EXCEPT ![r].pc = to]
  BY <1>4, <1>8
<1>9. CASE \E a : req' = [req EXCEPT ![r].pc = "reply", ![r].audited = a]
  BY <1>6, <1>9
<1>10. CASE \E to \in {"record", "reply"} : \E h, o, a :
             req' = [req EXCEPT ![r].pc = to, ![r].hEnabled = h, ![r].oEnabled = o, ![r].audited = a]
  BY <1>7, <1>10
<1> QED
  BY <1>2, <1>3, <1>5, <1>8, <1>9, <1>10

LEMMA TakesGranted ==
    ASSUME IInv, NEW r \in Reqs, NEW e, NEW kind, Takes(r, e, kind)
    PROVE  req'[r].granted = req[r].granted
<1> DEFINE to == After(Request(r), e)
           rec == [req[r] EXCEPT !.pc = to, !.used = kind, !.codes = e.codes, !.result = e.result]
<1>1. req' = [req EXCEPT ![r] = rec]
  BY DEF Takes, IInv, RequestInv, Shape
<1> HIDE DEF to
<1>2. rec.granted = req[r].granted
  BY ReqFields DEF IInv, RequestInv, Shape
<1> HIDE DEF rec
<1> QED
  BY <1>1, <1>2 DEF IInv, RequestInv, Shape

(* The handler, and the listings in pages.                                 *)
LEMMA CallMoves ==
    ASSUME IInv, LoneInv, NEW r \in Reqs, Call(r), Elsewhere
    PROVE  HeldGrows /\ LoneInv' /\ \A q \in Reqs : Moves(q)
<1>0. PICK kind : kind = state.conf.keys
  OBVIOUS
<1> DEFINE x == CallOf(r, state.conf)
           name == Request(r).resource.name
<1>1. /\ req[r].pc = "handler" /\ kind \in UsedKinds
      /\ UNCHANGED <<setup, confVars, durable>> /\ doomed \subseteq doomed'
      /\ x.keys = store[kind] /\ x.q = Request(r)
      /\ \E e \in Handler(x) :
           /\ Calls(r, e, kind) /\ Truthful(x, e)
           /\ name \in Names \/ e.put = Keep
  BY <1>0, CallLeads
<1> HIDE DEF x
<1>2. PICK e \in Handler(x) : /\ Calls(r, e, kind) /\ Truthful(x, e)
                              /\ name \in Names \/ e.put = Keep
  BY <1>1
<1>3. ASSUME Put(kind, name, e.put)
      PROVE  HeldGrows /\ LoneInv'
  <2>1. /\ e.put = Nothing => <<kind, name>> \in doomed'
        /\ e.put \notin {Keep, Nothing} => store[kind][name] = Nothing
    BY <1>1, <1>2 DEF Truthful, Calls, Doomed
  <2> QED
    BY <1>1, <1>2, <1>3, <2>1, PutLone
<1>4. CASE Panics(r) /\ Put(kind, name, e.put)
  BY <1>1, <1>3, <1>4, PanicMoves DEF Called
<1>5. CASE Takes(r, e, kind) /\ Put(kind, name, e.put)
  <2>1. /\ Others(r) /\ req'[r].used = kind /\ req'[r].codes = e.codes /\ req'[r].result = e.result
        /\ req'[r].pc \in {"log", "audit", "stream", "reply"}
    BY <1>1, <1>5, TakesFacts
  <2>2. req'[r].granted = req[r].granted
    BY <1>5, TakesGranted
  <2>3. Reads(r)
    BY <1>0, <1>1, <2>1, <2>2 DEF Reads, Same, x
  <2> QED
    BY <1>3, <1>5, <2>1, <2>3, OneMoves DEF Moves
<1>6. CASE /\ Unwritten(kind, e) /\ UNCHANGED <<store, held>>
           /\ req' = [req EXCEPT ![r].pc = "write", ![r].used = kind, ![r].effect = e]
  <2> DEFINE rec == [req[r] EXCEPT !.pc = "write", !.used = kind, !.effect = e]
  <2>1. req' = [req EXCEPT ![r] = rec] /\ DOMAIN rec = DOMAIN Fresh
    BY <1>6 DEF IInv, RequestInv, Shape
  <2>2. rec.pc = "write" /\ rec.codes = req[r].codes /\ rec.granted = req[r].granted
    BY ReqFields DEF IInv, RequestInv, Shape
  <2> HIDE DEF rec
  <2>3. req[r].codes = <<>> /\ <<>> # <<200>>
    BY <1>1 DEF IInv, RequestInv, Progress
  <2>4. \A q \in Reqs : Moves(q)
    BY <1>1, <2>1, <2>2, <2>3, BlankMoves
  <2> QED
    BY <1>1, <1>6, <2>4, SameHeld
<1> QED
  BY <1>2, <1>4, <1>5, <1>6 DEF Calls

LEMMA WriteMoves ==
    ASSUME IInv, DInv, LoneInv, NEW r \in Reqs, Write(r), Elsewhere
    PROVE  HeldGrows /\ LoneInv' /\ \A q \in Reqs : Moves(q)
<1>0. PICK kind, name, put :
         kind = req[r].used /\ name = Request(r).resource.name /\ put = req[r].effect.put
  OBVIOUS
<1>1. /\ req[r].pc = "write" /\ UNCHANGED <<setup, confVars, durable, doomed>>
      /\ \E e : Takes(r, e, kind)
      /\ Put(kind, name, put) \/ UNCHANGED <<store, held>>
  BY <1>0 DEF Write
<1>2. /\ Request(r).api \in Creators /\ kind \in ChecksFirst /\ put \notin {Keep, Nothing}
      /\ kind \in UsedKinds /\ name \in Names
  <2>1. Creating(r) /\ Writes(r)
    BY DEF DInv, KeyInv, IInv, RequestInv
  <2> QED
    BY <1>0, <1>1, <2>1 DEF Creating, Writes, Plausible, validName
<1>3. HeldGrows /\ LoneInv'
  BY <1>1, <1>2, PutLone, SameHeld
<1>4. Others(r) /\ req'[r].granted = req[r].granted
  BY <1>1, TakesFacts, TakesGranted
<1>5. Ends(r)
  BY <1>1, <1>2, <1>4 DEF Ends, Same, Creators, Sealers
<1> QED
  BY <1>3, <1>4, <1>5, OneMoves DEF Moves

LEMMA PageMoves ==
    ASSUME IInv, NEW r \in Reqs, CallPaged(r) \/ NextPage(r) \/ PageCanceled(r), Elsewhere
    PROVE  \A q \in Reqs : Moves(q)
<1>1. UNCHANGED <<setup, confVars>>
  BY DEF CallPaged, NextPage, PageCanceled
<1>2. CASE CallPaged(r)
  <2> DEFINE kind == state.conf.keys
             rec == [req[r] EXCEPT !.pc = "page", !.used = kind]
  <2>1. /\ req[r].pc = "handler" /\ req' = [req EXCEPT ![r] = rec] /\ DOMAIN rec = DOMAIN Fresh
    BY <1>2 DEF CallPaged, IInv, RequestInv, Shape
  <2>2. rec.pc = "page" /\ rec.codes = req[r].codes /\ rec.granted = req[r].granted
    BY ReqFields DEF IInv, RequestInv, Shape
  <2> HIDE DEF rec
  <2>3. req[r].codes = <<>> /\ <<>> # <<200>>
    BY <2>1 DEF IInv, RequestInv, Progress
  <2> QED
    BY <1>1, <2>1, <2>2, <2>3, BlankMoves
<1>3. CASE NextPage(r) \/ PageCanceled(r)
  <2>1. /\ req[r].pc = "page"
        /\ \/ \E page : req' = [req EXCEPT ![r].page = page]
           \/ \E e : Takes(r, e, req[r].used)
    BY <1>3 DEF NextPage, PageCanceled
  <2>2. ASSUME NEW page, req' = [req EXCEPT ![r].page = page]
        PROVE  \A q \in Reqs : Moves(q)
    <3> DEFINE rec == [req[r] EXCEPT !.page = page]
    <3>1. req' = [req EXCEPT ![r] = rec] /\ DOMAIN rec = DOMAIN Fresh
      BY <2>2 DEF IInv, RequestInv, Shape
    <3>2. \A f \in {"codes", "used", "result", "granted", "pc"} : rec[f] = req[r][f]
      BY ReqFields DEF IInv, RequestInv, Shape
    <3> HIDE DEF rec
    <3> QED
      BY <1>1, <2>1, <3>1, <3>2, BehindMoves
  <2>3. ASSUME NEW e, Takes(r, e, req[r].used)
        PROVE  \A q \in Reqs : Moves(q)
    <3>1. Others(r) /\ req'[r].granted = req[r].granted
      BY <1>1, <2>3, TakesFacts, TakesGranted
    <3>2. Ends(r)
      BY <2>1, <3>1 DEF Ends, Same, Sealers, IInv, RequestInv, Progress
    <3> QED
      BY <3>1, <3>2, OneMoves DEF Moves
  <2> QED
    BY <2>1, <2>2, <2>3
<1> QED
  BY <1>2, <1>3

(* Steps of nobody's request.                                              *)
LEMMA NotedMoves ==
    ASSUME IInv,
           req' = req \/ (\E conf : Announce(conf)) \/ (\E on \in BOOLEAN : StillAudited(on))
    PROVE  \A q \in Reqs : Moves(q)
<1>1. CASE req' = req
  BY <1>1 DEF Moves, Keeps, Same
<1>2. ASSUME NEW q \in Reqs, NEW f \in {"seen", "audited"}, NEW v, req'[q] = [req[q] EXCEPT ![f] = v]
      PROVE  Moves(q)
  BY <1>2, ReqFields DEF IInv, RequestInv, Shape, Moves, Keeps, Same
<1>3. ASSUME NEW conf, Announce(conf), NEW q \in Reqs
      PROVE  Moves(q)
  <2> DEFINE v == req[q].seen \cup {conf}
  <2>1. req'[q] = [req[q] EXCEPT !["seen"] = v]
    BY <1>3 DEF Announce
  <2> QED
    BY <1>2, <2>1
<1>4. ASSUME NEW on \in BOOLEAN, StillAudited(on), NEW q \in Reqs
      PROVE  Moves(q)
  <2> DEFINE v == req[q].audited /\ on
  <2>1. req'[q] = [req[q] EXCEPT !["audited"] = v]
    BY <1>4 DEF StillAudited
  <2> QED
    BY <1>2, <2>1
<1> QED
  BY <1>1, <1>3, <1>4

(* The predefined keys.                                                    *)
LEMMA PredefineLone ==
    ASSUME IInv, MissingInv, LoneInv, Predefine \/ PredefineWrite
    PROVE  HeldGrows /\ LoneInv' /\ (req' = req \/ Announce(target))
<1>1. target.keys \in UsedKinds /\ target.predefined \subseteq Names
  BY DEF IInv, UpdateInv, Proposed, IsConf
<1>2. \A n : PredefinedKey(target, n) \notin {Keep, Nothing}
  BY FormsDiffer DEF PredefinedKey
<1>3. ASSUME NEW n \in Names, NEW v, Put(target.keys, n, v), setup' = setup,
             doomed' = IF v = Nothing THEN doomed \cup {<< target.keys, n >>} ELSE doomed,
             v \notin {Keep, Nothing} => store[target.keys][n] = Nothing \/ target.keys \in ChecksFirst
      PROVE  HeldGrows /\ LoneInv'
  BY <1>1, <1>3, PutLone
<1>4. CASE Predefine
  <2>1. setup' = setup /\ (req' = req \/ Announce(target))
    BY <1>4 DEF Predefine, PredefineFails
  <2>2. \/ UNCHANGED <<store, held, doomed>>
        \/ UNCHANGED doomed /\ \E n : createPredefinedKeys(target, {n})
        \/ \E n \in target.predefined : \E v :
             /\ Put(target.keys, n, v)
             /\ doomed' = IF v = Nothing THEN doomed \cup {<<target.keys, n>>} ELSE doomed
             /\ v \notin {Keep, Nothing} => store[target.keys][n] = Nothing
    BY <1>4 DEF Predefine, FailedCreate
  <2> QED
    BY <1>1, <1>3, <2>1, <2>2, SameHeld, PredefinedLone
<1>5. CASE PredefineWrite
  <2>1. /\ UNCHANGED <<setup, doomed, req>> /\ missing # Empty
        /\ \E v : Put(target.keys, missing, v) /\ v # Nothing
    BY <1>2, <1>5, FormsDiffer DEF PredefineWrite, PredefineFails
  <2>2. missing \in Names /\ target.keys \in ChecksFirst
    BY <2>1 DEF MissingInv
  <2> QED
    BY <1>3, <2>1, <2>2
<1> QED
  BY <1>4, <1>5

LEMMA UpdateMoves ==
    ASSUME IInv, MissingInv, LoneInv, Start \/ UpdateStep
    PROVE  HeldGrows /\ LoneInv' /\ \A q \in Reqs : Moves(q)
<1>1. CASE Predefine \/ PredefineWrite
  BY <1>1, PredefineLone, NotedMoves
<1>2. ~(Predefine \/ PredefineWrite) => UNCHANGED <<setup, doomed>>
  BY DEF Start, UpdateStep, ReloadRead, ReloadConnect, UpdateCall, UpdateBegin, UpdateAudit,
         StoreTLS, StoreState, StoreHandler, SetLevels, Dies, requestVars, keyVars
<1>3. ~(Predefine \/ PredefineWrite) =>
          \/ UNCHANGED <<store, held>>
          \/ createPredefinedKeys(state.conf, state.conf.predefined)
  BY DEF Start, UpdateStep, ReloadRead, ReloadConnect, UpdateCall, UpdateBegin, UpdateAudit,
         StoreTLS, StoreState, StoreHandler, SetLevels, Dies, requestVars, keyVars
<1>4. ~(Predefine \/ PredefineWrite) => HeldGrows /\ LoneInv'
  BY <1>2, <1>3, KindInForce, SameHeld, PredefinedLone
<1>5. ASSUME ~(Predefine \/ PredefineWrite)
      PROVE  req' = req \/ (\E conf : Announce(conf)) \/ (\E on \in BOOLEAN : StillAudited(on))
  <2>1. CASE UpdateAudit
    <3>1. req' = req \/ StillAudited(HandlerEnabled(target.audit))
      BY <2>1 DEF UpdateAudit
    <3>2. HandlerEnabled(target.audit) \in BOOLEAN
      BY DEF HandlerEnabled
    <3> QED
      BY <3>1, <3>2
  <2>2. CASE SetLevels
    <3> DEFINE on == state.conf.levels.audit <= LevelInfo
    <3>1. StillAudited(on)
      BY <2>2 DEF SetLevels
    <3>2. on \in BOOLEAN
      BY DEF IInv, ConfInv, Proposed, IsConf, LevelInfo
    <3> HIDE DEF on
    <3> QED
      BY <3>1, <3>2
  <2>3. CASE UpdateBegin
    BY <2>3 DEF UpdateBegin
  <2>4. CASE \/ Start \/ ReloadRead \/ ReloadConnect \/ UpdateCall \/ StoreTLS \/ StoreState
             \/ StoreHandler
    BY <2>4 DEF Start, ReloadRead, ReloadConnect, UpdateCall, StoreTLS, StoreState, StoreHandler, Dies,
                requestVars
  <2> QED
    BY <1>5, <2>1, <2>2, <2>3, <2>4 DEF UpdateStep
<1> QED
  BY <1>1, <1>4, <1>5, NotedMoves

LEMMA NextMoves ==
    ASSUME IInv, MissingInv, DInv, LoneInv, [Next]_vars
    PROVE  HeldGrows /\ LoneInv' /\ \A q \in Reqs : Moves(q)
<1>1. ASSUME UNCHANGED <<setup, keyVars>>
      PROVE  HeldGrows /\ LoneInv'
  BY <1>1, SameHeld DEF keyVars
<1>2. ASSUME NEW r \in Reqs, Elsewhere,
             Handshake(r) \/ Arrive(r) \/ ClientLeaves(r) \/ HandleRequest(r)
      PROVE  HeldGrows /\ LoneInv' /\ \A q \in Reqs : Moves(q)
  <2>1. CASE Call(r) \/ Write(r)
    BY <1>2, <2>1, CallMoves, WriteMoves
  <2>2. CASE Reply(r)
    <3>1. HeldGrows /\ LoneInv'
      BY <2>2, SameHeld DEF Reply
    <3> QED
      BY <1>2, <2>2, <3>1, ServeMoves
  <2>3. CASE Handshake(r) \/ Arrive(r)
    <3>1. UNCHANGED <<setup, keyVars>>
      BY <2>3 DEF Handshake, Arrive
    <3> QED
      BY <1>1, <1>2, <2>3, <3>1, ConnectMoves
  <2>4. CASE CheckMethod(r) \/ SetTimeout(r) \/ AuthenticateRequest(r)
    <3>1. UNCHANGED <<setup, keyVars>>
      BY <2>4 DEF CheckMethod, SetTimeout, AuthenticateRequest
    <3> QED
      BY <1>1, <1>2, <2>4, <3>1, AuthenticateMoves
  <2>5. CASE CallPaged(r) \/ NextPage(r) \/ PageCanceled(r)
    <3>1. UNCHANGED <<setup, keyVars>>
      BY <2>5 DEF CallPaged, NextPage, PageCanceled
    <3> QED
      BY <1>1, <1>2, <2>5, <3>1, PageMoves
  <2>6. CASE LogError(r) \/ AuditEnabled(r) \/ AuditHandle(r) \/ Unsubscribe(r) \/ ClientLeaves(r)
    <3>1. UNCHANGED <<setup, keyVars>>
      BY <2>6 DEF LogError, AuditEnabled, AuditHandle, Unsubscribe, ClientLeaves
    <3> QED
      BY <1>1, <1>2, <2>6, <3>1, ServeMoves
  <2> QED
    BY <1>2, <2>1, <2>2, <2>3, <2>4, <2>5, <2>6 DEF HandleRequest
<1>3. ASSUME EditFile \/ Signal \/ TickRead \/ TickUpdate \/ UNCHANGED vars
      PROVE  HeldGrows /\ LoneInv' /\ \A q \in Reqs : Moves(q)
  <2>1. UNCHANGED <<setup, keyVars, req>>
    BY <1>3 DEF EditFile, Signal, TickRead, TickUpdate, Dies, requestVars, vars
  <2> QED
    BY <1>1, <2>1, NotedMoves
<1> QED
  BY <1>2, <1>3, UpdateMoves DEF Next, RequestStep, Elsewhere

-----------------------------------------------------------------------------
(* The ciphertext that a request is given.                                 *)
LEMMA GivenFacts ==
    ASSUME IInv, NEW r \in Reqs, Request(r).api = "decryptKey"
    PROVE  \/ Body(r).of = 0 /\ IsCiphertext(Body(r).ciphertext, Body(r).source)
           \/ /\ Body(r).of \in Reqs /\ Body(r).of > 0 /\ Body(r).of # 0
              /\ Request(Body(r).of).api \in Sealers
<1>1. setup \in Scenarios
  BY DEF IInv, ConfInv
<1>2. Len(setup.requests) \in Nat
  BY <1>1, ScenarioFacts
<1>3. \/ Body(r).of = 0 /\ IsCiphertext(Body(r).ciphertext, Body(r).source)
      \/ Body(r).of \in Reqs /\ Request(Body(r).of).api \in Sealers
  BY <1>1, CiphertextsAssumption DEF Body, Request, Reqs, Sealers
<1> QED
  BY <1>2, <1>3 DEF Reqs

(* What was sealed before is sealed as its source says.                    *)
LEMMA SourceSealed ==
    ASSUME NEW c, NEW source, IsCiphertext(c, source)
    PROVE  /\ WellSealed(c) /\ SecretOf(SealedPart(c)) = SecretOf(source.key)
           /\ SealedPart(c).context = source.context /\ SealedPart(c).plaintext = source.plaintext
<1> DEFINE s == Parts(c)[1]
           i == Parts(c)[2]
           o == Parts(c)[3]
<1>1. s = Seal(source.key, i, o, source.context, source.plaintext)
  BY DEF IsCiphertext
<1> HIDE DEF s, i, o
<1>2. /\ s.bytes = source.key.bytes /\ s.cipher = source.key.cipher /\ s.context = source.context
      /\ s.plaintext = source.plaintext
  BY <1>1 DEF Seal
<1>3. s = Seal(s, i, o, s.context, s.plaintext)
  BY <1>1, <1>2 DEF Seal
<1> QED
  BY <1>2, <1>3 DEF WellSealed, SealedPart, SecretOf, IsCiphertext, s, i, o

LEMMA CiphertextSealed ==
    ASSUME IInv, CInv, NEW r \in Reqs, Request(r).api = "decryptKey", req[r].granted
    PROVE  LET c == Ciphertext(r)
           IN  /\ WellSealed(c) /\ SecretOf(SealedPart(c)) \in Source(r).secrets
               /\ SealedPart(c).context = Source(r).context
               /\ SealedPart(c).plaintext = Source(r).plaintext
<1> DEFINE of == Body(r).of
<1>1. CASE of = 0 /\ IsCiphertext(Body(r).ciphertext, Body(r).source)
  <2>1. ~(of > 0)
    BY <1>1
  <2>2. Source(r) = [plaintext |-> Body(r).source.plaintext, context |-> Body(r).source.context,
                     secrets |-> {SecretOf(Body(r).source.key)}]
    BY <2>1 DEF Source, Body
  <2>3. Ciphertext(r) = Body(r).ciphertext
    BY <1>1 DEF Ciphertext, Body
  <2> QED
    BY <1>1, <2>2, <2>3, SourceSealed
<1>2. CASE of \in Reqs /\ of > 0 /\ of # 0 /\ Request(of).api \in Sealers
  <2>1. req[of].codes = <<200>>
    BY <1>2 DEF CInv, HasInv, Answered
  <2>2. Source(r) = [plaintext |-> req[of].result.plaintext, context |-> req[of].result.context,
                     secrets |-> Secrets(req[of].used, Request(of).resource.name)]
    BY <1>2 DEF Source, Body
  <2>3. Ciphertext(r) = req[of].result.ciphertext
    BY <1>2 DEF Ciphertext, Body
  <2> QED
    BY <1>2, <2>1, <2>2, <2>3 DEF CInv, SealInv
<1> QED
  BY <1>1, <1>2, GivenFacts

(* An answer stays as it is, and so do the ciphertexts that clients have.  *)
LEMMA AnsweredStays ==
    ASSUME NEW q \in Reqs, Moves(q), Answered(q)
    PROVE  Answered(q)' /\ req'[q].result = req[q].result
BY DEF Answered, Moves, Keeps, Blank, Reads, Ends, Same

LEMMA CiphertextStays ==
    ASSUME IInv, CInv, setup' = setup, \A q \in Reqs : Moves(q), NEW r \in Reqs,
           Request(r).api = "decryptKey", req[r].granted
    PROVE  Ciphertext(r)' = Ciphertext(r)
<1>1. Request(r)' = Request(r)
  BY SameScenario
<1>2. CASE Body(r).of = 0
  BY <1>1, <1>2 DEF Ciphertext, Body
<1>3. CASE Body(r).of \in Reqs /\ Body(r).of > 0 /\ Body(r).of # 0
  <2>1. Answered(Body(r).of)
    BY <1>3 DEF CInv, HasInv
  <2>2. req'[Body(r).of].result = req[Body(r).of].result
    BY <1>3, <2>1, AnsweredStays
  <2> QED
    BY <1>1, <1>3, <2>2 DEF Ciphertext, Body
<1> QED
  BY <1>2, <1>3, GivenFacts

LEMMA HasNext ==
    ASSUME IInv, CInv, setup' = setup, \A q \in Reqs : Moves(q), NEW r \in Reqs
    PROVE  HasInv(r)'
<1>0. PICK of : of = Body(r).of
  OBVIOUS
<1> SUFFICES ASSUME Request(r).api = "decryptKey", of > 0,
                    req'[r].pc = "routed" \/ req'[r].granted
             PROVE  Answered(of)'
  BY <1>0, SameScenario DEF HasInv, Body, Answered
<1>1. of \in Reqs
  BY <1>0, GivenFacts
<1>2. (req[r].pc = "routed" \/ req[r].granted) \/ Answered(of)
  <2>1. CASE Keeps(r)
    BY <1>0, <2>1 DEF Keeps, Same
  <2>2. CASE Blank(r)
    BY <2>2 DEF Blank
  <2>3. CASE Reads(r) \/ Ends(r)
    BY <2>3 DEF Reads, Ends, IInv, RequestInv, Progress, Called
  <2> QED
    BY <2>1, <2>2, <2>3 DEF Moves
<1>3. Answered(of)
  BY <1>0, <1>2 DEF CInv, HasInv
<1> QED
  BY <1>1, <1>3, AnsweredStays

(* A handler that was answered has used a key store of the scenario.       *)
LEMMA UsedOne ==
    ASSUME IInv, NEW r \in Reqs, req[r].granted, req[r].codes # << >>
    PROVE  req[r].used \in UsedKinds
BY DEF IInv, RequestInv, Progress, Decided, Early, Called

(* Get finds secret keys that the name has stood for.                      *)
LEMMA GetsSecret ==
    ASSUME NEW r, NEW conf, NEW v, Gets(CallOf(r, conf), v)
    PROVE  SecretOf(ParseKeyVersion(v).key) \in Secrets(conf.keys, Request(r).resource.name)
<1>1. CallOf(r, conf).held = held[conf.keys] /\ CallOf(r, conf).q = Request(r)
  BY DEF CallOf
<1> QED
  BY <1>1 DEF Gets, Secrets

LEMMA SealNext ==
    ASSUME IInv, CInv, HeldGrows, NEW r \in Reqs, Moves(r)
    PROVE  SealInv(r)'
<1>0. PICK name : name = Request(r).resource.name
  OBVIOUS
<1>1. Request(r)' = Request(r) /\ Progress(r) /\ SealInv(r)
  BY SameScenario DEF HeldGrows, IInv, RequestInv, CInv
<1>2. validName(Request(r).resource) => name \in Names
  BY <1>0 DEF validName
<1>3. CASE Keeps(r)
  <2>0. PICK kind : kind = req[r].used
    OBVIOUS
  <2>1. /\ req'[r].codes = req[r].codes /\ req'[r].used = req[r].used
        /\ req'[r].result = req[r].result /\ req'[r].granted = req[r].granted
    BY <1>3 DEF Keeps, Same
  <2> SUFFICES ASSUME req[r].codes = << 200 >>
               PROVE  SealInv(r)'
    BY <2>1 DEF SealInv
  <2>2. req[r].granted /\ kind \in UsedKinds
    <3>1. <<200>> # <<>>
      OBVIOUS
    <3> QED
      BY <1>1, <2>0, <3>1, UsedOne DEF SealInv
  <2>3. name \in Names => Secrets(kind, name) \subseteq Secrets(kind, name)'
    BY <2>2, SecretsGrow
  <2>4. ASSUME Request(r).api \in Sealers
        PROVE  LET c == req[r].result.ciphertext
               IN  /\ validName(Request(r).resource)
                   /\ c.form = "raw" /\ WellSealed(c)
                   /\ SealedPart(c).context = req[r].result.context
                   /\ SealedPart(c).plaintext = req[r].result.plaintext
                   /\ SecretOf(SealedPart(c)) \in Secrets(kind, name)'
    BY <1>0, <1>1, <1>2, <2>0, <2>3, <2>4 DEF SealInv
  <2> QED
    BY <1>0, <1>1, <2>0, <2>1, <2>2, <2>4 DEF SealInv, WellSealed, SealedPart, Parts, validName, Secrets
<1>4. CASE Blank(r)
  BY <1>4 DEF Blank, SealInv
<1>5. CASE Ends(r)
  BY <1>1, <1>5 DEF Ends, Same, SealInv, Progress, Called, Sealers
<1>6. CASE Reads(r)
  <2> DEFINE x == CallOf(r, state.conf)
  <2>0. PICK kind : kind = state.conf.keys
    OBVIOUS
  <2>1. PICK e \in Handler(x) : req'[r].used = kind /\ req'[r].codes = e.codes /\ req'[r].result = e.result
    BY <1>6, <2>0 DEF Reads
  <2>2. req'[r].granted
    BY <1>1, <1>6 DEF Reads, Same, Progress, Called
  <2> SUFFICES ASSUME e.codes = << 200 >>, Request(r).api \in Sealers
               PROVE  LET c == e.result.ciphertext
                      IN  /\ validName(Request(r).resource)
                          /\ c.form = "raw" /\ WellSealed(c)
                          /\ SealedPart(c).context = e.result.context
                          /\ SealedPart(c).plaintext = e.result.plaintext
                          /\ SecretOf(SealedPart(c)) \in Secrets(kind, name)'
    BY <1>0, <1>1, <2>1, <2>2 DEF SealInv, WellSealed, SealedPart, Parts, validName, Secrets
  <2>3. x.q = Request(r)
    BY CallFacts
  <2>4. e \in encryptKey(x) \cup generateKey(x)
    BY <2>3 DEF Handler, Sealers
  <2>5. PICK v, plaintext :
           /\ Gets(x, v)
           /\ e.result.plaintext = plaintext /\ e.result.context = x.q.body.context
           /\ e.result.ciphertext = Encrypt(ParseKeyVersion(v).key, x.random, x.q.body.context, plaintext)
    BY <2>4, EncryptAnswers
  <2>6. validName(Request(r).resource) /\ name \in Names
    BY <1>2, <2>3, <2>4, EncryptAnswers
  <2>7. SecretOf(ParseKeyVersion(v).key) \in Secrets(kind, name)
    BY <1>0, <2>0, <2>5, GetsSecret
  <2>8. kind \in UsedKinds
    BY <2>0, KindInForce
  <2>9. Secrets(kind, name) \subseteq Secrets(kind, name)'
    BY <2>6, <2>8, SecretsGrow
  <2> HIDE DEF x
  <2> QED
    BY <2>5, <2>6, <2>7, <2>9, EncryptSeals
<1> QED
  BY <1>3, <1>4, <1>5, <1>6 DEF Moves

(* TripInv of an answer, given the secret keys its name has stood for.      *)
TripAnswer(r, codes, result, c, mine) ==
    /\ codes = <<200>> =>
        /\ validName(Request(r).resource)
        /\ SealedPart(c).context = Body(r).context /\ SealedPart(c).plaintext = result.plaintext
        /\ SecretOf(SealedPart(c)) \in mine
    /\ /\ codes = <<400>> /\ validName(Request(r).resource) /\ Body(r).sent /\ Body(r).valid
       /\ SealedPart(c).context = Body(r).context /\ Readable(c)
       => \E t \in mine : t # SecretOf(SealedPart(c))

LEMMA DecryptTrip ==
    ASSUME IInv, CInv, NEW r \in Reqs, Request(r).api = "decryptKey", req[r].granted,
           NEW conf, NEW e \in decryptKey(CallOf(r, conf))
    PROVE  TripAnswer(r, e.codes, e.result, Ciphertext(r),
                      Secrets(conf.keys, Request(r).resource.name))
<1> DEFINE x == CallOf(r, conf)
           c == Ciphertext(r)
           mine == Secrets(conf.keys, Request(r).resource.name)
<1>1. x.q = Request(r) /\ x.q.body = Body(r) /\ x.cipher = c
  BY DEF CallOf, Body
<1>2. WellSealed(c)
  BY CiphertextSealed
<1>3. \A v : Gets(x, v) => SecretOf(ParseKeyVersion(v).key) \in mine
  BY GetsSecret
<1>4. /\ e.codes = <<200>> =>
           /\ validName(x.q.resource) /\ e.result.plaintext = Decrypt(x.cipher)
           /\ \E v : Gets(x, v) /\ Decrypts(ParseKeyVersion(v).key, x.cipher, x.q.body.context)
      /\ e.codes = <<400>> /\ validName(x.q.resource) /\ x.q.body.sent /\ x.q.body.valid =>
           \E v : Gets(x, v) /\ ~Decrypts(ParseKeyVersion(v).key, x.cipher, x.q.body.context)
  BY DecryptAnswers
<1> HIDE DEF x, c, mine
<1>5. ASSUME e.codes = << 200 >>
      PROVE  /\ validName(Request(r).resource)
             /\ SealedPart(c).context = Body(r).context /\ SealedPart(c).plaintext = e.result.plaintext
             /\ SecretOf(SealedPart(c)) \in mine
  <2>1. PICK v : Gets(x, v) /\ Decrypts(ParseKeyVersion(v).key, c, Body(r).context)
    BY <1>1, <1>4, <1>5
  <2> QED
    BY <1>1, <1>2, <1>3, <1>4, <1>5, <2>1, OpensSealed
<1>6. ASSUME e.codes = << 400 >>, validName(Request(r).resource), Body(r).sent, Body(r).valid,
             SealedPart(c).context = Body(r).context, Readable(c)
      PROVE  \E t \in mine : t # SecretOf(SealedPart(c))
  <2>1. PICK v : Gets(x, v) /\ ~Decrypts(ParseKeyVersion(v).key, c, Body(r).context)
    BY <1>1, <1>4, <1>6
  <2> QED
    BY <1>2, <1>3, <1>6, <2>1, OpensSealed
<1> QED
  BY <1>5, <1>6 DEF TripAnswer, c, mine

LEMMA TripNext ==
    ASSUME IInv, CInv, HeldGrows, \A q \in Reqs : Moves(q), NEW r \in Reqs
    PROVE  TripInv(r)'
<1>0. PICK name, c : name = Request(r).resource.name /\ c = Ciphertext(r)
  OBVIOUS
<1>1. Request(r)' = Request(r) /\ Progress(r) /\ TripInv(r) /\ setup' = setup
  BY SameScenario DEF HeldGrows, IInv, RequestInv, CInv
<1>2. ASSUME Request(r).api = "decryptKey", NEW kind \in UsedKinds, NEW codes, NEW result,
             TripAnswer(r, codes, result, c, Secrets(kind, name))
      PROVE  TripAnswer(r, codes, result, c, Secrets(kind, name)')
  <2>1. validName(Request(r).resource) => Secrets(kind, name) \subseteq Secrets(kind, name)'
    BY <1>0, SecretsGrow DEF validName
  <2> QED
    BY <1>2, <2>1 DEF TripAnswer
<1>3. ASSUME Request(r).api = "decryptKey", req[r].granted, NEW kind, req'[r].used = kind,
             TripAnswer(r, req'[r].codes, req'[r].result, c, Secrets(kind, name)')
      PROVE  TripInv(r)'
  <2>1. Ciphertext(r)' = c
    BY <1>0, <1>1, <1>3, CiphertextStays
  <2> QED
    BY <1>0, <1>1, <1>3, <2>1 DEF TripInv, TripAnswer, Body, SealedPart, Parts, Readable, Secrets, validName
<1> SUFFICES ASSUME Request(r).api = "decryptKey", req'[r].granted
             PROVE  TripInv(r)'
  BY <1>1 DEF TripInv
<1>4. <<>> # <<200>> /\ <<>> # <<400>>
  OBVIOUS
<1>5. CASE Keeps(r)
  <2>0. PICK kind : kind = req[r].used
    OBVIOUS
  <2>1. /\ req'[r].codes = req[r].codes /\ req'[r].used = kind
        /\ req'[r].result = req[r].result /\ req[r].granted
    BY <1>5, <2>0 DEF Keeps, Same
  <2>2. TripAnswer(r, req[r].codes, req[r].result, c, Secrets(kind, name))
    BY <1>0, <1>1, <2>0, <2>1 DEF TripInv, TripAnswer
  <2>3. TripAnswer(r, req[r].codes, req[r].result, c, Secrets(kind, name)')
    <3>1. CASE req[r].codes = <<>>
      BY <1>4, <3>1 DEF TripAnswer
    <3>2. CASE req[r].codes # <<>>
      <4>1. kind \in UsedKinds
        BY <2>0, <2>1, <3>2, UsedOne
      <4> QED
        BY <1>2, <2>2, <4>1
    <3> QED
      BY <3>1, <3>2
  <2> QED
    BY <1>3, <2>1, <2>3
<1>6. CASE Blank(r)
  <2>1. req'[r].codes = <<>>
    BY <1>6 DEF Blank
  <2> QED
    BY <1>4, <2>1 DEF TripInv
<1>7. CASE Ends(r)
  BY <1>7 DEF Ends
<1>8. CASE Reads(r)
  <2>0. PICK kind : kind = state.conf.keys
    OBVIOUS
  <2>1. PICK e \in Handler(CallOf(r, state.conf)) :
           req'[r].used = kind /\ req'[r].codes = e.codes /\ req'[r].result = e.result
    BY <1>8, <2>0 DEF Reads
  <2>2. req[r].granted
    BY <1>8 DEF Reads, Same
  <2>3. e \in decryptKey(CallOf(r, state.conf))
    BY CallFacts DEF Handler
  <2>4. TripAnswer(r, e.codes, e.result, c, Secrets(kind, name))
    BY <1>0, <2>0, <2>2, <2>3, DecryptTrip
  <2>5. kind \in UsedKinds
    BY <2>0, KindInForce
  <2> QED
    BY <1>2, <1>3, <2>1, <2>2, <2>4, <2>5
<1> QED
  BY <1>5, <1>6, <1>7, <1>8 DEF Moves

LEMMA NextCInv ==
    ASSUME IInv, MissingInv, DInv, CInv, [Next]_vars
    PROVE  CInv'
<1>1. HeldGrows /\ LoneInv' /\ \A q \in Reqs : Moves(q)
  BY NextMoves DEF CInv
<1>2. Reqs' = Reqs /\ setup' = setup
  BY <1>1, SameScenario DEF HeldGrows
<1> QED
  BY <1>1, <1>2, SealNext, HasNext, TripNext DEF CInv

LEMMA InitCInv ==
    ASSUME Init
    PROVE  CInv
<1>1. /\ req = [r \in Reqs |-> Fresh]
      /\ held = [k \in UsedKinds |-> [n \in Names |-> {store[k][n]} \ {Nothing}]]
  BY DEF Init, InitRequests
<1>2. LoneInv
  BY <1>1 DEF LoneInv
<1>3. Fresh.pc = "new" /\ Fresh.granted = FALSE /\ Fresh.codes = <<>> /\ <<>> # <<200>>
  BY DEF Fresh
<1>4. \A r \in Reqs : SealInv(r) /\ HasInv(r) /\ TripInv(r)
  BY <1>1, <1>3 DEF SealInv, HasInv, TripInv
<1> QED
  BY <1>2, <1>4 DEF CInv

-----------------------------------------------------------------------------
(* What is known of the ciphertexts, and of the secret keys that each name *)
(* has stood for, is invariant, for every set of scenarios.                *)
THEOREM CiphertextsInvariance == Spec => []CInv
<1>1. Init => CInv
  BY InitCInv
<1>2. IInv /\ MissingInv /\ DInv /\ CInv /\ [Next]_vars => CInv'
  BY NextCInv
<1> QED
  BY <1>1, <1>2, Invariance, KeysInvariance, PTL DEF Spec

(* What encryptKey and generateKey sealed, or a ciphertext of earlier in   *)
(* one of the three formats of internal/crypto, comes back from decryptKey *)
(* under the same secret key and context, and nothing else does; and it is *)
(* not refused while its name stands for that key, whatever is created,    *)
(* deleted and reconfigured meanwhile (RoundTrip).                         *)
THEOREM Decryption == Spec => []RoundTrip
<1>1. IInv /\ CInv => RoundTrip
  <2> SUFFICES ASSUME IInv, CInv, NEW r \in Reqs, req[r].pc = "done",
                      Request(r).api = "decryptKey", req[r].granted
               PROVE  LET body == Request(r).body
                          name == Request(r).resource.name
                          mine == Secrets(req[r].used, name)
                          same == Source(r).context = body.context
                      IN  /\ Answered(r) =>
                              /\ same /\ req[r].result.plaintext = Source(r).plaintext
                              /\ mine \cap Source(r).secrets # {}
                          /\ /\ validName(Request(r).resource) /\ body.sent /\ body.valid
                             /\ req[r].codes = <<400>> /\ OneKey(req[r].used, name)
                             => ~(same /\ Readable(Ciphertext(r)) /\ mine = Source(r).secrets)
    BY Zenon DEF RoundTrip
  <2> DEFINE c == Ciphertext(r)
             s == SealedPart(c)
             name == Request(r).resource.name
             mine == Secrets(req[r].used, name)
  <2>1. /\ s.context = Source(r).context /\ s.plaintext = Source(r).plaintext
        /\ SecretOf(s) \in Source(r).secrets
    BY CiphertextSealed
  <2>2. TripInv(r)
    BY DEF CInv
  <2>3. ASSUME Answered(r)
        PROVE  /\ Source(r).context = Body(r).context
               /\ req[r].result.plaintext = Source(r).plaintext
               /\ mine \cap Source(r).secrets # {}
    BY <2>1, <2>2, <2>3 DEF TripInv, Answered
  <2>4. ASSUME validName(Request(r).resource), Body(r).sent, Body(r).valid,
               req[r].codes = << 400 >>, OneKey(req[r].used, name),
               Source(r).context = Body(r).context, Readable(c), mine = Source(r).secrets
        PROVE  FALSE
    <3>1. PICK t \in mine : t # SecretOf(s)
      BY <2>1, <2>2, <2>4 DEF TripInv
    <3>2. SecretOf(s) \in mine
      BY <2>1, <2>4
    <3>3. req[r].used \in UsedKinds /\ name \in Names
      <4>1. <<400>> # <<>>
        OBVIOUS
      <4> QED
        BY <2>4, <4>1, UsedOne DEF validName
    <3>4. \A u, v \in mine : u = v
      <4>1. CASE req[r].used \notin ChecksFirst /\ <<req[r].used, name>> \notin doomed
        <5>1. held[req[r].used][name] \subseteq {store[req[r].used][name]}
          BY <3>3, <4>1 DEF CInv, LoneInv
        <5> QED
          BY <5>1 DEF Secrets
      <4> QED
        BY <2>4, <4>1 DEF OneKey
    <3> QED
      BY <3>1, <3>2, <3>4
  <2> QED
    BY <2>3, <2>4 DEF Body
<1> QED
  BY <1>1, Invariance, CiphertextsInvariance, PTL
=============================================================================
