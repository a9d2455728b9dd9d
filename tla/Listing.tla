------------------------------ MODULE Listing -------------------------------
(***************************************************************************)
(* How the key stores list key names.                                      *)
(*                                                                         *)
(* A name is its rank among all names in lexicographic order, so that the  *)
(* names that start with some name are an interval of ranks, and a sorted  *)
(* slice of names is a set of ranks.  A listing is                         *)
(*   names   the names it returns                                          *)
(*   blanks  how many empty names it returns besides                       *)
(*   next    where to continue, Empty at the end of the listing            *)
(***************************************************************************)
EXTENDS Integers, FiniteSets

CONSTANTS
    MaxName,    \* bound: names are 1 .. MaxName
    LastWith,   \* the last name that starts with each name
    PageSize    \* stands for the limits N of keystore.List (1024), entrust
                \* (256), gemalto (200) and fortanix (100)

Names == 1 .. MaxName
Empty == 0            \* the empty string
Starred(n) == -n      \* "n*", which no name starts with and which comes
                      \* right behind n in the order

ASSUME NamesAssumption == MaxName \in Nat \ {0}
ASSUME PageAssumption == PageSize \in Nat \ {0}
ASSUME LastWithAssumption ==
    /\ LastWith \in [Names -> Names]
    /\ \A n \in Names : n <= LastWith[n]

(* strings.HasPrefix, for the names of a listing.                          *)
StartingWith(prefix) ==
    CASE prefix = Empty -> Names
      [] prefix < 0 -> {}
      [] OTHER -> prefix .. LastWith[prefix]

(* names[i:], names[:k] and names[k] of a sorted slice.                    *)
From(names, n) == {x \in names : IF n < 0 THEN x > -n ELSE x >= n}
First(names, k) == {x \in names : Cardinality({y \in names : y < x}) < k}
Nth(names, k) == CHOOSE x \in names : Cardinality({y \in names : y < x}) = k
Least(names) == Nth(names, 0)

Listing(names, next) == [names |-> names, blanks |-> 0, next |-> next]
Cut(names, k) == Listing(First(names, k), Nth(names, k))

-----------------------------------------------------------------------------
(* Mutant of List: the names behind the first limit are forgotten.         *)
ListNoNext(all, prefix, n) ==
    Listing(First(all \cap StartingWith(prefix), PageSize), Empty)

(***************************************************************************)
(* keystore.List, which the fs, aws, gcp, azure, vault, gemalto and        *)
(* fortanix stores apply to all names they found.  The loop over the names *)
(* stops at index stop unless a name without the prefix comes first.       *)
(***************************************************************************)
List(all, prefix, n) ==
    LET matches == all \cap StartingWith(prefix)
        names == IF prefix = Empty THEN all ELSE From(all, Least(matches))
        len == Cardinality(names)
        stop == IF n > 0 /\ n + 1 < PageSize THEN n + 1 ELSE PageSize
    IN  CASE prefix # Empty /\ matches = {} ->
                 Listing({}, Empty)
          [] prefix # Empty /\ matches # {} /\ stop < Cardinality(matches) ->
                 IF stop = len - 1 THEN Listing(names, Empty) ELSE Cut(names, stop)
          [] prefix # Empty /\ matches # {} /\ Cardinality(matches) <= stop /\ matches # names ->
                 Listing(matches, Empty)
          [] OTHER ->
                 IF (n <= 0 /\ len <= PageSize) \/ len <= n THEN Listing(names, Empty)
                 ELSE Cut(names, IF n <= 0 THEN PageSize ELSE n)

(* MemKeyStore.List.                                                       *)
MemList(all, prefix, n) ==
    LET matches == all \cap StartingWith(prefix)
    IN  CASE n = 0 -> Listing({}, prefix)
          [] n # 0 /\ (n < 0 \/ Cardinality(matches) <= n) -> Listing(matches, Empty)
          [] OTHER -> Cut(matches, n)

(* KeyControl.List: one page of secrets from the prefix on, with or        *)
(* without the prefix, appended to as many empty names.  The secrets do    *)
(* not expire.                                                             *)
EntrustList(all, prefix, n) ==
    LET rest == From(all, prefix)
        size == IF n <= 0 THEN PageSize ELSE n
        page == First(rest, size)
    IN  [names |-> page,
         blanks |-> Cardinality(page),
         next |-> IF page = rest THEN Empty ELSE Least(rest \ page)]

-----------------------------------------------------------------------------
(* What the key manager answers to one request of gemalto's and fortanix's *)
(* loops: the page behind the first skip keys, the page from start on.     *)
SkipPage(all, skip) == First(all \ First(all, skip), PageSize)
StartPage(all, start) == First(From(all, start), PageSize)

(* Mutant of GemaltoRound: the offset is not moved on.                     *)
GemaltoRoundStuck(all, so) ==
    [names |-> so.names \cup SkipPage(all, so.skip), skip |-> so.skip,
     last |-> so.skip >= Cardinality(all)]

(* One round of gemalto's loop: the names and the number of keys so far,   *)
(* and whether it was the last one, which it is once nothing but the keys  *)
(* already seen was skipped to the total.                                  *)
GemaltoRound(all, so) ==
    LET page == SkipPage(all, so.skip)
    IN  [names |-> so.names \cup page,
         skip |-> so.skip + Cardinality(page),
         last |-> so.skip >= Cardinality(all)]

(* One round of fortanix's loop, which always starts at the prefix.        *)
FortanixRound(all, prefix, so) ==
    LET page == StartPage(all, prefix)
    IN  [names |-> so.names \cup page, skip |-> 0, last |-> page = {}]
=============================================================================
