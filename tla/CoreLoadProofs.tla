-------------------------- MODULE CoreLoadProofs ---------------------------
(***************************************************************************)
(* Proofs about CoreLoad, for any files and contents, earlier loads, runs, *)
(* numbers of workers, box players and changes of the cache.               *)
(*                                                                         *)
(* The properties are not inductive: that the rows of a loaded page are in *)
(* the tables rests on every call of the page having been made, on what    *)
(* the open transaction has written and on what rolling back to the        *)
(* savepoint leaves.  IInv says that of every control point of a run; a    *)
(* step of another run only adds rows to what it sees (Frame).  What a     *)
(* page loads is told from its calls, and what a list of pages leaves from *)
(* the trace of the tables between them.                                   *)
(*                                                                         *)
(* The attributes need more.  AInv, for runs that overlap: what is written *)
(* of a name or number was given by a page of its run or by a call of the  *)
(* page in hand; the lock on a written row keeps the others out, and so a  *)
(* fallback never follows a name.  SerialInv, while runs do not overlap:   *)
(* the tables are Replay(log), and what the one run in progress sees is    *)
(* those tables after the pages it has loaded (After) and the calls it has *)
(* done of the page in hand (Expected).                                    *)
(***************************************************************************)
EXTENDS CoreLoad, FiniteSetTheorems, WellFoundedInduction, TLAPS

Attributes == {"teams", "players", "player_team_seasons"}

(* A page that passes the gates: every row is of its team or a total.       *)
IsLoadable(e) ==
  /\ IsParsed(e) /\ e.team # NONE
  /\ \A n \in DOMAIN e.rows : is_aggregate(e.rows[n]) \/ e.rows[n].team = e.team

USE DEF is_aggregate

IsCall(e, n, c) == n \in 0..Len(e.rows) /\ c \in 1..Len(Gets(e, n))

(* A list is the function of its elements. *)
LEMMA ListShape ==
  ASSUME NEW s, IsList(s)
  PROVE  Len(s) \in Nat /\ DOMAIN s = 1..Len(s) /\ s = [i \in 1..Len(s) |-> s[i]]
BY DEF IsList

(* The calls of the page itself.                                            *)
LEMMA PageCalls ==
  ASSUME NEW e
  PROVE  /\ Len(PageGets(e)) = 4
         /\ \A c \in 1..4 :
              PageGets(e)[c] = IF c = 1 THEN Get(SeasonKey(e.year), NONE)
                               ELSE IF c = 2 THEN Get(TeamKey(e.team), e.name)
                               ELSE IF c = 3 THEN Get(AliasKey(e.team, e.year), e.name)
                               ELSE Get(TeamSeasonKey(e.team, e.year), NONE)
BY DEF PageGets

NumberGiven(row) == IF row.table = "roster" THEN row.number ELSE NONE

(* The calls of a row.                                                      *)
LEMMA RowCalls ==
  ASSUME NEW e, NEW row
  PROVE  /\ is_aggregate(row) => Len(RowGets(e, row)) = 2
         /\ ~is_aggregate(row) => Len(RowGets(e, row)) = 3
         /\ \A c \in 1..3 : c # 3 \/ ~is_aggregate(row) =>
              RowGets(e, row)[c] =
                IF c = 1 THEN Get(PlayerKey(row.player), row.name)
                ELSE IF c = 2 THEN Get(PlayerSeasonKey(row.player, e.year), NONE)
                ELSE Get(StintKey(row.player, e.team, e.year), NumberGiven(row))
BY DEF RowGets, NumberGiven

(* Which calls a page makes, and for what.                                  *)
LEMMA CallsOfPage ==
  ASSUME NEW e, IsParsed(e), NEW n, NEW c
  PROVE  /\ n = 0 => (IsCall(e, n, c) <=> c \in 1..4)
         /\ n # 0 => (IsCall(e, n, c) <=> /\ n \in DOMAIN e.rows /\ c \in 1..3
                                         /\ (c # 3 \/ ~is_aggregate(e.rows[n])))
<1>1. IsList(e.rows)
  BY DEF IsParsed
<1>2. Len(e.rows) \in Nat /\ DOMAIN e.rows = 1..Len(e.rows)
  BY <1>1, ListShape
<1>3. CASE n = 0
  <2>1. Gets(e, n) = PageGets(e)
    BY <1>3 DEF Gets
  <2>2. IsCall(e, n, c) <=> n \in 0..Len(e.rows) /\ c \in 1..Len(PageGets(e))
    BY <2>1 DEF IsCall
  <2>3. c \in 1..Len(PageGets(e)) <=> c \in 1..4
    BY PageCalls
  <2>4. n \in 0..Len(e.rows)
    BY <1>2, <1>3
  <2> QED BY <2>2, <2>3, <2>4, <1>3
<1>4. CASE n # 0
  <2>1. Gets(e, n) = RowGets(e, e.rows[n])
    BY <1>4 DEF Gets
  <2>2. IsCall(e, n, c) <=> n \in 0..Len(e.rows) /\ c \in 1..Len(RowGets(e, e.rows[n]))
    BY <2>1 DEF IsCall
  <2>3. c \in 1..Len(RowGets(e, e.rows[n])) <=> c \in 1..3 /\ (c # 3 \/ ~is_aggregate(e.rows[n]))
    <3>1. CASE is_aggregate(e.rows[n])
      <4>1. Len(RowGets(e, e.rows[n])) = 2
        BY <3>1, RowCalls
      <4> QED BY <3>1, <4>1
    <3>2. CASE ~is_aggregate(e.rows[n])
      <4>1. Len(RowGets(e, e.rows[n])) = 3
        BY <3>2, RowCalls
      <4> QED BY <3>2, <4>1
    <3> QED BY <3>1, <3>2
  <2>4. n \in 0..Len(e.rows) <=> n \in DOMAIN e.rows
    BY <1>2, <1>4
  <2>5. IsCall(e, n, c) <=> /\ n \in DOMAIN e.rows /\ c \in 1..3
                            /\ (c # 3 \/ ~is_aggregate(e.rows[n]))
    BY <2>2, <2>3, <2>4
  <2> QED BY <2>5, <1>4
<1> QED BY <1>3, <1>4

(* What each call is for. *)
LEMMA CallShape ==
  ASSUME NEW e, IsParsed(e), NEW n, NEW c, IsCall(e, n, c)
  PROVE  \/ n = 0 /\ c = 1 /\ Gets(e, n)[c] = Get(SeasonKey(e.year), NONE)
         \/ n = 0 /\ c = 2 /\ Gets(e, n)[c] = Get(TeamKey(e.team), e.name)
         \/ n = 0 /\ c = 3 /\ Gets(e, n)[c] = Get(AliasKey(e.team, e.year), e.name)
         \/ n = 0 /\ c = 4 /\ Gets(e, n)[c] = Get(TeamSeasonKey(e.team, e.year), NONE)
         \/ /\ n # 0 /\ n \in DOMAIN e.rows
            /\ \/ c = 1 /\ Gets(e, n)[c] = Get(PlayerKey(e.rows[n].player), e.rows[n].name)
               \/ c = 2 /\ Gets(e, n)[c] = Get(PlayerSeasonKey(e.rows[n].player, e.year), NONE)
               \/ /\ c = 3 /\ ~is_aggregate(e.rows[n])
                  /\ Gets(e, n)[c] = Get(StintKey(e.rows[n].player, e.team, e.year),
                                        NumberGiven(e.rows[n]))
<1>1. CASE n = 0
  <2>1. Gets(e, n)[c] = PageGets(e)[c] /\ c \in 1..4
    BY <1>1, CallsOfPage DEF Gets
  <2> QED BY <1>1, <2>1, PageCalls
<1>2. CASE n # 0
  <2>1. Gets(e, n)[c] = RowGets(e, e.rows[n])[c]
    BY <1>2 DEF Gets
  <2>2. n \in DOMAIN e.rows /\ c \in 1..3 /\ (c # 3 \/ ~is_aggregate(e.rows[n]))
    <3>1. n # 0 => (IsCall(e, n, c) <=> /\ n \in DOMAIN e.rows /\ c \in 1..3
                                         /\ (c # 3 \/ ~is_aggregate(e.rows[n])))
      BY CallsOfPage
    <3> QED BY <1>2, <3>1
  <2> QED BY <1>2, <2>1, <2>2, RowCalls
<1> QED BY <1>1, <1>2

(* The calls of a page are for its rows. *)
LEMMA CalledKeys ==
  ASSUME NEW e, IsLoadable(e), NEW k
  PROVE  k \in KeysOf(e) <=> \E n, c : IsCall(e, n, c) /\ Gets(e, n)[c].key = k
<1>1. e.team # NONE /\ IsParsed(e) /\ IsList(e.rows)
  BY DEF IsLoadable, IsParsed
<1>2. Len(e.rows) \in Nat /\ DOMAIN e.rows = 1..Len(e.rows)
  BY <1>1, ListShape
<1> DEFINE R == DOMAIN e.rows
<1>3. k \in KeysOf(e) <=>
        \/ \E i \in R : k = PlayerKey(e.rows[i].player)
        \/ k \in {SeasonKey(e.year), TeamKey(e.team), AliasKey(e.team, e.year),
                  TeamSeasonKey(e.team, e.year)}
        \/ \E i \in R : k = PlayerSeasonKey(e.rows[i].player, e.year)
        \/ \E i \in R : ~is_aggregate(e.rows[i])
                        /\ k = StintKey(e.rows[i].player, e.team, e.year)
  BY <1>1 DEF KeysOf
<1>4. ASSUME NEW n, NEW c, IsCall(e, n, c), Gets(e, n)[c].key = k
      PROVE  k \in KeysOf(e)
  <2>1. \/ k \in {SeasonKey(e.year), TeamKey(e.team), AliasKey(e.team, e.year),
                  TeamSeasonKey(e.team, e.year)}
        \/ /\ n \in R
           /\ \/ k = PlayerKey(e.rows[n].player) \/ k = PlayerSeasonKey(e.rows[n].player, e.year)
              \/ ~is_aggregate(e.rows[n]) /\ k = StintKey(e.rows[n].player, e.team, e.year)
    <3>1. \A key, given : Get(key, given).key = key
      BY DEF Get
    <3> QED BY <1>1, <1>4, <3>1, CallShape
  <2> QED BY <1>3, <2>1
<1>5. ASSUME k \in KeysOf(e)
      PROVE  \E n, c : IsCall(e, n, c) /\ Gets(e, n)[c].key = k
  <2>1. CASE k \in {SeasonKey(e.year), TeamKey(e.team), AliasKey(e.team, e.year),
                    TeamSeasonKey(e.team, e.year)}
    <3>1. PICK n : n = 0
      OBVIOUS
    <3>2. \A c \in 1..4 : IsCall(e, n, c) /\ Gets(e, n)[c] = PageGets(e)[c]
      BY <1>1, <3>1, CallsOfPage DEF Gets
    <3>3. \E c \in 1..4 : PageGets(e)[c].key = k
      BY <2>1 DEF PageGets, Get
    <3> QED BY <3>2, <3>3
  <2>2. ASSUME NEW i \in R, NEW c \in 1..3, c # 3 \/ ~is_aggregate(e.rows[i])
        PROVE  IsCall(e, i, c) /\ Gets(e, i)[c] = RowGets(e, e.rows[i])[c]
    <3>1. i # 0
      BY <1>2
    <3> QED BY <1>1, <2>2, <3>1, CallsOfPage DEF Gets
  <2>3. ASSUME NEW i \in R,
               \/ k = PlayerKey(e.rows[i].player)
               \/ k = PlayerSeasonKey(e.rows[i].player, e.year)
               \/ ~is_aggregate(e.rows[i]) /\ k = StintKey(e.rows[i].player, e.team, e.year)
        PROVE  \E c \in 1..3 : (c # 3 \/ ~is_aggregate(e.rows[i]))
                               /\ RowGets(e, e.rows[i])[c].key = k
    BY <2>3 DEF RowGets, Get
  <2> QED BY <1>3, <1>5, <2>1, <2>2, <2>3
<1> QED BY <1>4, <1>5

(* Which row of the tables a key names. *)
LEMMA KeyShape ==
  ASSUME NEW e, NEW k \in KeysOf(e)
  PROVE  /\ k[1] = "teams" => k = TeamKey(e.team) /\ e.team # NONE
         /\ k[1] = "players" => k = PlayerKey(k[3])
         /\ k[1] = "player_team_seasons" => k = StintKey(k[3], e.team, e.year)
         /\ k[1] = "team_aliases" => k = AliasKey(e.team, e.year) /\ k[2] = e.team
                                     /\ TeamKey(k[2]) \in KeysOf(e)
BY DEF KeysOf, PlayerKey, SeasonKey, TeamKey, AliasKey, TeamSeasonKey, PlayerSeasonKey, StintKey, Key

(* Every name and number of a page is given by a call.                      *)
LEMMA CalledGiven ==
  ASSUME NEW e, IsLoadable(e), NEW k, NEW v \in GivenBy(e, k), v # NONE
  PROVE  \E n, c : IsCall(e, n, c) /\ Gets(e, n)[c] = Get(k, v)
<1>1. IsParsed(e) /\ k \in KeysOf(e) /\ IsList(e.rows)
  BY DEF IsLoadable, GivenBy, IsParsed
<1>2. ASSUME NEW i \in DOMAIN e.rows, NEW c \in 1..3, c # 3 \/ ~is_aggregate(e.rows[i])
      PROVE  IsCall(e, i, c) /\ Gets(e, i)[c] = RowGets(e, e.rows[i])[c]
  <2>1. i # 0
    BY <1>1, ListShape
  <2> QED BY <1>1, <1>2, <2>1, CallsOfPage DEF Gets
<1>5. CASE k[1] = "teams"
  <2>1. v = e.name /\ k = TeamKey(e.team)
    BY <1>1, <1>5, KeyShape DEF GivenBy
  <2>2. PICK n : n = 0
    OBVIOUS
  <2>3. IsCall(e, n, 2) /\ Gets(e, n)[2] = PageGets(e)[2]
    BY <1>1, <2>2, CallsOfPage DEF Gets
  <2> QED BY <2>1, <2>3, PageCalls
<1>6. CASE k[1] = "players"
  <2>1. PICK i \in Naming(e, k[3]) : v = e.rows[i].name
    BY <1>1, <1>6 DEF GivenBy
  <2>2. i \in DOMAIN e.rows /\ e.rows[i].player = k[3]
    BY DEF Naming
  <2>3. RowGets(e, e.rows[i])[1] = Get(k, v)
    BY <1>1, <1>6, <2>1, <2>2, KeyShape, RowCalls
  <2> QED BY <1>2, <2>2, <2>3
<1>7. CASE k[1] = "player_team_seasons"
  <2>1. PICK i \in Numbering(e, k[3]) : v = e.rows[i].number
    BY <1>1, <1>7 DEF GivenBy
  <2>2. i \in DOMAIN e.rows /\ e.rows[i].player = k[3] /\ ~is_aggregate(e.rows[i])
        /\ e.rows[i].table = "roster"
    BY DEF Numbering
  <2>3. RowGets(e, e.rows[i])[3] = Get(k, v)
    BY <1>1, <1>7, <2>1, <2>2, KeyShape, RowCalls DEF NumberGiven
  <2> QED BY <1>2, <2>2, <2>3
<1> QED BY <1>1, <1>5, <1>6, <1>7 DEF GivenBy

(* And a call gives what the page has.                                      *)
LEMMA GivenIsCalled ==
  ASSUME NEW e, IsLoadable(e), NEW n, NEW c, IsCall(e, n, c),
         Gets(e, n)[c].given # NONE, Gets(e, n)[c].key[1] \in Attributes
  PROVE  Gets(e, n)[c].given \in GivenBy(e, Gets(e, n)[c].key)
<1> DEFINE k == Gets(e, n)[c].key
           v == Gets(e, n)[c].given
<1>1. IsParsed(e) /\ k \in KeysOf(e)
  BY CalledKeys DEF IsLoadable
<1>2. \/ k = TeamKey(e.team) /\ v = e.name
      \/ n \in DOMAIN e.rows /\ k = PlayerKey(e.rows[n].player) /\ v = e.rows[n].name
      \/ /\ n \in DOMAIN e.rows /\ ~is_aggregate(e.rows[n])
         /\ k = StintKey(e.rows[n].player, e.team, e.year) /\ v = NumberGiven(e.rows[n])
  <2>1. \A key, given : Get(key, given).key = key /\ Get(key, given).given = given
    BY DEF Get
  <2>2. k[1] \in Attributes => k # SeasonKey(e.year) /\ k # AliasKey(e.team, e.year)
                              /\ k # TeamSeasonKey(e.team, e.year)
    BY DEF Attributes, SeasonKey, AliasKey, TeamSeasonKey, Key
  <2> QED BY <1>1, <2>1, <2>2, CallShape
<1>3. CASE k = TeamKey(e.team) /\ v = e.name
  BY <1>1, <1>3 DEF GivenBy, TeamKey, Key
<1>4. CASE n \in DOMAIN e.rows /\ k = PlayerKey(e.rows[n].player) /\ v = e.rows[n].name
  <2>1. n \in Naming(e, k[3]) /\ k[1] = "players"
    BY <1>4 DEF Naming, PlayerKey, Key
  <2> QED BY <1>1, <1>4, <2>1 DEF GivenBy
<1>5. CASE /\ n \in DOMAIN e.rows /\ ~is_aggregate(e.rows[n])
           /\ k = StintKey(e.rows[n].player, e.team, e.year) /\ v = NumberGiven(e.rows[n])
  <2>1. v = e.rows[n].number
    BY <1>5 DEF NumberGiven
  <2>2. n \in Numbering(e, k[3]) /\ k[1] = "player_team_seasons"
    BY <1>5 DEF Numbering, StintKey, Key, NumberGiven
  <2> QED BY <1>1, <2>1, <2>2 DEF GivenBy
<1> QED BY <1>2, <1>3, <1>4, <1>5

-----------------------------------------------------------------------------
(* Loading a page, row by row.                                              *)

(* The page of which only the first n rows are loaded.                      *)
Prefix(e, n) ==
  [team |-> e.team, year |-> e.year, name |-> e.name, rows |-> [i \in 1..n |-> e.rows[i]]]

(* A page of which all rows are loaded is loaded.                           *)
LEMMA WholePrefix ==
  ASSUME NEW t, NEW e, IsParsed(e)
  PROVE  Loaded(t, Prefix(e, Len(e.rows))) = Loaded(t, e)
<1>1. IsList(e.rows)
  BY DEF IsParsed
<1>2. [i \in 1..Len(e.rows) |-> e.rows[i]] = e.rows
  BY <1>1, ListShape
<1> DEFINE p == Prefix(e, Len(e.rows))
<1>3. p.team = e.team /\ p.year = e.year /\ p.name = e.name /\ p.rows = e.rows
  BY <1>2 DEF Prefix
<1> HIDE DEF p
<1>4. KeysOf(p) = KeysOf(e)
  BY <1>3 DEF KeysOf
<1>5. \A q : NameOf(p, q) = NameOf(e, q) /\ NumberOf(p, q) = NumberOf(e, q)
  BY <1>3 DEF NameOf, NumberOf, Naming, Numbering
<1>6. \A k : NameGiven(t, p, k) = NameGiven(t, e, k)
  BY <1>3, <1>5 DEF NameGiven
<1> QED BY <1>4, <1>5, <1>6 DEF Loaded, p

(* The least number of a set that is not empty.                             *)
LEMMA FirstIsFirst ==
  ASSUME NEW S \in SUBSET Nat, S # {}
  PROVE  First(S) \in S /\ \A m \in S : First(S) <= m
<1> DEFINE Less == OpToRel(<, Nat)
<1>1. \A i, j \in Nat : j < i => <<j, i>> \in Less
  BY DEF OpToRel
<1>2. IsWellFoundedOn(Less, Nat)
  BY NatLessThanWellFounded
<1> HIDE DEF Less
<1>3. PICK n \in S : \A m \in S : ~(<<m, n>> \in Less)
  BY <1>2, WFMin
<1>4. \A m \in S : m \in Nat /\ n \in Nat /\ ~(m < n)
  BY <1>1, <1>3
<1>5. \A m \in S : n <= m
  BY <1>4
<1> QED BY <1>5 DEF First

(* The largest number of a bounded set that is not empty.                   *)
LEMMA FinalIsLast ==
  ASSUME NEW S \in SUBSET Nat, S # {}, NEW n \in Nat, \A m \in S : m <= n
  PROVE  Final(S) \in S
<1> DEFINE B == {x \in Nat : \A m \in S : m <= x}
           b == First(B)
<1>1. b \in B /\ \A x \in B : b <= x
  BY FirstIsFirst
<1>2. b \in Nat /\ \A m \in S : m <= b /\ m \in Nat
  BY <1>1
<1>3. b \in S
  <2> SUFFICES ASSUME b \notin S PROVE FALSE
    OBVIOUS
  <2>1. PICK m \in S : TRUE
    OBVIOUS
  <2>2. \A x \in S : x <= b - 1
    <3> SUFFICES ASSUME NEW x \in S PROVE x <= b - 1
      OBVIOUS
    <3>1. x \in Nat /\ x <= b /\ x # b
      BY <1>2
    <3> HIDE DEF b
    <3> QED BY <1>2, <3>1
  <2>3. b - 1 \in Nat
    <3> HIDE DEF b
    <3> QED BY <1>2, <2>1, <2>2
  <2>4. b <= b - 1
    BY <1>1, <2>2, <2>3
  <2> HIDE DEF b
  <2> QED BY <1>2, <2>4
<1>4. \A m \in S : b >= m
  <2> HIDE DEF b
  <2> QED BY <1>2
<1> HIDE DEF b
<1> QED BY <1>3, <1>4 DEF Final

(* One more number, larger than all.                                        *)
LEMMA FirstOfMore ==
  ASSUME NEW S \in SUBSET Nat, NEW n \in Nat, \A m \in S : m < n
  PROVE  /\ S # {} => First(S \union {n}) = First(S)
         /\ First({n}) = n
         /\ Final(S \union {n}) = n
<1>1. First({n}) = n
  <2>1. First({n}) \in {n}
    BY FirstIsFirst
  <2> QED BY <2>1
<1>2. ASSUME S # {} PROVE First(S \union {n}) = First(S)
  <2> DEFINE T == S \union {n}
  <2>1. First(S) \in S /\ \A m \in S : First(S) <= m
    BY <1>2, FirstIsFirst
  <2>2. First(T) \in T /\ \A m \in T : First(T) <= m
    BY FirstIsFirst
  <2>3. /\ First(S) \in T /\ First(S) \in Nat /\ First(S) < n
        /\ First(T) \in Nat /\ First(T) \in S \union {n}
    BY <2>1, <2>2
  <2> HIDE DEF T
  <2>4. First(T) <= First(S)
    BY <2>2, <2>3
  <2>5. First(T) \in S
    BY <2>3, <2>4
  <2>6. First(S) <= First(T)
    BY <2>1, <2>5
  <2> QED BY <2>3, <2>4, <2>6 DEF T
<1>3. Final(S \union {n}) = n
  <2> DEFINE T == S \union {n}
  <2>1. n \in T /\ \A m \in T : n >= m
    OBVIOUS
  <2>2. Final(T) \in T /\ \A m \in T : Final(T) >= m
    BY <2>1 DEF Final
  <2>3. Final(T) \in Nat
    BY <2>2
  <2> HIDE DEF T
  <2>4. Final(T) >= n /\ n >= Final(T)
    BY <2>1, <2>2
  <2> QED BY <2>3, <2>4 DEF T
<1> QED BY <1>1, <1>2, <1>3

(* A row more: what it adds to the names and numbers of its page.           *)
LEMMA OneMoreRow ==
  ASSUME NEW e, IsLoadable(e), NEW n \in DOMAIN e.rows
  PROVE  LET f == Prefix(e, n)
             g == Prefix(e, n - 1)
             row == e.rows[n]
         IN  /\ KeysOf(f) = KeysOf(g) \union {PlayerKey(row.player), PlayerSeasonKey(row.player, e.year)}
                              \union IF is_aggregate(row) THEN {}
                                     ELSE {StintKey(row.player, e.team, e.year)}
             /\ \A p : p # row.player =>
                  NameOf(f, p) = NameOf(g, p) /\ NumberOf(f, p) = NumberOf(g, p)
             /\ NameOf(f, row.player) = IF NameOf(g, row.player) # NONE
                                        THEN NameOf(g, row.player) ELSE row.name
             /\ NumberOf(f, row.player) =
                  IF ~is_aggregate(row) /\ NumberGiven(row) # NONE THEN NumberGiven(row)
                  ELSE NumberOf(g, row.player)
<1> DEFINE f == Prefix(e, n)
           g == Prefix(e, n - 1)
           row == e.rows[n]
           p0 == row.player
<1>1. IsList(e.rows) /\ e.team # NONE
  BY DEF IsLoadable, IsParsed
<1>2. Len(e.rows) \in Nat /\ DOMAIN e.rows = 1..Len(e.rows)
  BY <1>1, ListShape
<1>3. n \in Nat /\ n >= 1 /\ n - 1 \in Nat /\ 1..n = (1..(n - 1)) \union {n}
      /\ \A i \in 1..(n - 1) : i < n /\ i \in Nat
  BY <1>2
<1>4. /\ f.team = e.team /\ f.year = e.year /\ DOMAIN f.rows = 1..n
      /\ g.team = e.team /\ g.year = e.year /\ DOMAIN g.rows = 1..(n - 1)
      /\ \A i \in 1..n : f.rows[i] = e.rows[i]
      /\ \A i \in 1..(n - 1) : g.rows[i] = e.rows[i]
  BY DEF Prefix
<1> HIDE DEF f, g
<1>5. KeysOf(f) = KeysOf(g) \union {PlayerKey(row.player), PlayerSeasonKey(row.player, e.year)}
                   \union IF is_aggregate(row) THEN {} ELSE {StintKey(row.player, e.team, e.year)}
  <2>1. /\ {f.rows[i].player : i \in DOMAIN f.rows}
             = {g.rows[i].player : i \in DOMAIN g.rows} \union {p0}
        /\ {f.rows[i].player : i \in {j \in DOMAIN f.rows : ~is_aggregate(f.rows[j])}}
             = {g.rows[i].player : i \in {j \in DOMAIN g.rows : ~is_aggregate(g.rows[j])}}
               \union IF is_aggregate(row) THEN {} ELSE {p0}
    <3> DEFINE A == {i \in 1..n : ~is_aggregate(f.rows[i])}
               B == {i \in 1..(n - 1) : ~is_aggregate(g.rows[i])}
    <3>1. n \in 1..n /\ f.rows[n] = row /\ \A i \in 1..(n - 1) : i \in 1..n /\ f.rows[i] = g.rows[i]
      BY <1>3, <1>4
    <3>2. A = B \union IF is_aggregate(row) THEN {} ELSE {n}
      BY <1>3, <3>1
    <3>3. {f.rows[i].player : i \in 1..n} = {g.rows[i].player : i \in 1..(n - 1)} \union {p0}
      BY <1>3, <3>1
    <3>4. \A i \in B : f.rows[i] = g.rows[i]
      BY <3>1
    <3> HIDE DEF A, B
    <3>5. {f.rows[i].player : i \in A} = {g.rows[i].player : i \in B}
                                         \union IF is_aggregate(row) THEN {} ELSE {p0}
      BY <3>1, <3>2, <3>4
    <3> QED BY <1>4, <3>3, <3>5 DEF A, B
  <2> DEFINE P(x) == {x.rows[i].player : i \in DOMAIN x.rows}
             Q(x) == {x.rows[i].player : i \in {j \in DOMAIN x.rows : ~is_aggregate(x.rows[j])}}
  <2>2. \A x : x.team = e.team /\ x.year = e.year =>
          KeysOf(x) = {PlayerKey(p) : p \in P(x)}
                      \union {SeasonKey(e.year), TeamKey(e.team),
                              AliasKey(e.team, e.year), TeamSeasonKey(e.team, e.year)}
                      \union {PlayerSeasonKey(p, e.year) : p \in P(x)}
                      \union {StintKey(p, e.team, e.year) : p \in Q(x)}
    BY <1>1 DEF KeysOf
  <2>3. P(f) = P(g) \union {p0} /\ Q(f) = Q(g) \union IF is_aggregate(row) THEN {} ELSE {p0}
    BY <2>1
  <2> HIDE DEF P, Q
  <2> QED BY <1>4, <2>2, <2>3
<1>6. \A p : /\ Naming(f, p) = Naming(g, p) \union IF p = p0 /\ row.name # NONE THEN {n} ELSE {}
             /\ Naming(g, p) \in SUBSET Nat /\ \A m \in Naming(g, p) : m < n /\ m \in 1..(n - 1)
  BY <1>3, <1>4 DEF Naming
<1>7. \A p : /\ Numbering(f, p) = Numbering(g, p) \union
                  IF p = p0 /\ ~is_aggregate(row) /\ NumberGiven(row) # NONE THEN {n} ELSE {}
             /\ Numbering(g, p) \in SUBSET Nat
             /\ \A m \in Numbering(g, p) : m < n /\ m \in 1..(n - 1)
  BY <1>3, <1>4 DEF Numbering, NumberGiven
<1>8. \A p : Naming(g, p) # {} =>
         /\ First(Naming(g, p)) \in 1..(n - 1)
         /\ e.rows[First(Naming(g, p))].name # NONE
  <2> SUFFICES ASSUME NEW p, Naming(g, p) # {}
               PROVE  /\ First(Naming(g, p)) \in 1..(n - 1)
                      /\ e.rows[First(Naming(g, p))].name # NONE
    OBVIOUS
  <2>1. First(Naming(g, p)) \in Naming(g, p)
    BY <1>6, FirstIsFirst
  <2> QED BY <1>4, <1>6, <2>1 DEF Naming
<1>9. \A m \in 1..(n - 1) : f.rows[m] = g.rows[m]
  BY <1>3, <1>4
<1>10. f.rows[n] = row
  BY <1>3, <1>4
<1>11. \A p : Numbering(g, p) # {} => Final(Numbering(g, p)) \in 1..(n - 1)
  <2> SUFFICES ASSUME NEW p, Numbering(g, p) # {}
               PROVE  Final(Numbering(g, p)) \in 1..(n - 1)
    OBVIOUS
  <2>1. \A m \in Numbering(g, p) : m <= n
    BY <1>3, <1>7
  <2>2. Final(Numbering(g, p)) \in Numbering(g, p)
    BY <1>3, <1>7, <2>1, FinalIsLast
  <2> QED BY <1>7, <2>2
<1>12. \A p : p # p0 => NameOf(f, p) = NameOf(g, p) /\ NumberOf(f, p) = NumberOf(g, p)
  <2> SUFFICES ASSUME NEW p, p # p0
               PROVE  NameOf(f, p) = NameOf(g, p) /\ NumberOf(f, p) = NumberOf(g, p)
    OBVIOUS
  <2>1. Naming(f, p) = Naming(g, p) /\ Numbering(f, p) = Numbering(g, p)
    BY <1>6, <1>7
  <2>2. Naming(g, p) # {} => First(Naming(g, p)) \in 1..(n - 1)
    BY <1>8
  <2>3. NameOf(f, p) = NameOf(g, p)
    BY <1>9, <2>1, <2>2 DEF NameOf
  <2>4. Numbering(g, p) # {} => Final(Numbering(g, p)) \in 1..(n - 1)
    BY <1>11
  <2>5. NumberOf(f, p) = NumberOf(g, p)
    BY <1>9, <2>1, <2>4 DEF NumberOf
  <2> QED BY <2>3, <2>5
<1>13. NameOf(f, p0) = IF NameOf(g, p0) # NONE THEN NameOf(g, p0) ELSE row.name
  <2>1. CASE Naming(g, p0) # {}
    <3>1. First(Naming(f, p0)) = First(Naming(g, p0)) /\ Naming(f, p0) # {}
      <4> DEFINE S == Naming(g, p0)
      <4>1. S \in SUBSET Nat /\ S # {} /\ (\A m \in S : m < n) /\ n \in Nat
            /\ (Naming(f, p0) = S \union {n} \/ Naming(f, p0) = S)
        BY <1>3, <1>6, <2>1
      <4> HIDE DEF S
      <4>2. First(S \union {n}) = First(S)
        BY <4>1, FirstOfMore
      <4> QED BY <4>1, <4>2 DEF S
    <3>2. First(Naming(g, p0)) \in 1..(n - 1) /\ e.rows[First(Naming(g, p0))].name # NONE
      BY <1>8, <2>1
    <3> QED BY <1>4, <1>9, <2>1, <3>1, <3>2 DEF NameOf
  <2>2. CASE Naming(g, p0) = {} /\ row.name # NONE
    <3>1. Naming(f, p0) = {n}
      BY <1>6, <2>2
    <3>2. First(Naming(f, p0)) = n
      BY <1>3, <3>1, FirstOfMore
    <3> QED BY <1>10, <2>2, <3>1, <3>2 DEF NameOf
  <2>3. CASE Naming(g, p0) = {} /\ row.name = NONE
    <3>1. Naming(f, p0) = {}
      BY <1>6, <2>3
    <3> QED BY <2>3, <3>1 DEF NameOf
  <2> QED BY <2>1, <2>2, <2>3
<1>14. NumberOf(f, p0) = IF ~is_aggregate(row) /\ NumberGiven(row) # NONE THEN NumberGiven(row)
                         ELSE NumberOf(g, p0)
  <2>1. CASE ~is_aggregate(row) /\ NumberGiven(row) # NONE
    <3>1. Final(Numbering(f, p0)) = n /\ Numbering(f, p0) # {}
      <4> DEFINE S == Numbering(g, p0)
      <4>1. S \in SUBSET Nat /\ (\A m \in S : m < n) /\ n \in Nat
            /\ Numbering(f, p0) = S \union {n}
        BY <1>3, <1>7, <2>1
      <4> HIDE DEF S
      <4>2. Final(S \union {n}) = n
        BY <4>1, FirstOfMore
      <4> QED BY <4>1, <4>2
    <3> QED BY <1>10, <2>1, <3>1 DEF NumberOf, NumberGiven
  <2>2. CASE ~(~is_aggregate(row) /\ NumberGiven(row) # NONE)
    <3>1. Numbering(f, p0) = Numbering(g, p0)
      BY <1>7, <2>2
    <3>2. Numbering(g, p0) # {} => Final(Numbering(g, p0)) \in 1..(n - 1)
      BY <1>11
    <3> QED BY <1>9, <2>2, <3>1, <3>2 DEF NumberOf
  <2> QED BY <2>1, <2>2
<1> QED BY <1>5, <1>12, <1>13, <1>14 DEF f, g

(* The keys of the rows of one call after the other.                        *)
GroupKeys(e, n) ==
  {PlayerKey(e.rows[n].player), PlayerSeasonKey(e.rows[n].player, e.year)}
  \union IF is_aggregate(e.rows[n]) THEN {}
         ELSE {StintKey(e.rows[n].player, e.team, e.year)}

(* The calls of one more row do what the page so far and that row say.      *)
LEMMA RowLoads ==
  ASSUME NEW t, NEW e, IsLoadable(e), NEW n \in DOMAIN e.rows
  PROVE  /\ \A k \in Keys : k \notin GroupKeys(e, n) =>
              Loaded(t, Prefix(e, n))[k] = Loaded(t, Prefix(e, n - 1))[k]
         /\ \A c : IsCall(e, n, c) =>
              LET get == Gets(e, n)[c]
              IN  get.key \in Keys =>
                    Loaded(t, Prefix(e, n))[get.key] =
                      Stored(get.key, get.given, Loaded(t, Prefix(e, n - 1))[get.key])
<1> DEFINE f == Prefix(e, n)
           g == Prefix(e, n - 1)
           row == e.rows[n]
           p0 == row.player
           F == Loaded(t, f)
           G == Loaded(t, g)
           OldName(k) == NameGiven(t, g, k)
<1>0. IsParsed(e) /\ IsList(e.rows)
  BY DEF IsLoadable, IsParsed
<1>1. /\ KeysOf(f) = KeysOf(g) \union GroupKeys(e, n)
      /\ \A p : p # p0 => NameOf(f, p) = NameOf(g, p) /\ NumberOf(f, p) = NumberOf(g, p)
      /\ NameOf(f, p0) = IF NameOf(g, p0) # NONE THEN NameOf(g, p0) ELSE row.name
      /\ NumberOf(f, p0) = IF ~is_aggregate(row) /\ NumberGiven(row) # NONE THEN NumberGiven(row)
                           ELSE NumberOf(g, p0)
  BY OneMoreRow DEF GroupKeys
<1>2. f.name = g.name /\ f.team = e.team /\ f.year = e.year /\ f.name = e.name /\ g.team = e.team
      /\ g.year = e.year
  BY DEF Prefix
<1>3. row.name \notin {Absent, Bare} /\ NumberGiven(row) \notin {Absent, Bare} /\ NONE \notin {Absent, Bare}
  BY <1>0, CoreLoadAssumption DEF IsParsed, NumberGiven
<1> HIDE DEF f, g
<1>4. \A k \in Keys : F[k] = IF k \notin KeysOf(f) THEN t[k]
        ELSE IF k[1] = "player_team_seasons"
          THEN IF NumberOf(f, k[3]) # NONE THEN NumberOf(f, k[3])
               ELSE IF t[k] = Absent THEN Bare ELSE t[k]
        ELSE IF IsNamed(t[k]) THEN t[k]
        ELSE IF NameGiven(t, f, k) = NONE THEN Bare ELSE NameGiven(t, f, k)
  BY DEF Loaded
<1>5. \A k \in Keys : G[k] = IF k \notin KeysOf(g) THEN t[k]
        ELSE IF k[1] = "player_team_seasons"
          THEN IF NumberOf(g, k[3]) # NONE THEN NumberOf(g, k[3])
               ELSE IF t[k] = Absent THEN Bare ELSE t[k]
        ELSE IF IsNamed(t[k]) THEN t[k]
        ELSE IF NameGiven(t, g, k) = NONE THEN Bare ELSE NameGiven(t, g, k)
  BY DEF Loaded
<1> HIDE DEF F, G
<1>6. ASSUME NEW k \in Keys, k \notin GroupKeys(e, n)
      PROVE  F[k] = G[k]
  <2>1. k \in KeysOf(f) <=> k \in KeysOf(g)
    BY <1>1, <1>6
  <2>2. CASE k \notin KeysOf(g)
    BY <1>4, <1>5, <2>1, <2>2
  <2>3. CASE k \in KeysOf(g) /\ k[1] = "players"
    <3>1. k = PlayerKey(k[3])
      BY <2>3, KeyShape
    <3>2. k[3] # p0
      BY <1>6, <3>1 DEF GroupKeys
    <3>3. NameGiven(t, f, k) = NameGiven(t, g, k)
      BY <1>1, <2>3, <3>2 DEF NameGiven
    <3> QED BY <1>4, <1>5, <2>1, <2>3, <3>3
  <2>4. CASE k \in KeysOf(g) /\ k[1] = "player_team_seasons"
    <3>1. k = StintKey(k[3], e.team, e.year)
      BY <1>2, <2>4, KeyShape
    <3>2. k[3] = p0 => is_aggregate(row)
      BY <1>6, <3>1 DEF GroupKeys
    <3>3. NumberOf(f, k[3]) = NumberOf(g, k[3])
      BY <1>1, <3>2
    <3> QED BY <1>4, <1>5, <2>1, <2>4, <3>3
  <2>5. CASE k \in KeysOf(g) /\ k[1] \notin {"players", "player_team_seasons"}
    <3>1. NameGiven(t, f, k) = NameGiven(t, g, k)
      BY <1>2, <2>5 DEF NameGiven
    <3> QED BY <1>4, <1>5, <2>1, <2>5, <3>1
  <2> QED BY <2>2, <2>3, <2>4, <2>5
<1>7. ASSUME NEW k \in Keys, k = PlayerKey(p0)
      PROVE  F[k] = Stored(k, row.name, G[k])
  <2>1. k \in KeysOf(f) /\ k[1] = "players" /\ k[3] = p0
    BY <1>1, <1>7 DEF GroupKeys, PlayerKey, Key
  <2>2. NameGiven(t, f, k) = NameOf(f, p0) /\ NameGiven(t, g, k) = NameOf(g, p0)
    BY <2>1 DEF NameGiven
  <2>3. F[k] = IF IsNamed(t[k]) THEN t[k] ELSE IF NameOf(f, p0) = NONE THEN Bare ELSE NameOf(f, p0)
    BY <1>4, <2>1, <2>2
  <2>4. G[k] = IF k \notin KeysOf(g) THEN t[k]
               ELSE IF IsNamed(t[k]) THEN t[k] ELSE IF NameOf(g, p0) = NONE THEN Bare ELSE NameOf(g, p0)
    BY <1>5, <2>1, <2>2
  <2>5. Stored(k, row.name, G[k]) =
          IF G[k] = Absent THEN IF row.name = NONE THEN Bare ELSE row.name
          ELSE IF row.name # NONE /\ G[k] = Bare THEN row.name ELSE G[k]
    BY <2>1 DEF Stored
  <2>6. k \notin KeysOf(g) => NameOf(g, p0) = NONE
    <3> SUFFICES ASSUME NameOf(g, p0) # NONE PROVE k \in KeysOf(g)
      OBVIOUS
    <3>1. PICK i \in Naming(g, p0) : TRUE
      BY DEF NameOf
    <3>2. i \in DOMAIN g.rows /\ g.rows[i].player = p0
      BY <3>1 DEF Naming
    <3> QED BY <1>7, <3>2 DEF KeysOf
  <2>7. NameOf(g, p0) \notin {Absent, Bare}
    <3>1. CASE Naming(g, p0) = {}
      BY <1>3, <3>1 DEF NameOf
    <3>2. CASE Naming(g, p0) # {}
      <4>1. First(Naming(g, p0)) \in Naming(g, p0)
        <5>1. \A i \in Naming(g, p0) : i \in Nat
          BY <1>0, ListShape DEF Naming, Prefix, g
        <5> QED BY <3>2, <5>1, FirstIsFirst
      <4>2. PICK i : i \in DOMAIN g.rows /\ NameOf(g, p0) = g.rows[i].name
        BY <3>2, <4>1 DEF NameOf, Naming
      <4>3. i \in DOMAIN e.rows /\ g.rows[i] = e.rows[i]
        BY <1>0, <4>2, ListShape DEF Prefix, g
      <4> QED BY <1>0, <4>2, <4>3 DEF IsParsed
    <3> QED BY <3>1, <3>2
  <2> QED BY <1>1, <1>3, <2>3, <2>4, <2>5, <2>6, <2>7 DEF IsNamed
<1>8. ASSUME NEW k \in Keys, k = PlayerSeasonKey(p0, e.year)
      PROVE  F[k] = Stored(k, NONE, G[k])
  <2>1. k \in KeysOf(f) /\ k[1] = "player_seasons"
    BY <1>1, <1>8 DEF GroupKeys, PlayerSeasonKey, Key
  <2>2. NameGiven(t, f, k) = NONE /\ NameGiven(t, g, k) = NONE
    BY <2>1 DEF NameGiven
  <2> QED BY <1>3, <1>4, <1>5, <2>1, <2>2 DEF Stored, IsNamed, Absent, Bare
<1>9. ASSUME NEW k \in Keys, k = StintKey(p0, e.team, e.year), ~is_aggregate(row)
      PROVE  F[k] = Stored(k, NumberGiven(row), G[k])
  <2>1. k \in KeysOf(f) /\ k[1] = "player_team_seasons" /\ k[3] = p0
    BY <1>1, <1>9 DEF GroupKeys, StintKey, Key
  <2>2. F[k] = IF NumberOf(f, p0) # NONE THEN NumberOf(f, p0) ELSE IF t[k] = Absent THEN Bare ELSE t[k]
    BY <1>4, <2>1
  <2>3. G[k] = IF k \notin KeysOf(g) THEN t[k]
               ELSE IF NumberOf(g, p0) # NONE THEN NumberOf(g, p0)
               ELSE IF t[k] = Absent THEN Bare ELSE t[k]
    BY <1>5, <2>1
  <2>4. Stored(k, NumberGiven(row), G[k]) =
          IF NumberGiven(row) # NONE THEN NumberGiven(row)
          ELSE IF G[k] = Absent THEN Bare ELSE G[k]
    BY <2>1 DEF Stored
  <2>5. k \notin KeysOf(g) => NumberOf(g, p0) = NONE
    <3> SUFFICES ASSUME NumberOf(g, p0) # NONE PROVE k \in KeysOf(g)
      OBVIOUS
    <3>1. PICK i \in Numbering(g, p0) : TRUE
      BY DEF NumberOf
    <3>2. i \in DOMAIN g.rows /\ g.rows[i].player = p0 /\ ~is_aggregate(g.rows[i])
      BY <3>1 DEF Numbering
    <3>3. g.team # NONE
      BY <1>2 DEF IsLoadable
    <3> QED BY <1>2, <1>9, <3>2, <3>3 DEF KeysOf
  <2>6. NumberOf(g, p0) # NONE => NumberOf(g, p0) # Absent
    <3> SUFFICES ASSUME NumberOf(g, p0) # NONE PROVE NumberOf(g, p0) # Absent
      OBVIOUS
    <3>1. Numbering(g, p0) # {}
      BY DEF NumberOf
    <3>2. Final(Numbering(g, p0)) \in Numbering(g, p0)
      <4>1. \A i \in Numbering(g, p0) : i \in Nat /\ i <= n
        BY <1>0, ListShape DEF Numbering, Prefix, g
      <4>2. n \in Nat
        BY <1>0, ListShape
      <4> QED BY <3>1, <4>1, <4>2, FinalIsLast
    <3>3. PICK i : i \in DOMAIN g.rows /\ NumberOf(g, p0) = g.rows[i].number
      BY <3>1, <3>2 DEF NumberOf, Numbering
    <3>4. i \in DOMAIN e.rows /\ g.rows[i] = e.rows[i]
      BY <1>0, <3>3, ListShape DEF Prefix, g
    <3> QED BY <1>0, <3>3, <3>4 DEF IsParsed
  <2> QED BY <1>1, <1>9, <2>2, <2>3, <2>4, <2>5, <2>6
<1>10. ASSUME NEW c, IsCall(e, n, c), Gets(e, n)[c].key \in Keys
       PROVE  F[Gets(e, n)[c].key] = Stored(Gets(e, n)[c].key, Gets(e, n)[c].given, G[Gets(e, n)[c].key])
  <2>1. \A key, given : Get(key, given).key = key /\ Get(key, given).given = given
    BY DEF Get
  <2>2. n # 0
    BY <1>0, ListShape
  <2> QED BY <1>0, <1>7, <1>8, <1>9, <1>10, <2>1, <2>2, CallShape
<1> QED BY <1>6, <1>10 DEF F, G, f, g

-----------------------------------------------------------------------------
(* Loading a page.                                                          *)

IsTable(t) == t = [k \in Keys |-> t[k]] /\ \A k \in Keys : t[k] # Clean

Empty == [k \in Keys |-> Absent]

(* What a page names is a name, what it numbers a number.                   *)
LEMMA PageValues ==
  ASSUME NEW e, IsParsed(e), NEW p
  PROVE  /\ NameOf(e, p) \notin {Absent, Bare, Clean}
         /\ NumberOf(e, p) \notin {Absent, Bare, Clean}
         /\ NameOf(e, p) # NONE => NameOf(e, p) \in {e.rows[n].name : n \in Naming(e, p)}
         /\ NumberOf(e, p) # NONE => NumberOf(e, p) \in {e.rows[n].number : n \in Numbering(e, p)}
         /\ NameOf(e, p) = NONE <=> Naming(e, p) = {}
         /\ NumberOf(e, p) = NONE <=> Numbering(e, p) = {}
<1>1. NONE \notin {Absent, Bare, Clean}
  BY CoreLoadAssumption
<1>2. Len(e.rows) \in Nat /\ DOMAIN e.rows = 1..Len(e.rows)
  BY ListShape DEF IsParsed
<1>3. \A n \in DOMAIN e.rows : e.rows[n].name \notin {Absent, Bare, Clean}
                               /\ e.rows[n].number \notin {Absent, Bare, Clean}
  BY DEF IsParsed
<1>4. ASSUME Naming(e, p) # {}
      PROVE  First(Naming(e, p)) \in Naming(e, p)
  <2>1. Naming(e, p) \in SUBSET Nat
    BY <1>2 DEF Naming
  <2> QED BY <1>4, <2>1, FirstIsFirst
<1>5. ASSUME Numbering(e, p) # {}
      PROVE  Final(Numbering(e, p)) \in Numbering(e, p)
  <2>1. Numbering(e, p) \in SUBSET Nat /\ \A m \in Numbering(e, p) : m <= Len(e.rows)
    BY <1>2 DEF Numbering
  <2> QED BY <1>2, <1>5, <2>1, FinalIsLast
<1>6. /\ \A n \in Naming(e, p) : n \in DOMAIN e.rows /\ e.rows[n].name # NONE
      /\ \A n \in Numbering(e, p) : n \in DOMAIN e.rows /\ e.rows[n].number # NONE
  BY DEF Naming, Numbering
<1>7. /\ NameOf(e, p) \notin {Absent, Bare, Clean}
      /\ NameOf(e, p) # NONE => NameOf(e, p) \in {e.rows[n].name : n \in Naming(e, p)}
      /\ NameOf(e, p) = NONE <=> Naming(e, p) = {}
  BY <1>1, <1>3, <1>4, <1>6 DEF NameOf
<1>8. /\ NumberOf(e, p) \notin {Absent, Bare, Clean}
      /\ NumberOf(e, p) # NONE => NumberOf(e, p) \in {e.rows[n].number : n \in Numbering(e, p)}
      /\ NumberOf(e, p) = NONE <=> Numbering(e, p) = {}
  BY <1>1, <1>3, <1>5, <1>6 DEF NumberOf
<1> QED BY <1>7, <1>8

(* Loading a page adds its rows, and nothing else, and replaces no name by  *)
(* a fallback.                                                              *)
LEMMA LoadedFacts ==
  ASSUME NEW t, IsTable(t), NEW e, IsParsed(e), KeysOf(e) \subseteq Keys
  PROVE  /\ IsTable(Loaded(t, e))
         /\ \A k \in Keys :
              /\ Loaded(t, e)[k] # Absent <=> t[k] # Absent \/ k \in KeysOf(e)
              /\ IsNamed(t[k]) => IsNamed(Loaded(t, e)[k])
              /\ k[1] \in Attributes =>
                   /\ Loaded(t, e)[k] \in {t[k], Bare} \union (GivenBy(e, k) \ {NONE})
                   /\ GivenBy(e, k) \ {NONE} # {} => IsNamed(Loaded(t, e)[k])
<1> DEFINE L == Loaded(t, e)
<1>1. /\ NONE \notin {Absent, Bare, Clean} /\ e.name \notin {Absent, Bare, Clean}
      /\ Bare # Absent /\ Bare # Clean /\ Clean # Absent
  BY CoreLoadAssumption DEF IsParsed, Absent, Bare, Clean
<1>2. \A k \in Keys : L[k] = IF k \notin KeysOf(e) THEN t[k]
        ELSE IF k[1] = "player_team_seasons"
          THEN IF NumberOf(e, k[3]) # NONE THEN NumberOf(e, k[3])
               ELSE IF t[k] = Absent THEN Bare ELSE t[k]
        ELSE IF IsNamed(t[k]) THEN t[k]
        ELSE IF NameGiven(t, e, k) = NONE THEN Bare ELSE NameGiven(t, e, k)
  BY DEF Loaded
<1>3. L = [k \in Keys |-> L[k]]
  BY DEF Loaded
<1> HIDE DEF L
<1>4. ASSUME NEW k \in KeysOf(e)
      PROVE  NameGiven(t, e, k) \notin {Absent, Bare, Clean}
  <2>1. CASE k[1] = "team_aliases" /\ e.name = NONE
    <3>1. TeamKey(k[2]) \in KeysOf(e)
      BY <2>1, KeyShape
    <3>2. t[TeamKey(k[2])] # Clean
      BY <3>1 DEF IsTable
    <3>3. k[1] # "players"
      BY <2>1
    <3> QED BY <1>1, <2>1, <3>2, <3>3 DEF NameGiven, IsNamed
  <2>2. CASE ~(k[1] = "team_aliases" /\ e.name = NONE)
    BY <1>1, <2>2, PageValues DEF NameGiven
  <2> QED BY <2>1, <2>2
<1>5. \A k \in Keys : t[k] # Clean
  BY DEF IsTable
<1>6. \A k \in Keys : NumberOf(e, k[3]) \notin {Absent, Bare, Clean}
  BY PageValues
<1>7. ASSUME NEW k \in Keys
      PROVE  /\ L[k] # Clean
             /\ L[k] # Absent <=> t[k] # Absent \/ k \in KeysOf(e)
             /\ IsNamed(t[k]) => IsNamed(L[k])
  BY <1>1, <1>2, <1>4, <1>5, <1>6 DEF IsNamed
<1>8. ASSUME NEW k \in Keys, k[1] \in Attributes
      PROVE  /\ L[k] \in {t[k], Bare} \union (GivenBy(e, k) \ {NONE})
             /\ GivenBy(e, k) \ {NONE} # {} => IsNamed(L[k])
  <2>1. CASE k \notin KeysOf(e)
    BY <1>2, <2>1 DEF GivenBy
  <2>2. CASE k \in KeysOf(e) /\ k[1] = "teams"
    <3>1. GivenBy(e, k) = {e.name} /\ NameGiven(t, e, k) = e.name
      BY <2>2 DEF GivenBy, NameGiven
    <3> QED BY <1>1, <1>2, <2>2, <3>1 DEF IsNamed
  <2>3. CASE k \in KeysOf(e) /\ k[1] = "players"
    <3>1. GivenBy(e, k) = {e.rows[n].name : n \in Naming(e, k[3])}
          /\ NameGiven(t, e, k) = NameOf(e, k[3])
      BY <2>3 DEF GivenBy, NameGiven
    <3>2. /\ NameOf(e, k[3]) \notin {Absent, Bare, Clean}
          /\ NameOf(e, k[3]) # NONE => NameOf(e, k[3]) \in GivenBy(e, k)
          /\ NameOf(e, k[3]) = NONE => GivenBy(e, k) = {}
      BY <3>1, PageValues
    <3> QED BY <1>1, <1>2, <2>3, <3>1, <3>2 DEF IsNamed
  <2>4. CASE k \in KeysOf(e) /\ k[1] = "player_team_seasons"
    <3>1. GivenBy(e, k) = {e.rows[n].number : n \in Numbering(e, k[3])}
      BY <2>4 DEF GivenBy
    <3>2. /\ NumberOf(e, k[3]) \notin {Absent, Bare, Clean}
          /\ NumberOf(e, k[3]) # NONE => NumberOf(e, k[3]) \in GivenBy(e, k)
          /\ NumberOf(e, k[3]) = NONE => GivenBy(e, k) = {}
      BY <3>1, PageValues
    <3> QED BY <1>1, <1>2, <2>4, <3>1, <3>2 DEF IsNamed
  <2> QED BY <1>8, <2>1, <2>2, <2>3, <2>4 DEF Attributes
<1> QED BY <1>3, <1>7, <1>8 DEF IsTable, L

-----------------------------------------------------------------------------
(* Loading one page after the other.                                        *)

(* The tables after each of the pages of h, beginning with the tables s.    *)
IsTrace(T, s, h, n) ==
  /\ T = [i \in 0..n |-> T[i]]
  /\ T[0] = s
  /\ \A i \in 1..n : T[i] = Loaded(T[i - 1], h[i])

(* Loading one page after the other is a well-founded definition.           *)
LEMMA TraceExists ==
  ASSUME NEW s, NEW h, NEW len \in Nat
  PROVE  \E T : IsTrace(T, s, h, len)
<1> DEFINE S == {n \in Nat : ~\E T : IsTrace(T, s, h, n)}
           n == First(S)
<1> SUFFICES ASSUME S # {} PROVE FALSE
  OBVIOUS
<1>1. n \in S /\ \A m \in S : n <= m
  BY FirstIsFirst
<1> HIDE DEF n
<1>2. n \in Nat /\ ~\E T : IsTrace(T, s, h, n)
  BY <1>1
<1>3. CASE n = 0
  <2> DEFINE T == [i \in 0..n |-> s]
  <2>1. IsTrace(T, s, h, n)
    BY <1>3 DEF IsTrace
  <2> QED BY <1>2, <2>1
<1>4. CASE n # 0
  <2>1. n - 1 \in Nat /\ ~(n <= n - 1)
    BY <1>2, <1>4
  <2>2. n - 1 \notin S
    BY <1>1, <2>1
  <2>3. PICK R : IsTrace(R, s, h, n - 1)
    BY <2>1, <2>2
  <2> DEFINE T == [i \in 0..n |-> IF i = n THEN Loaded(R[n - 1], h[n]) ELSE R[i]]
  <2>4. T[0] = s
    BY <1>2, <1>4, <2>3 DEF IsTrace
  <2>5. ASSUME NEW i \in 1..n
        PROVE  T[i] = Loaded(T[i - 1], h[i])
    <3>1. i \in 0..n /\ i - 1 \in 0..n /\ i - 1 # n /\ T[i - 1] = R[i - 1]
      BY <1>2
    <3>2. CASE i = n
      BY <3>1, <3>2
    <3>3. CASE i # n
      <4>1. i \in 1..(n - 1)
        BY <1>2, <3>3
      <4>2. R[i] = Loaded(R[i - 1], h[i])
        BY <2>3, <4>1 DEF IsTrace
      <4> QED BY <3>1, <3>3, <4>2
    <3> QED BY <3>2, <3>3
  <2>6. IsTrace(T, s, h, n)
    <3>1. T = [i \in 0..n |-> T[i]]
      OBVIOUS
    <3> HIDE DEF T
    <3> QED BY <2>4, <2>5, <3>1 DEF IsTrace
  <2> QED BY <1>2, <2>6
<1> QED BY <1>3, <1>4

(* There is one such list of tables.                                        *)
LEMMA TraceIsUnique ==
  ASSUME NEW s, NEW g, NEW h, NEW n \in Nat, \A i \in 1..n : g[i] = h[i],
         NEW T, NEW R, IsTrace(T, s, g, n), IsTrace(R, s, h, n)
  PROVE  \A i \in 0..n : T[i] = R[i]
<1> DEFINE S == {i \in 0..n : T[i] # R[i]}
           m == First(S)
<1> SUFFICES ASSUME S # {} PROVE FALSE
  OBVIOUS
<1>1. m \in S /\ \A i \in S : m <= i
  <2>1. S \in SUBSET Nat
    OBVIOUS
  <2> HIDE DEF S
  <2> QED BY <2>1, FirstIsFirst
<1> HIDE DEF m
<1>2. m \in 0..n /\ T[m] # R[m] /\ m # 0
  BY <1>1 DEF IsTrace
<1>3. m \in 1..n /\ m - 1 \in 0..n /\ ~(m <= m - 1)
  BY <1>2
<1>4. T[m - 1] = R[m - 1]
  BY <1>1, <1>3
<1>5. T[m] = Loaded(T[m - 1], g[m]) /\ R[m] = Loaded(R[m - 1], h[m])
  BY <1>3 DEF IsTrace
<1> QED BY <1>2, <1>3, <1>4, <1>5

(* Replay is the end of that list.                                          *)
LEMMA ReplayIsTrace ==
  ASSUME NEW h, Len(h) \in Nat, NEW T, IsTrace(T, Empty, h, Len(h))
  PROVE  Replay(h) = T[Len(h)]
<1> DEFINE P(f) == f = [i \in 0..Len(h) |->
                          IF i = 0 THEN [k \in Keys |-> Absent] ELSE Loaded(f[i - 1], h[i])]
           A == CHOOSE f : P(f)
<1>0. PICK n \in Nat : n = Len(h)
  OBVIOUS
<1>1. P(T)
  <2>1. \A i \in 0..n : T[i] = IF i = 0 THEN [k \in Keys |-> Absent] ELSE Loaded(T[i - 1], h[i])
    BY <1>0 DEF IsTrace, Empty
  <2>2. T = [i \in 0..n |-> T[i]]
    BY <1>0 DEF IsTrace
  <2> QED BY <1>0, <2>1, <2>2
<1>2. P(A)
  BY <1>1
<1>3. Replay(h) = A[Len(h)]
  BY DEF Replay
<1> HIDE DEF A
<1>4. IsTrace(A, Empty, h, n)
  <2>1. \A i \in 0..n : A[i] = IF i = 0 THEN [k \in Keys |-> Absent] ELSE Loaded(A[i - 1], h[i])
    BY <1>0, <1>2
  <2>2. A = [i \in 0..n |-> A[i]]
    BY <1>0, <1>2, <2>1
  <2> QED BY <1>0, <2>1, <2>2 DEF IsTrace, Empty
<1>5. A[n] = T[n]
  <2>1. IsTrace(T, Empty, h, n)
    BY <1>0
  <2>2. \A i \in 0..n : A[i] = T[i]
    BY <1>4, <2>1, TraceIsUnique
  <2>3. n \in 0..n
    OBVIOUS
  <2> QED BY <2>2, <2>3
<1> QED BY <1>0, <1>3, <1>5

(* What the tables are after i pages.                                       *)
TraceFact(T, s, h, i) ==
  /\ IsTable(T[i])
  /\ \A k \in Keys :
       /\ T[i][k] # Absent <=> s[k] # Absent \/ \E j \in 1..i : k \in KeysOf(h[j])
       /\ IsNamed(s[k]) => IsNamed(T[i][k])
       /\ k[1] \in Attributes =>
            /\ \/ T[i][k] \in {s[k], Bare}
               \/ \E j \in 1..i : T[i][k] \in GivenBy(h[j], k) \ {NONE}
            /\ (\E j \in 1..i : GivenBy(h[j], k) \ {NONE} # {}) => IsNamed(T[i][k])

ArePages(h, n) == \A i \in 1..n : IsParsed(h[i]) /\ KeysOf(h[i]) \subseteq Keys

(* One more page keeps what is said of the tables.                          *)
LEMMA TraceStep ==
  ASSUME NEW s, NEW h, NEW n \in Nat, ArePages(h, n), NEW T, IsTrace(T, s, h, n),
         NEW i \in 1..n, TraceFact(T, s, h, i - 1)
  PROVE  TraceFact(T, s, h, i)
<1> DEFINE t == T[i - 1]
           e == h[i]
<1>1. T[i] = Loaded(t, e) /\ IsParsed(e) /\ KeysOf(e) \subseteq Keys
  BY DEF IsTrace, ArePages
<1>2. IsTable(t)
  BY DEF TraceFact
<1>3. 1..i = (1..(i - 1)) \union {i}
  OBVIOUS
<1>4. \A k \in Keys :
        /\ t[k] # Absent <=> s[k] # Absent \/ \E j \in 1..(i - 1) : k \in KeysOf(h[j])
        /\ IsNamed(s[k]) => IsNamed(t[k])
        /\ k[1] \in Attributes =>
             /\ \/ t[k] \in {s[k], Bare}
                \/ \E j \in 1..(i - 1) : t[k] \in GivenBy(h[j], k) \ {NONE}
             /\ (\E j \in 1..(i - 1) : GivenBy(h[j], k) \ {NONE} # {}) => IsNamed(t[k])
  BY DEF TraceFact
<1> HIDE DEF t
<1>5. IsTable(T[i]) /\ \A k \in Keys :
        /\ T[i][k] # Absent <=> t[k] # Absent \/ k \in KeysOf(e)
        /\ IsNamed(t[k]) => IsNamed(T[i][k])
        /\ k[1] \in Attributes =>
             /\ T[i][k] \in {t[k], Bare} \union (GivenBy(e, k) \ {NONE})
             /\ GivenBy(e, k) \ {NONE} # {} => IsNamed(T[i][k])
  BY <1>1, <1>2, LoadedFacts
<1>6. ASSUME NEW k \in Keys
      PROVE  /\ T[i][k] # Absent <=> s[k] # Absent \/ \E j \in 1..i : k \in KeysOf(h[j])
             /\ IsNamed(s[k]) => IsNamed(T[i][k])
  BY <1>3, <1>4, <1>5
<1>7. ASSUME NEW k \in Keys, k[1] \in Attributes
      PROVE  /\ \/ T[i][k] \in {s[k], Bare}
                \/ \E j \in 1..i : T[i][k] \in GivenBy(h[j], k) \ {NONE}
             /\ (\E j \in 1..i : GivenBy(h[j], k) \ {NONE} # {}) => IsNamed(T[i][k])
  <2>1. \/ T[i][k] \in {t[k], Bare} \/ T[i][k] \in GivenBy(e, k) \ {NONE}
    BY <1>5, <1>7
  <2>2. \/ t[k] \in {s[k], Bare} \/ \E j \in 1..(i - 1) : t[k] \in GivenBy(h[j], k) \ {NONE}
    BY <1>4, <1>7
  <2>3. \/ T[i][k] \in {s[k], Bare} \/ \E j \in 1..i : T[i][k] \in GivenBy(h[j], k) \ {NONE}
    BY <1>3, <2>1, <2>2
  <2>4. (\E j \in 1..i : GivenBy(h[j], k) \ {NONE} # {}) => IsNamed(T[i][k])
    BY <1>3, <1>4, <1>5, <1>7
  <2> QED BY <2>3, <2>4
<1> QED BY <1>5, <1>6, <1>7 DEF TraceFact

(* What is said of the tables holds after every page.                       *)
LEMMA TraceFacts ==
  ASSUME NEW s, IsTable(s), NEW h, NEW n \in Nat, ArePages(h, n), NEW T, IsTrace(T, s, h, n)
  PROVE  \A i \in 0..n : TraceFact(T, s, h, i)
<1> DEFINE S == {i \in 0..n : ~TraceFact(T, s, h, i)}
           m == First(S)
<1> SUFFICES ASSUME S # {} PROVE FALSE
  OBVIOUS
<1>1. m \in S /\ \A i \in S : m <= i
  <2>1. S \in SUBSET Nat
    OBVIOUS
  <2> HIDE DEF S
  <2> QED BY <2>1, FirstIsFirst
<1> HIDE DEF m
<1>2. m \in 0..n /\ ~TraceFact(T, s, h, m)
  BY <1>1
<1>3. m # 0
  <2> SUFFICES ASSUME m = 0 PROVE FALSE
    OBVIOUS
  <2>1. T[m] = s /\ 1..m = {}
    BY DEF IsTrace
  <2> QED BY <1>2, <2>1 DEF TraceFact
<1>4. m \in 1..n /\ m - 1 \in 0..n /\ ~(m <= m - 1)
  BY <1>2, <1>3
<1>5. TraceFact(T, s, h, m - 1)
  BY <1>1, <1>4
<1> QED BY <1>2, <1>4, <1>5, TraceStep

(* The tables that a history leaves.                                        *)
LEMMA ReplayFacts ==
  ASSUME NEW h, IsList(h), ArePages(h, Len(h))
  PROVE  /\ IsTable(Replay(h))
         /\ \A k \in Keys :
              /\ Replay(h)[k] # Absent <=> k \in KeysOfAll(h)
              /\ k[1] \in Attributes =>
                   /\ Replay(h)[k] \in {Absent, Bare} \union AllGiven(h, k)
                   /\ AllGiven(h, k) # {} => IsNamed(Replay(h)[k])
<1>1. Len(h) \in Nat /\ DOMAIN h = 1..Len(h)
  BY ListShape
<1>2. PICK n \in Nat : n = Len(h)
  BY <1>1
<1>3. PICK T : IsTrace(T, Empty, h, n)
  BY TraceExists
<1>4. Replay(h) = T[n]
  <2>1. IsTrace(T, Empty, h, Len(h))
    BY <1>2, <1>3
  <2> QED BY <1>1, <1>2, <2>1, ReplayIsTrace
<1>5. IsTable(Empty) /\ \A k \in Keys : Empty[k] = Absent
  BY DEF IsTable, Empty, Absent, Clean
<1>6. ArePages(h, n)
  BY <1>2
<1>7. TraceFact(T, Empty, h, n)
  <2>1. n \in 0..n
    OBVIOUS
  <2> QED BY <1>3, <1>5, <1>6, <2>1, TraceFacts
<1>8. \A k : k \in KeysOfAll(h) <=> \E j \in 1..n : k \in KeysOf(h[j])
  BY <1>1, <1>2 DEF KeysOfAll
<1>9. \A k, v : v \in AllGiven(h, k) <=> \E j \in 1..n : v \in GivenBy(h[j], k) \ {NONE}
  BY <1>1, <1>2 DEF AllGiven
<1>10. \A k \in Keys :
         /\ T[n][k] # Absent <=> \E j \in 1..n : k \in KeysOf(h[j])
         /\ k[1] \in Attributes =>
              /\ \/ T[n][k] \in {Absent, Bare}
                 \/ \E j \in 1..n : T[n][k] \in GivenBy(h[j], k) \ {NONE}
              /\ (\E j \in 1..n : GivenBy(h[j], k) \ {NONE} # {}) => IsNamed(T[n][k])
  BY <1>5, <1>7 DEF TraceFact
<1>11. IsTable(T[n])
  BY <1>7 DEF TraceFact
<1>12. ASSUME NEW k \in Keys, k[1] \in Attributes
       PROVE  /\ T[n][k] \in {Absent, Bare} \union AllGiven(h, k)
              /\ AllGiven(h, k) # {} => IsNamed(T[n][k])
  BY <1>9, <1>10, <1>12
<1> QED BY <1>4, <1>8, <1>10, <1>11, <1>12

-----------------------------------------------------------------------------
(* The inductive invariant, part by part.                                   *)

AtRow == {"select", "flush"}
Over == {"committed", "done"}

(* The call n, c of a page comes before position `at`.                      *)
Done(at, n, c) == n < at.row \/ (n = at.row /\ c < at.call)

(* The tables as they were at the page's savepoint, with all commits since. *)
Marked(r, k) == IF mark[r][k] # Clean THEN mark[r][k] ELSE core[k]

(* Run r has done a call of its page for row k.                             *)
Called(r, k) ==
  \E n, c : /\ IsCall(Current(r), n, c) /\ Done(step[r], n, c)
            /\ Gets(Current(r), n)[c].key = k

Cache ==
  /\ DOMAIN archive = DOMAIN Files
  /\ \A n \in DOMAIN Files : archive[n] \in MayHold[n]
  /\ changes \in 0..MaxChanges
  /\ overlap \in BOOLEAN
  /\ workers \in WorkerCounts

Shapes ==
  /\ pc \in [Runs -> Ended \union Loading \union {"inventory", "process"}]
  /\ DOMAIN inventory = Runs /\ DOMAIN parsed = Runs /\ DOMAIN results = Runs
  /\ DOMAIN work = Runs /\ DOMAIN mark = Runs /\ DOMAIN step = Runs
  /\ DOMAIN seen = Runs /\ DOMAIN team = Runs /\ DOMAIN report = Runs
  /\ IsTable(core)

(* The tables hold the rows of the pages of the log, and no other.          *)
Logged ==
  /\ IsList(log)
  /\ ArePages(log, Len(log))
  /\ Present = KeysOfAll(log)

Statuses == {"unsupported_path", "missing_metadata", "invalid_or_unreadable", "duplicate", "valid"}
Outcomes == {"loaded", "failed", "skipped"}

Lists(r) ==
  /\ inventory[r] \in Seq(Statuses)
  /\ Len(inventory[r]) <= Len(Files)
  /\ \A n \in Valid(r) : Page(n) \in Approved
  /\ IsList(parsed[r])
  /\ results[r] \in Seq(Outcomes)
  /\ Len(results[r]) <= Len(parsed[r])

(* What lists a run has at which point.                                     *)
Control(r) ==
  /\ pc[r] \in {"idle", "crashed"} => inventory[r] = <<>>
  /\ pc[r] \in {"idle", "crashed", "inventory"} => parsed[r] = <<>>
  /\ pc[r] \in {"idle", "crashed", "inventory", "process"} => results[r] = <<>>
  /\ pc[r] \notin {"idle", "crashed", "inventory"} => DOMAIN parsed[r] = DOMAIN Selected(r)
  /\ pc[r] \in Loading \union Over => \A i \in DOMAIN parsed[r] : parsed[r][i] # Unparsed
  /\ pc[r] \in AtRow => Len(results[r]) < Len(parsed[r])
  /\ pc[r] \in Over => Len(results[r]) = Len(parsed[r])
  /\ pc[r] \notin Loading => work[r] = Untouched
  /\ report[r] = IF pc[r] = "done" THEN <<Summary(r)>> ELSE <<>>

(* An entry is the parse of the file at its place.                          *)
Entries(r) ==
  \A i \in DOMAIN parsed[r] :
    LET e == parsed[r][i]
    IN  e # Unparsed =>
          /\ e.file = Selected(r)[i]
          /\ e.status \in {"failed", "validated"}
          /\ IsParsed(e) /\ e.team # NONE
          /\ e.status = "validated" => KeysOf(e) \subseteq Keys

(* A result is that of the entry at its place.                              *)
Results(r) ==
  \A i \in DOMAIN results[r] :
    /\ results[r][i] = "skipped" <=> parsed[r][i].status = "failed"
    /\ results[r][i] = "loaded" => IsLoadable(parsed[r][i]) /\ KeysOf(parsed[r][i]) \subseteq Keys

(* A run that loads a page is at one of its calls, or past the last.        *)
Position(r) ==
  /\ step[r] \in [row : Nat, call : Nat]
  /\ pc[r] \notin AtRow => step[r] = FirstCall
  /\ pc[r] \in AtRow =>
       /\ Current(r).status = "validated"
       /\ IsLoadable(Current(r)) /\ KeysOf(Current(r)) \subseteq Keys
       /\ \/ IsCall(Current(r), step[r].row, step[r].call)
          \/ /\ pc[r] = "select"
             /\ step[r].row = Len(Current(r).rows) + 1 /\ step[r].call = 1
       /\ \A n : n = 0 /\ Done(step[r], n, 2) => team[r] \notin {Absent, Clean}
  /\ pc[r] = "flush" =>
       seen[r] # Clean /\ (seen[r] # Absent => View(r, CurrentGet(r).key) # Absent)

(* What a run has loaded is in the tables as it sees them, also when it     *)
(* goes back to its savepoint, and once it has committed for everybody.     *)
Covered(r) ==
  /\ pc[r] \in AtRow => \A k : Called(r, k) => View(r, k) # Absent
  /\ \A k \in RunKeys(r) :
       /\ pc[r] \in Loading => View(r, k) # Absent
       /\ pc[r] \in AtRow => Marked(r, k) # Absent
       /\ pc[r] \in Over => core[k] # Absent

(* A run has written rows of its pages only.                                *)
Contained(r) ==
  /\ DOMAIN work[r] = Keys /\ DOMAIN mark[r] = Keys
  /\ \A k \in Keys :
       /\ work[r][k] # Absent /\ mark[r][k] # Absent
       /\ work[r][k] # Clean => k \in RunKeys(r) \/ (pc[r] \in AtRow /\ Called(r, k))
       /\ pc[r] \in AtRow /\ mark[r][k] # Clean => k \in RunKeys(r)

RunInv(r) ==
  /\ Lists(r) /\ Control(r) /\ Entries(r) /\ Results(r)
  /\ Position(r) /\ Covered(r) /\ Contained(r)

IInv == Cache /\ Shapes /\ Logged /\ \A r \in Runs : RunInv(r)

-----------------------------------------------------------------------------
(* Steps of others.                                                         *)

RowsIn(p, entries) == Cardinality(UNION {{i} \X DOMAIN p[i].rows : i \in entries})

SummaryOf(p, l) ==
  LET Of(status) == {i \in DOMAIN l : l[i] = status}
      Bad == Of("failed") \union {i \in DOMAIN p : p[i].status = "failed"}
  IN  [selected |-> Len(p), loaded |-> Cardinality(Of("loaded")),
       loaded_rows |-> RowsIn(p, Of("loaded")), failed |-> Cardinality(Of("failed")),
       quarantined |-> Cardinality(Bad), quarantined_rows |-> RowsIn(p, Bad)]

(* A report is a summary of the entries and their results.                  *)
LEMMA SummaryShape ==
  ASSUME NEW r
  PROVE  Summary(r) = SummaryOf(parsed[r], results[r])
BY DEF Summary, SummaryOf, RowsOf, RowsIn, With, FailedParsing

Same(r) ==
  /\ pc'[r] = pc[r] /\ inventory'[r] = inventory[r] /\ parsed'[r] = parsed[r]
  /\ results'[r] = results[r] /\ work'[r] = work[r] /\ mark'[r] = mark[r]
  /\ step'[r] = step[r] /\ seen'[r] = seen[r] /\ team'[r] = team[r] /\ report'[r] = report[r]

Grows == \A k \in Keys : core[k] # Absent => core'[k] # Absent

(* The selection of a run depends on its inventory only.                    *)
LEMMA SelectionStays ==
  ASSUME NEW r, inventory'[r] = inventory[r]
  PROVE  Valid(r)' = Valid(r) /\ Selected(r)' = Selected(r)
<1>1. Valid(r)' = Valid(r)
  BY DEF Valid
<1> QED BY <1>1 DEF Selected

(* The page, the rows and the report of a run depend on its lists only.     *)
LEMMA PageStays ==
  ASSUME NEW r, parsed'[r] = parsed[r], results'[r] = results[r]
  PROVE  /\ Current(r)' = Current(r) /\ RunKeys(r)' = RunKeys(r)
         /\ Summary(r)' = Summary(r)
<1>1. Current(r)' = Current(r)
  BY DEF Current
<1>2. RunKeys(r)' = RunKeys(r)
  BY DEF RunKeys, With
<1>3. Summary(r)' = SummaryOf(parsed'[r], results'[r])
  BY DEF Summary, SummaryOf, RowsOf, RowsIn, With, FailedParsing
<1> QED BY <1>1, <1>2, <1>3, SummaryShape

(* What a run knows of itself outlives the steps of others.                 *)
LEMMA Frame ==
  ASSUME NEW r, RunInv(r), Same(r), Grows
  PROVE  RunInv(r)'
<1>1. /\ pc'[r] = pc[r] /\ inventory'[r] = inventory[r] /\ parsed'[r] = parsed[r]
      /\ results'[r] = results[r] /\ work'[r] = work[r] /\ mark'[r] = mark[r]
      /\ step'[r] = step[r] /\ seen'[r] = seen[r] /\ team'[r] = team[r] /\ report'[r] = report[r]
  BY DEF Same
<1>2. /\ Valid(r)' = Valid(r) /\ Selected(r)' = Selected(r)
      /\ Current(r)' = Current(r) /\ RunKeys(r)' = RunKeys(r) /\ Summary(r)' = Summary(r)
  BY <1>1, SelectionStays, PageStays
<1>3. CurrentGet(r)' = CurrentGet(r)
  BY <1>1, <1>2 DEF CurrentGet
<1>4. \A k : Called(r, k)' <=> Called(r, k)
  BY <1>1, <1>2 DEF Called
<1>5. \A k \in Keys : /\ View(r, k) # Absent => View(r, k)' # Absent
                      /\ Marked(r, k) # Absent => Marked(r, k)' # Absent
  BY <1>1 DEF Grows, View, Marked
<1>6. Lists(r)'
  BY <1>1, <1>2 DEF RunInv, Lists
<1>7. Control(r)'
  BY <1>1, <1>2 DEF RunInv, Control
<1>8. Entries(r)'
  BY <1>1, <1>2 DEF RunInv, Entries
<1>9. Results(r)'
  BY <1>1 DEF RunInv, Results
<1>10. pc[r] \in AtRow => \A k : Called(r, k) => k \in Keys
  <2> SUFFICES ASSUME pc[r] \in AtRow, NEW k, Called(r, k)
               PROVE  k \in Keys
    OBVIOUS
  <2>1. IsLoadable(Current(r)) /\ KeysOf(Current(r)) \subseteq Keys
    BY DEF RunInv, Position
  <2> QED BY <2>1, CalledKeys DEF Called
<1>11. \A k \in RunKeys(r) : k \in Keys
  BY DEF RunInv, Results, RunKeys, With
<1>12. pc[r] = "flush" => CurrentGet(r).key \in Keys
  <2> SUFFICES ASSUME pc[r] = "flush" PROVE CurrentGet(r).key \in Keys
    OBVIOUS
  <2>1. /\ IsLoadable(Current(r)) /\ KeysOf(Current(r)) \subseteq Keys
        /\ IsCall(Current(r), step[r].row, step[r].call)
    BY DEF RunInv, Position, AtRow
  <2> QED BY <2>1, CalledKeys DEF CurrentGet
<1>13. Position(r)'
  <2>1. step'[r] \in [row : Nat, call : Nat] /\ (pc'[r] \notin AtRow => step'[r] = FirstCall)
    BY <1>1 DEF RunInv, Position
  <2>2. (pc[r] \in AtRow =>
       /\ Current(r).status = "validated"
       /\ IsLoadable(Current(r)) /\ KeysOf(Current(r)) \subseteq Keys
       /\ \/ IsCall(Current(r), step[r].row, step[r].call)
          \/ /\ pc[r] = "select"
             /\ step[r].row = Len(Current(r).rows) + 1 /\ step[r].call = 1
       /\ \A n : n = 0 /\ Done(step[r], n, 2) => team[r] \notin {Absent, Clean})'
    BY <1>1, <1>2 DEF RunInv, Position
  <2>3. pc'[r] = "flush" =>
       seen'[r] # Clean /\ (seen'[r] # Absent => View(r, CurrentGet(r).key)' # Absent)
    BY <1>1, <1>3, <1>5, <1>12 DEF RunInv, Position
  <2> QED BY <2>1, <2>2, <2>3 DEF Position
<1>14. Covered(r)'
  <2>1. pc'[r] \in AtRow => \A k : Called(r, k)' => View(r, k)' # Absent
    BY <1>1, <1>4, <1>5, <1>10 DEF RunInv, Covered
  <2>2. \A k \in RunKeys(r)' :
       /\ pc'[r] \in Loading => View(r, k)' # Absent
       /\ pc'[r] \in AtRow => Marked(r, k)' # Absent
       /\ pc'[r] \in Over => core'[k] # Absent
    BY <1>1, <1>2, <1>5, <1>11 DEF RunInv, Covered, Grows
  <2> QED BY <2>1, <2>2 DEF Covered
<1>15. Contained(r)'
  BY <1>1, <1>2, <1>4 DEF RunInv, Contained
<1> QED BY <1>6, <1>7, <1>8, <1>9, <1>13, <1>14, <1>15 DEF RunInv

(* A step of run r that leaves the tables alone. *)
LEMMA StepOf ==
  ASSUME IInv, NEW r \in Runs, \A q \in Runs \ {r} : Same(q), Grows,
         Cache', Shapes', Logged', RunInv(r)'
  PROVE  IInv'
<1>1. \A q \in Runs \ {r} : RunInv(q)'
  <2> SUFFICES ASSUME NEW q \in Runs \ {r} PROVE RunInv(q)'
    OBVIOUS
  <2>1. RunInv(q) /\ Same(q)
    BY DEF IInv
  <2> QED BY <2>1, Frame
<1>2. \A q \in Runs : RunInv(q)'
  BY <1>1
<1> QED BY <1>2 DEF IInv

(* A step that commits nothing leaves the tables and the log as they are.   *)
LEMMA Quiet ==
  ASSUME IInv, UNCHANGED <<cache, options, core, log>>
  PROVE  Cache' /\ Logged' /\ Grows /\ IsTable(core')
<1>1. /\ archive' = archive /\ changes' = changes /\ overlap' = overlap /\ workers' = workers
      /\ core' = core /\ log' = log
  BY DEF cache, options
<1>2. Cache'
  BY <1>1 DEF IInv, Cache
<1>3. Present' = Present
  BY <1>1 DEF Present
<1>4. Logged'
  BY <1>1, <1>3 DEF IInv, Logged
<1> QED BY <1>1, <1>2, <1>4 DEF IInv, Shapes, Grows

(* A run that has no result has loaded nothing.                             *)
LEMMA NothingLoaded ==
  ASSUME NEW r
  PROVE  /\ results[r] = <<>> => RunKeys(r) = {}
         /\ results'[r] = <<>> => RunKeys(r)' = {}
BY DEF RunKeys, With

(* The beginning of a run does not touch the tables.                        *)
LEMMA BeforeLoading ==
  ASSUME NEW r, RunInv(r), results[r] = <<>>, pc[r] \notin AtRow, pc'[r] \notin AtRow,
         results'[r] = results[r], work'[r] = work[r], mark'[r] = mark[r], step'[r] = step[r]
  PROVE  Position(r)' /\ Covered(r)' /\ Contained(r)' /\ Results(r)'
<1>1. RunKeys(r) = {} /\ RunKeys(r)' = {}
  BY NothingLoaded
<1>2. pc'[r] # "flush"
  BY DEF AtRow
<1>3. Position(r)'
  BY <1>2 DEF Position, RunInv
<1>4. Covered(r)'
  BY <1>1 DEF Covered
<1>5. Contained(r)'
  BY <1>1 DEF Contained, RunInv
<1>6. Results(r)'
  BY DEF Results
<1> QED BY <1>3, <1>4, <1>5, <1>6

(* A run that starts keeps the invariant.                                   *)
LEMMA StartInv ==
  ASSUME IInv, NEW r \in Runs, Start(r)
  PROVE  IInv'
<1> USE DEF reading, session
<1>1. RunInv(r) /\ Shapes
  BY DEF IInv
<1>2. /\ pc[r] = "idle" /\ pc' = [pc EXCEPT ![r] = "inventory"]
      /\ UNCHANGED <<cache, options, core, log>>
      /\ inventory' = inventory /\ parsed' = parsed /\ results' = results /\ work' = work
      /\ mark' = mark /\ step' = step /\ seen' = seen /\ team' = team /\ report' = report
  BY DEF Start
<1>3. pc'[r] = "inventory" /\ \A q \in Runs \ {r} : Same(q)
  BY <1>1, <1>2 DEF Shapes, Same
<1>4. Cache' /\ Logged' /\ Grows /\ IsTable(core')
  BY <1>2, Quiet
<1>5. Shapes'
  BY <1>1, <1>2, <1>4 DEF Shapes, Ended, Loading
<1>6. Position(r)' /\ Covered(r)' /\ Contained(r)' /\ Results(r)'
  BY <1>1, <1>2, <1>3, BeforeLoading DEF RunInv, Control, AtRow
<1>7. Valid(r)' = Valid(r)
  BY <1>2, SelectionStays
<1>8. Lists(r)'
  BY <1>1, <1>2, <1>7 DEF RunInv, Lists
<1>9. Control(r)'
  BY <1>1, <1>2, <1>3 DEF RunInv, Control, Loading, Over, AtRow
<1>10. Entries(r)'
  BY <1>1, <1>2 DEF RunInv, Entries, Control
<1>11. RunInv(r)'
  BY <1>6, <1>8, <1>9, <1>10 DEF RunInv
<1> QED BY <1>3, <1>4, <1>5, <1>11, StepOf

-----------------------------------------------------------------------------
(* The selection.                                                           *)

(* A finite set of numbers has an i-th smallest.                            *)
LEMMA SmallerOnes ==
  ASSUME NEW S \in SUBSET Nat, IsFiniteSet(S), NEW i \in 1..Cardinality(S)
  PROVE  \E n \in S : Cardinality({m \in S : m < n}) = i - 1
<1> DEFINE Below(n) == {m \in S : m < n}
           f == [n \in S |-> Cardinality(Below(n)) + 1]
           c == Cardinality(S)
<1>1. c \in Nat
  BY FS_CardinalityType
<1>2. \A n \in S : IsFiniteSet(Below(n)) /\ Cardinality(Below(n)) \in Nat /\ Cardinality(Below(n)) < c
  <2> SUFFICES ASSUME NEW n \in S
               PROVE  IsFiniteSet(Below(n)) /\ Cardinality(Below(n)) \in Nat /\ Cardinality(Below(n)) < c
    OBVIOUS
  <2> DEFINE B == Below(n)
  <2>1. B \in SUBSET S /\ B # S
    BY DEF B
  <2> HIDE DEF B
  <2>2. IsFiniteSet(B) /\ Cardinality(B) <= c /\ (Cardinality(B) = c => S = B)
    BY <2>1, FS_Subset
  <2>3. Cardinality(B) \in Nat
    BY <2>2, FS_CardinalityType
  <2>4. Cardinality(B) # c
    BY <2>1, <2>2
  <2>5. IsFiniteSet(B) /\ Cardinality(B) \in Nat /\ Cardinality(B) < c
    <3> HIDE DEF c
    <3> QED BY <1>1, <2>2, <2>3, <2>4
  <2> QED BY <2>5 DEF B
<1>3. ASSUME NEW m \in S, NEW n \in S, m < n
      PROVE  Cardinality(Below(m)) < Cardinality(Below(n))
  <2> DEFINE A == Below(m)
             B == Below(n)
  <2>1. A \in SUBSET B /\ m \in B /\ m \notin A
    <3>1. \A x \in S : x \in Nat /\ m \in Nat /\ n \in Nat
      OBVIOUS
    <3>2. \A x \in S : x < m => x < n
      BY <1>3, <3>1
    <3>3. m \in B /\ ~(m < m)
      BY <1>3, <3>1
    <3> QED BY <3>2, <3>3
  <2>2. IsFiniteSet(B) /\ Cardinality(B) \in Nat /\ Cardinality(A) \in Nat
    BY <1>2
  <2> HIDE DEF A, B
  <2>3. Cardinality(A) <= Cardinality(B) /\ (Cardinality(B) = Cardinality(A) => B = A)
    BY <2>1, <2>2, FS_Subset
  <2>4. Cardinality(A) < Cardinality(B)
    BY <2>1, <2>2, <2>3
  <2> QED BY <2>4 DEF A, B
<1> HIDE DEF Below
<1>4. f \in Injection(S, 1..c)
  <2>1. f \in [S -> 1..c]
    <3> HIDE DEF c
    <3> QED BY <1>1, <1>2
  <2>2. \A m, n \in S : f[m] = f[n] => m = n
    <3> SUFFICES ASSUME NEW m \in S, NEW n \in S, f[m] = f[n], m # n PROVE FALSE
      OBVIOUS
    <3>1. m < n \/ n < m
      OBVIOUS
    <3>2. Cardinality(Below(m)) = Cardinality(Below(n))
      BY <1>2
    <3>3. Cardinality(Below(m)) \in Nat
      BY <1>2
    <3> QED BY <1>3, <3>1, <3>2, <3>3
  <2> QED BY <2>1, <2>2 DEF Injection, IsInjective
<1>5. IsFiniteSet(1..c) /\ Cardinality(1..c) = c
  <2> HIDE DEF c
  <2>1. 1 \in Int /\ c \in Int
    BY <1>1
  <2>2. IsFiniteSet(1..c) /\ Cardinality(1..c) = IF 1 > c THEN 0 ELSE c - 1 + 1
    BY <2>1, FS_Interval
  <2> QED BY <1>1, <2>2
<1>6. f \in Surjection(S, 1..c)
  <2> HIDE DEF f
  <2> QED BY <1>4, <1>5, FS_Injection
<1>7. PICK n \in S : f[n] = i
  <2> HIDE DEF f
  <2> QED BY <1>6 DEF Surjection
<1>8. Cardinality(Below(n)) + 1 = i /\ Cardinality(Below(n)) \in Nat
  BY <1>2, <1>7
<1>9. Cardinality(Below(n)) = i - 1
  <2> HIDE DEF c
  <2> QED BY <1>8
<1> QED BY <1>9 DEF Below

(* The selected files are listed valid ones.                                *)
LEMMA SelectedShape ==
  ASSUME NEW r, inventory[r] \in Seq(Statuses)
  PROVE  /\ Valid(r) \subseteq 1..Len(inventory[r])
         /\ Cardinality(Valid(r)) \in Nat
         /\ DOMAIN Selected(r) = 1..Cardinality(Valid(r))
         /\ \A i \in DOMAIN Selected(r) : Selected(r)[i] \in Valid(r)
<1> DEFINE S == Valid(r)
<1>1. S \subseteq 1..Len(inventory[r]) /\ Len(inventory[r]) \in Nat
  BY DEF Valid
<1>2. S \in SUBSET Nat /\ IsFiniteSet(S)
  <2>1. S \in SUBSET Nat /\ \A s \in S : s <= Len(inventory[r])
    BY <1>1
  <2> HIDE DEF S
  <2> QED BY <1>1, <2>1, FS_BoundedSetOfNaturals
<1>3. Cardinality(S) \in Nat
  BY <1>2, FS_CardinalityType
<1>4. DOMAIN Selected(r) = 1..Cardinality(S)
  BY DEF Selected
<1>5. \A i \in 1..Cardinality(S) :
        Selected(r)[i] = CHOOSE n \in S : Cardinality({m \in S : m < n}) = i - 1
  BY DEF Selected
<1> HIDE DEF S
<1>6. \A i \in 1..Cardinality(S) : \E n \in S : Cardinality({m \in S : m < n}) = i - 1
  BY <1>2, SmallerOnes
<1>7. \A i \in 1..Cardinality(S) : Selected(r)[i] \in S
  BY <1>5, <1>6
<1> QED BY <1>1, <1>3, <1>4, <1>7 DEF S

-----------------------------------------------------------------------------
(* From the inventory to the load.                                          *)

(* A function on 1..c is a list.                                            *)
LEMMA ListOf ==
  ASSUME NEW c \in Nat, NEW f, f = [i \in 1..c |-> f[i]]
  PROVE  IsList(f) /\ Len(f) = c /\ DOMAIN f = 1..c
<1>1. DOMAIN f = 1..c
  OBVIOUS
<1>2. f \in [1..c -> {f[i] : i \in DOMAIN f}]
  BY <1>1
<1> QED BY <1>1, <1>2 DEF IsList

(* Listing a file keeps the invariant.                                      *)
LEMMA InventoryInv ==
  ASSUME IInv, NEW r \in Runs, InventoryFile(r)
  PROVE  IInv'
<1> DEFINE list == inventory[r]
           n == Len(list) + 1
           x == _inventory_one_path(n, list)
<1>1. RunInv(r) /\ Shapes
  BY DEF IInv
<1>2. /\ pc[r] = "inventory" /\ Len(list) < Len(Files)
      /\ inventory' = [inventory EXCEPT ![r] = Append(list, x)]
      /\ UNCHANGED <<cache, options, core, log>>
      /\ pc' = pc /\ parsed' = parsed /\ results' = results /\ work' = work
      /\ mark' = mark /\ step' = step /\ seen' = seen /\ team' = team /\ report' = report
  BY DEF InventoryFile, session
<1>3. x \in Statuses /\ (x = "valid" => Page(n) \in Approved)
  <2> HIDE DEF n, list
  <2> QED BY DEF _inventory_one_path, Statuses
<1> HIDE DEF x
<1>4. inventory'[r] = Append(list, x) /\ \A q \in Runs \ {r} : Same(q)
  BY <1>1, <1>2 DEF Shapes, Same
<1>5. Cache' /\ Logged' /\ Grows /\ IsTable(core')
  BY <1>2, Quiet
<1>6. Shapes'
  BY <1>1, <1>2, <1>5 DEF Shapes
<1>7. Position(r)' /\ Covered(r)' /\ Contained(r)' /\ Results(r)'
  BY <1>1, <1>2, BeforeLoading DEF RunInv, Control, AtRow
<1>8. list \in Seq(Statuses) /\ \A m \in DOMAIN list : list[m] = "valid" => Page(m) \in Approved
  BY <1>1 DEF RunInv, Lists, Valid
<1>9. Lists(r)'
  <2>1. Len(Files) \in Nat
    BY CoreLoadAssumption, ListShape
  <2>2. /\ Append(list, x) \in Seq(Statuses) /\ Len(Append(list, x)) = n /\ n <= Len(Files)
        /\ DOMAIN Append(list, x) = 1..n /\ Append(list, x)[n] = x
        /\ \A m \in 1..Len(list) : Append(list, x)[m] = list[m]
    BY <1>2, <1>3, <1>8, <2>1
  <2>3. \A m \in Valid(r)' : m \in 1..n /\ Append(list, x)[m] = "valid"
    BY <1>4, <2>2 DEF Valid
  <2>4. \A m \in Valid(r)' : Page(m) \in Approved
    <3> SUFFICES ASSUME NEW m \in Valid(r)' PROVE Page(m) \in Approved
      OBVIOUS
    <3>1. m \in 1..n /\ Append(list, x)[m] = "valid"
      BY <2>3
    <3>2. CASE m = n
      BY <1>3, <2>2, <3>1, <3>2
    <3>3. CASE m # n
      <4>1. m \in 1..Len(list) /\ m \in DOMAIN list
        BY <1>8, <3>1, <3>3
      <4> QED BY <1>8, <2>2, <3>1, <4>1
    <3> QED BY <3>2, <3>3
  <2>5. \A m : Page(m)' = Page(m)
    BY DEF Page
  <2> HIDE DEF n
  <2> QED BY <1>1, <1>2, <1>4, <2>2, <2>4, <2>5 DEF RunInv, Lists
<1>10. Control(r)'
  BY <1>1, <1>2 DEF RunInv, Control, Loading, Over, AtRow
<1>11. Entries(r)'
  BY <1>1, <1>2 DEF RunInv, Entries, Control
<1>12. RunInv(r)'
  BY <1>7, <1>9, <1>10, <1>11 DEF RunInv
<1> QED BY <1>4, <1>5, <1>6, <1>12, StepOf

(* Opening the pool keeps the invariant.                                    *)
LEMMA PoolInv ==
  ASSUME IInv, NEW r \in Runs, OpenPool(r)
  PROVE  IInv'
<1> DEFINE list == [i \in DOMAIN Selected(r) |-> Unparsed]
           c == Cardinality(Valid(r))
<1>1. RunInv(r) /\ Shapes
  BY DEF IInv
<1>2. /\ pc[r] = "inventory"
      /\ pc' = [pc EXCEPT ![r] = "process"] /\ parsed' = [parsed EXCEPT ![r] = list]
      /\ UNCHANGED <<cache, options, core, log>>
      /\ inventory' = inventory /\ results' = results /\ work' = work
      /\ mark' = mark /\ step' = step /\ seen' = seen /\ team' = team /\ report' = report
  BY DEF OpenPool, session
<1>3. c \in Nat /\ DOMAIN Selected(r) = 1..c
  BY <1>1, SelectedShape DEF RunInv, Lists
<1>4. IsList(list) /\ Len(list) = c /\ DOMAIN list = DOMAIN Selected(r)
      /\ \A i \in DOMAIN list : list[i] = Unparsed
  BY <1>3, ListOf
<1> HIDE DEF list, c
<1>5. pc'[r] = "process" /\ parsed'[r] = list /\ \A q \in Runs \ {r} : Same(q)
  BY <1>1, <1>2 DEF Shapes, Same
<1>6. Cache' /\ Logged' /\ Grows /\ IsTable(core')
  BY <1>2, Quiet
<1>7. Shapes'
  BY <1>1, <1>2, <1>6 DEF Shapes
<1>8. results[r] = <<>> /\ Position(r)' /\ Covered(r)' /\ Contained(r)' /\ Results(r)'
  BY <1>1, <1>2, <1>5, BeforeLoading DEF RunInv, Control, AtRow
<1>9. Valid(r)' = Valid(r) /\ Selected(r)' = Selected(r)
  BY <1>2, SelectionStays
<1>10. Lists(r)'
  BY <1>1, <1>2, <1>3, <1>4, <1>5, <1>8, <1>9 DEF RunInv, Lists
<1>11. Control(r)'
  BY <1>1, <1>2, <1>4, <1>5, <1>8, <1>9 DEF RunInv, Control, Loading, Over, AtRow
<1>12. Entries(r)'
  BY <1>4, <1>5 DEF Entries
<1>13. RunInv(r)'
  BY <1>8, <1>10, <1>11, <1>12 DEF RunInv
<1> QED BY <1>5, <1>6, <1>7, <1>13, StepOf

(* What parsing a selected file gives.                                      *)
LEMMA ParsedEntry ==
  ASSUME IInv, NEW r \in Runs, NEW i \in DOMAIN Selected(r)
  PROVE  LET e == _process_one_source(Selected(r)[i])
         IN  /\ e # Unparsed /\ e.file = Selected(r)[i]
             /\ e.status \in {"failed", "validated"}
             /\ IsParsed(e) /\ e.team # NONE
             /\ e.status = "validated" => KeysOf(e) \subseteq Keys
<1> DEFINE n == Selected(r)[i]
           content == archive[n]
           e == _process_one_source(n)
<1>1. RunInv(r) /\ Cache
  BY DEF IInv
<1>2. n \in Valid(r) /\ n \in 1..Len(inventory[r])
  BY <1>1, SelectedShape DEF RunInv, Lists
<1>3. /\ Page(n) \in Approved /\ Len(inventory[r]) <= Len(Files) /\ Len(inventory[r]) \in Nat
  BY <1>1, <1>2 DEF RunInv, Lists
<1>4. n \in DOMAIN Files /\ Files[n].team # NONE
  <2>1. DOMAIN Files = 1..Len(Files) /\ Len(Files) \in Nat
    BY CoreLoadAssumption, ListShape
  <2>2. Page(n)[1] # NONE
    BY <1>3, CoreLoadAssumption
  <2> HIDE DEF n
  <2> QED BY <1>2, <1>3, <2>1, <2>2 DEF Page
<1> HIDE DEF n
<1>5. content \in MayHold[n] /\ IsParsed(content)
  BY <1>1, <1>4, CoreLoadAssumption DEF Cache
<1>6. /\ e.file = n /\ e.team = Files[n].team /\ e.year = Files[n].year /\ e.name = content.name
      /\ \/ e.status = "failed" /\ e.rows = <<>>
         \/ e.status \in {"failed", "validated"} /\ e.rows = content.rows
            /\ (e.status = "validated" => ~Issues(content.rows))
  BY DEF _process_one_source
<1>7. e # Unparsed
  <2>1. Unparsed.status = "pending"
    BY DEF Unparsed
  <2> QED BY <1>6, <2>1
<1> HIDE DEF e
<1>8. IsParsed(e)
  <2>1. CASE e.rows = content.rows
    BY <1>5, <1>6, <2>1 DEF IsParsed
  <2>2. CASE e.rows = <<>>
    <3>1. IsList(<<>>)
      BY DEF IsList
    <3> QED BY <1>5, <1>6, <2>2, <3>1 DEF IsParsed
  <2> QED BY <1>6, <2>1, <2>2
<1>9. ASSUME e.status = "validated"
      PROVE  KeysOf(e) \subseteq Keys
  <2> DEFINE f == EntryOf(n, content)
  <2>1. f.team = e.team /\ f.year = e.year /\ f.rows = e.rows
    BY <1>6, <1>9 DEF EntryOf
  <2>2. KeysOf(e) = KeysOf(f)
    <3> HIDE DEF f
    <3> QED BY <2>1 DEF KeysOf
  <2>3. content \in Loadable
    BY <1>4, <1>5, <1>6, <1>9 DEF Loadable
  <2>4. KeysOf(f) \subseteq Keys
    BY <1>4, <2>3 DEF Keys
  <2> QED BY <2>2, <2>4
<1> QED BY <1>4, <1>6, <1>7, <1>8, <1>9 DEF n, e

(* A worker that finishes an entry keeps the invariant.                     *)
LEMMA ProcessInv ==
  ASSUME IInv, NEW r \in Runs, NEW i \in DOMAIN parsed[r], ProcessPage(r, i)
  PROVE  IInv'
<1> DEFINE e == _process_one_source(Selected(r)[i])
           list == [parsed[r] EXCEPT ![i] = e]
           c == Len(parsed[r])
<1>1. RunInv(r) /\ Shapes
  BY DEF IInv
<1>2. /\ pc[r] = "process"
      /\ parsed' = [parsed EXCEPT ![r][i] = e]
      /\ UNCHANGED <<cache, options, core, log>>
      /\ pc' = pc /\ inventory' = inventory /\ results' = results /\ work' = work
      /\ mark' = mark /\ step' = step /\ seen' = seen /\ team' = team /\ report' = report
  BY DEF ProcessPage, InPool, session
<1>3. IsList(parsed[r]) /\ DOMAIN parsed[r] = DOMAIN Selected(r)
  BY <1>1, <1>2 DEF RunInv, Lists, Control
<1>4. c \in Nat /\ DOMAIN parsed[r] = 1..c
  BY <1>3, ListShape
<1>5. /\ e # Unparsed /\ e.file = Selected(r)[i]
      /\ e.status \in {"failed", "validated"}
      /\ IsParsed(e) /\ e.team # NONE
      /\ e.status = "validated" => KeysOf(e) \subseteq Keys
  BY <1>3, ParsedEntry
<1> HIDE DEF e
<1>6. /\ DOMAIN list = 1..c /\ list[i] = e
      /\ \A j \in 1..c : j # i => list[j] = parsed[r][j]
      /\ list = [j \in 1..c |-> list[j]]
  BY <1>4
<1>7. parsed'[r] = list /\ \A q \in Runs \ {r} : Same(q)
  BY <1>1, <1>2 DEF Shapes, Same
<1> HIDE DEF list, c
<1>8. IsList(list) /\ Len(list) = c
  BY <1>4, <1>6, ListOf
<1>9. Cache' /\ Logged' /\ Grows /\ IsTable(core')
  BY <1>2, Quiet
<1>10. Shapes'
  BY <1>1, <1>2, <1>9 DEF Shapes
<1>11. results[r] = <<>> /\ Position(r)' /\ Covered(r)' /\ Contained(r)' /\ Results(r)'
  BY <1>1, <1>2, BeforeLoading DEF RunInv, Control, AtRow
<1>12. Valid(r)' = Valid(r) /\ Selected(r)' = Selected(r)
  BY <1>2, SelectionStays
<1>13. Lists(r)'
  BY <1>1, <1>2, <1>4, <1>7, <1>8, <1>11, <1>12 DEF RunInv, Lists, c
<1>14. Control(r)'
  BY <1>1, <1>2, <1>3, <1>4, <1>6, <1>7, <1>11, <1>12 DEF RunInv, Control, Loading, Over, AtRow
<1>15. Entries(r)'
  BY <1>1, <1>4, <1>5, <1>6, <1>7, <1>12 DEF RunInv, Entries
<1>16. RunInv(r)'
  BY <1>11, <1>13, <1>14, <1>15 DEF RunInv
<1> QED BY <1>7, <1>9, <1>10, <1>16, StepOf

(* Beginning to load keeps the invariant.                                   *)
LEMMA BeginLoadInv ==
  ASSUME IInv, NEW r \in Runs, BeginLoad(r)
  PROVE  IInv'
<1>1. RunInv(r) /\ Shapes
  BY DEF IInv
<1>2. /\ pc[r] = "process" /\ pc' = [pc EXCEPT ![r] = "load"] /\ Waiting(r) = {}
      /\ UNCHANGED <<cache, options, core, log>>
      /\ inventory' = inventory /\ parsed' = parsed /\ results' = results /\ work' = work
      /\ mark' = mark /\ step' = step /\ seen' = seen /\ team' = team /\ report' = report
  BY DEF BeginLoad, reading, session
<1>3. pc'[r] = "load" /\ \A q \in Runs \ {r} : Same(q)
  BY <1>1, <1>2 DEF Shapes, Same
<1>4. Cache' /\ Logged' /\ Grows /\ IsTable(core')
  BY <1>2, Quiet
<1>5. Shapes'
  BY <1>1, <1>2, <1>4 DEF Shapes, Loading
<1>6. Position(r)' /\ Covered(r)' /\ Contained(r)' /\ Results(r)'
  BY <1>1, <1>2, <1>3, BeforeLoading DEF RunInv, Control, AtRow
<1>7. Valid(r)' = Valid(r) /\ Selected(r)' = Selected(r)
  BY <1>2, SelectionStays
<1>8. Lists(r)'
  BY <1>1, <1>2, <1>7 DEF RunInv, Lists
<1>9. \A i \in DOMAIN parsed[r] : parsed[r][i] # Unparsed
  BY <1>2 DEF Waiting
<1>10. Control(r)'
  BY <1>1, <1>2, <1>3, <1>7, <1>9 DEF RunInv, Control, Loading, Over, AtRow
<1>11. Entries(r)'
  BY <1>1, <1>2, <1>7 DEF RunInv, Entries
<1>12. RunInv(r)'
  BY <1>6, <1>8, <1>10, <1>11 DEF RunInv
<1> QED BY <1>3, <1>4, <1>5, <1>12, StepOf

-----------------------------------------------------------------------------
(* The end of a page.                                                       *)

(* The keys of the loaded pages, with one page more.                        *)
LEMMA SettledKeys ==
  ASSUME NEW r \in Runs, RunInv(r), DOMAIN results = Runs, NEW status, Settle(r, status), parsed' = parsed
  PROVE  /\ results'[r] = Append(results[r], status)
         /\ RunKeys(r)' = RunKeys(r) \union IF status = "loaded" THEN KeysOf(Current(r)) ELSE {}
<1> DEFINE l == results[r]
           n == Len(l) + 1
<1>1. l \in Seq(Outcomes)
  BY DEF RunInv, Lists
<1>2. results'[r] = Append(l, status)
  BY DEF Settle
<1>3. /\ DOMAIN Append(l, status) = 1..n /\ Append(l, status)[n] = status
      /\ \A i \in 1..Len(l) : Append(l, status)[i] = l[i]
      /\ DOMAIN l = 1..Len(l) /\ 1..n = (1..Len(l)) \union {n}
      /\ \A i \in 1..Len(l) : i # n
  BY <1>1
<1>4. Current(r) = parsed[r][n]
  BY DEF Current
<1>5. With(r, "loaded") = {i \in 1..Len(l) : l[i] = "loaded"}
  BY <1>3 DEF With
<1>6. With(r, "loaded")' = {i \in 1..n : Append(l, status)[i] = "loaded"}
  BY <1>2, <1>3 DEF With
<1> HIDE DEF l, n
<1>7. With(r, "loaded")' = With(r, "loaded") \union IF status = "loaded" THEN {n} ELSE {}
  BY <1>3, <1>5, <1>6
<1>8. RunKeys(r)' = UNION {KeysOf(parsed[r][i]) : i \in With(r, "loaded")'}
  BY DEF RunKeys
<1>9. RunKeys(r)' = RunKeys(r) \union IF status = "loaded" THEN KeysOf(parsed[r][n]) ELSE {}
  BY <1>7, <1>8 DEF RunKeys
<1> QED BY <1>2, <1>4, <1>9 DEF l

(* A page that is settled, with the rows that the transaction keeps, keeps  *)
(* the invariant.                                                           *)
LEMMA SettleInv ==
  ASSUME IInv, NEW r \in Runs, NEW status \in Outcomes, Settle(r, status),
         pc[r] \in Loading, Len(results[r]) < Len(parsed[r]),
         UNCHANGED <<cache, options, core, reading, report, log>>,
         status = "skipped" <=> Current(r).status = "failed",
         status = "loaded" => IsLoadable(Current(r)) /\ KeysOf(Current(r)) \subseteq Keys,
         DOMAIN work' = Runs, \A q \in Runs \ {r} : work'[q] = work[q],
         DOMAIN work'[r] = Keys,
         \A k \in Keys : /\ work'[r][k] # Absent
                         /\ work'[r][k] # Clean => k \in RunKeys(r)'
                         /\ k \in RunKeys(r)' => View(r, k)' # Absent
  PROVE  IInv'
<1> DEFINE l == results[r]
           n == Len(l) + 1
           K == IF status = "loaded" THEN KeysOf(Current(r)) ELSE {}
<1>1. RunInv(r) /\ Shapes
  BY DEF IInv
<1>2. /\ pc' = [pc EXCEPT ![r] = "load"]
      /\ mark' = [mark EXCEPT ![r] = Untouched]
      /\ step' = [step EXCEPT ![r] = FirstCall]
      /\ seen' = [seen EXCEPT ![r] = Absent]
      /\ team' = [team EXCEPT ![r] = Absent]
      /\ results' = [results EXCEPT ![r] = Append(@, status)]
      /\ inventory' = inventory /\ parsed' = parsed /\ report' = report
  BY DEF Settle, reading
<1>3. \A q \in Runs \ {r} : Same(q)
  BY <1>1, <1>2 DEF Shapes, Same
<1>4. pc'[r] = "load" /\ mark'[r] = Untouched /\ step'[r] = FirstCall
  BY <1>1, <1>2 DEF Shapes
<1>5. results'[r] = Append(l, status) /\ RunKeys(r)' = RunKeys(r) \union K
  BY <1>1, <1>2, SettledKeys DEF Shapes
<1>6. Cache' /\ Logged' /\ Grows /\ IsTable(core')
  BY Quiet
<1>7. Shapes'
  BY <1>1, <1>2, <1>6 DEF Shapes, Loading
<1>8. l \in Seq(Outcomes) /\ IsList(parsed[r])
  BY <1>1 DEF RunInv, Lists
<1>9. /\ Append(l, status) \in Seq(Outcomes) /\ DOMAIN Append(l, status) = 1..n
      /\ Len(Append(l, status)) = n /\ Append(l, status)[n] = status
      /\ \A i \in 1..Len(l) : Append(l, status)[i] = l[i] /\ i # n
      /\ DOMAIN l = 1..Len(l) /\ 1..n = (1..Len(l)) \union {n}
      /\ n \in Nat /\ Len(l) \in Nat
  BY <1>8
<1>10. Len(parsed[r]) \in Nat /\ n <= Len(parsed[r])
  BY <1>8, <1>9, ListShape
<1>11. Current(r) = parsed[r][n]
  BY DEF Current
<1> HIDE DEF l, n
<1>12. Valid(r)' = Valid(r) /\ Selected(r)' = Selected(r) /\ \A m : Page(m)' = Page(m)
  BY <1>2, SelectionStays DEF Page
<1>13. Lists(r)'
  BY <1>1, <1>2, <1>5, <1>9, <1>10, <1>12 DEF RunInv, Lists
<1>14. Control(r)'
  BY <1>1, <1>2, <1>4, <1>12 DEF RunInv, Control, Loading, Over, AtRow
<1>15. Entries(r)'
  BY <1>1, <1>2, <1>12 DEF RunInv, Entries
<1>16. Results(r)'
  <2>1. \A i \in 1..Len(l) :
          /\ l[i] = "skipped" <=> parsed[r][i].status = "failed"
          /\ l[i] = "loaded" => IsLoadable(parsed[r][i]) /\ KeysOf(parsed[r][i]) \subseteq Keys
    BY <1>1, <1>9 DEF RunInv, Results, l
  <2>2. \A i \in 1..n :
          /\ Append(l, status)[i] = "skipped" <=> parsed[r][i].status = "failed"
          /\ Append(l, status)[i] = "loaded" => IsLoadable(parsed[r][i]) /\ KeysOf(parsed[r][i]) \subseteq Keys
    BY <1>9, <1>11, <2>1
  <2> QED BY <1>2, <1>5, <1>9, <2>2 DEF Results
<1>17. Position(r)'
  BY <1>4 DEF Position, FirstCall, AtRow
<1>18. RunKeys(r)' \subseteq Keys
  BY <1>1, <1>5 DEF RunInv, Results, RunKeys, With
<1>19. Covered(r)'
  BY <1>4, <1>18 DEF Covered, AtRow, Over
<1>20. Contained(r)'
  BY <1>4, Zenon DEF Contained, AtRow, Untouched, Clean, Absent
<1>21. RunInv(r)'
  BY <1>13, <1>14, <1>15, <1>16, <1>17, <1>19, <1>20 DEF RunInv
<1> QED BY <1>3, <1>6, <1>7, <1>21, StepOf

(* The entry that a run is at has been processed.                           *)
LEMMA CurrentEntry ==
  ASSUME NEW r \in Runs, RunInv(r), pc[r] \in Loading, Len(results[r]) < Len(parsed[r])
  PROVE  /\ Current(r).status \in {"failed", "validated"}
         /\ IsParsed(Current(r)) /\ Current(r).team # NONE
         /\ Current(r).status = "validated" => KeysOf(Current(r)) \subseteq Keys
<1> DEFINE n == Len(results[r]) + 1
<1>1. Len(results[r]) \in Nat /\ Len(parsed[r]) \in Nat /\ DOMAIN parsed[r] = 1..Len(parsed[r])
  BY ListShape DEF RunInv, Lists
<1>2. n \in DOMAIN parsed[r]
  BY <1>1
<1> HIDE DEF n
<1>3. parsed[r][n] # Unparsed
  BY <1>2 DEF RunInv, Control
<1>4. Current(r) = parsed[r][n]
  BY DEF Current, n
<1> QED BY <1>2, <1>3, <1>4 DEF RunInv, Entries

(* Skipping an entry keeps the invariant.                                   *)
LEMMA SkipInv ==
  ASSUME IInv, NEW r \in Runs, SkipPage(r)
  PROVE  IInv'
<1>1. RunInv(r) /\ Shapes
  BY DEF IInv
<1>2. /\ pc[r] = "load" /\ Len(results[r]) < Len(parsed[r]) /\ Current(r).status # "validated"
      /\ Settle(r, "skipped")
      /\ UNCHANGED <<cache, options, core, reading, report, log>> /\ work' = work
      /\ core' = core /\ parsed' = parsed
  BY DEF SkipPage, AtPage, reading
<1>3. Current(r).status = "failed"
  BY <1>1, <1>2, CurrentEntry DEF Loading
<1>4. RunKeys(r)' = RunKeys(r)
  <2>1. RunKeys(r)' = RunKeys(r) \union IF "skipped" = "loaded" THEN KeysOf(Current(r)) ELSE {}
    BY <1>1, <1>2, SettledKeys DEF Shapes
  <2> QED BY <2>1
<1>5. DOMAIN work[r] = Keys /\ \A k \in Keys :
          /\ work[r][k] # Absent
          /\ work[r][k] # Clean => k \in RunKeys(r)
          /\ k \in RunKeys(r) => View(r, k) # Absent
  BY <1>1, <1>2 DEF RunInv, Contained, Covered, AtRow, Loading
<1>6. \A k : View(r, k)' = View(r, k)
  BY <1>2 DEF View
<1>7. DOMAIN work' = Runs /\ DOMAIN work'[r] = Keys /\ (\A q \in Runs \ {r} : work'[q] = work[q])
      /\ pc[r] \in Loading
      /\ \A k \in Keys : /\ work'[r][k] # Absent
                         /\ work'[r][k] # Clean => k \in RunKeys(r)'
                         /\ k \in RunKeys(r)' => View(r, k)' # Absent
  BY <1>1, <1>2, <1>4, <1>5, <1>6 DEF Shapes, Loading
<1> QED BY <1>2, <1>3, <1>7, SettleInv DEF Outcomes

(* An entry that the gate refuses keeps the invariant.                      *)
LEMMA RefuseInv ==
  ASSUME IInv, NEW r \in Runs, RefusePage(r)
  PROVE  IInv'
<1>1. RunInv(r) /\ Shapes
  BY DEF IInv
<1>2. /\ pc[r] = "load" /\ Len(results[r]) < Len(parsed[r]) /\ Current(r).status = "validated"
      /\ Settle(r, "failed")
      /\ UNCHANGED <<cache, options, core, reading, report, log>> /\ work' = work
      /\ core' = core /\ parsed' = parsed
  BY DEF RefusePage, AtPage, reading
<1>4. RunKeys(r)' = RunKeys(r)
  <2>1. RunKeys(r)' = RunKeys(r) \union IF "failed" = "loaded" THEN KeysOf(Current(r)) ELSE {}
    BY <1>1, <1>2, SettledKeys DEF Shapes
  <2> QED BY <2>1
<1>5. DOMAIN work[r] = Keys /\ \A k \in Keys :
          /\ work[r][k] # Absent
          /\ work[r][k] # Clean => k \in RunKeys(r)
          /\ k \in RunKeys(r) => View(r, k) # Absent
  BY <1>1, <1>2 DEF RunInv, Contained, Covered, AtRow, Loading
<1>6. \A k : View(r, k)' = View(r, k)
  BY <1>2 DEF View
<1>7. DOMAIN work' = Runs /\ DOMAIN work'[r] = Keys /\ (\A q \in Runs \ {r} : work'[q] = work[q])
      /\ pc[r] \in Loading
      /\ \A k \in Keys : /\ work'[r][k] # Absent
                         /\ work'[r][k] # Clean => k \in RunKeys(r)'
                         /\ k \in RunKeys(r)' => View(r, k)' # Absent
  BY <1>1, <1>2, <1>4, <1>5, <1>6 DEF Shapes, Loading
<1> QED BY <1>2, <1>7, SettleInv DEF Outcomes

(* Rolling a page back to its savepoint keeps the invariant.                *)
LEMMA FailInv ==
  ASSUME IInv, NEW r \in Runs, PageFails(r)
  PROVE  IInv'
<1>1. RunInv(r) /\ Shapes
  BY DEF IInv
<1>2. /\ pc[r] = "flush" /\ Settle(r, "failed")
      /\ UNCHANGED <<cache, options, core, reading, report, log>>
      /\ work' = [work EXCEPT ![r] = mark[r]]
      /\ core' = core /\ parsed' = parsed
  BY DEF PageFails, AtFlush, reading
<1>3. Len(results[r]) < Len(parsed[r]) /\ Current(r).status = "validated"
  BY <1>1, <1>2 DEF RunInv, Control, Position, AtRow
<1>4. RunKeys(r)' = RunKeys(r)
  <2>1. RunKeys(r)' = RunKeys(r) \union IF "failed" = "loaded" THEN KeysOf(Current(r)) ELSE {}
    BY <1>1, <1>2, SettledKeys DEF Shapes
  <2> QED BY <2>1
<1>5. DOMAIN mark[r] = Keys /\ \A k \in Keys :
          /\ mark[r][k] # Absent
          /\ mark[r][k] # Clean => k \in RunKeys(r)
          /\ k \in RunKeys(r) => Marked(r, k) # Absent
  BY <1>1, <1>2 DEF RunInv, Contained, Covered, AtRow
<1>6. work'[r] = mark[r] /\ \A k : View(r, k)' = Marked(r, k)
  BY <1>1, <1>2 DEF View, Marked, Shapes
<1>7. DOMAIN work' = Runs /\ DOMAIN work'[r] = Keys /\ (\A q \in Runs \ {r} : work'[q] = work[q])
      /\ pc[r] \in Loading
      /\ \A k \in Keys : /\ work'[r][k] # Absent
                         /\ work'[r][k] # Clean => k \in RunKeys(r)'
                         /\ k \in RunKeys(r)' => View(r, k)' # Absent
  BY <1>1, <1>2, <1>4, <1>5, <1>6 DEF Shapes, Loading
<1> QED BY <1>2, <1>3, <1>7, SettleInv DEF Outcomes

(* Closing a loaded page keeps the invariant.                               *)
LEMMA CloseInv ==
  ASSUME IInv, NEW r \in Runs, ClosePage(r)
  PROVE  IInv'
<1> DEFINE e == Current(r)
<1>1. RunInv(r) /\ Shapes
  BY DEF IInv
<1>2. /\ pc[r] = "select" /\ step[r].row > Len(e.rows) /\ Settle(r, "loaded")
      /\ UNCHANGED <<cache, options, core, reading, report, log>> /\ work' = work
      /\ core' = core /\ parsed' = parsed
  BY DEF ClosePage, reading
<1>3. /\ Len(results[r]) < Len(parsed[r]) /\ e.status = "validated"
      /\ IsLoadable(e) /\ KeysOf(e) \subseteq Keys /\ step[r] \in [row : Nat, call : Nat]
  BY <1>1, <1>2 DEF RunInv, Control, Position, AtRow
<1>4. RunKeys(r)' = RunKeys(r) \union KeysOf(e)
  BY <1>1, <1>2, SettledKeys DEF Shapes
<1>5. \A k : Called(r, k) <=> k \in KeysOf(e)
  <2>1. Len(e.rows) \in Nat
    BY <1>3, ListShape DEF IsLoadable, IsParsed
  <2>2. ASSUME NEW n, NEW c, IsCall(e, n, c)
        PROVE  Done(step[r], n, c)
    BY <1>2, <1>3, <2>1, <2>2 DEF IsCall, Done
  <2> QED BY <1>3, <2>2, CalledKeys DEF Called
<1>6. DOMAIN work[r] = Keys /\ \A k \in Keys :
          /\ work[r][k] # Absent
          /\ work[r][k] # Clean => k \in RunKeys(r) \/ k \in KeysOf(e)
          /\ k \in RunKeys(r) => View(r, k) # Absent
          /\ k \in KeysOf(e) => View(r, k) # Absent
  BY <1>1, <1>2, <1>5 DEF RunInv, Contained, Covered, AtRow, Loading
<1>7. \A k : View(r, k)' = View(r, k)
  BY <1>2 DEF View
<1>8. DOMAIN work' = Runs /\ DOMAIN work'[r] = Keys /\ (\A q \in Runs \ {r} : work'[q] = work[q])
      /\ pc[r] \in Loading
      /\ \A k \in Keys : /\ work'[r][k] # Absent
                         /\ work'[r][k] # Clean => k \in RunKeys(r)'
                         /\ k \in RunKeys(r)' => View(r, k)' # Absent
  BY <1>1, <1>2, <1>4, <1>6, <1>7 DEF Shapes, Loading
<1> QED BY <1>2, <1>3, <1>8, SettleInv DEF Outcomes

-----------------------------------------------------------------------------
(* The calls of a page.                                                     *)

(* At the first call no call is done.                                       *)
LEMMA NothingDone ==
  ASSUME NEW e, IsParsed(e)
  PROVE  /\ IsCall(e, FirstCall.row, FirstCall.call)
         /\ \A n, c : ~(IsCall(e, n, c) /\ Done(FirstCall, n, c))
         /\ \A n, c : n = 0 /\ c = 2 => ~Done(FirstCall, n, c)
<1>1. FirstCall.row = 0 /\ FirstCall.call = 1
  BY DEF FirstCall
<1>2. IsCall(e, FirstCall.row, FirstCall.call)
  <2>1. PICK n, c : n = FirstCall.row /\ c = FirstCall.call
    OBVIOUS
  <2>2. n = 0 /\ c = 1
    BY <1>1, <2>1
  <2> QED BY <2>1, <2>2, CallsOfPage
<1>3. ASSUME NEW n, NEW c, IsCall(e, n, c)
      PROVE  ~Done(FirstCall, n, c)
  <2>1. Len(e.rows) \in Nat
    BY ListShape DEF IsParsed
  <2>2. n \in Nat /\ c \in 1..4
    BY <1>3, <2>1, CallsOfPage DEF IsCall
  <2> QED BY <1>1, <2>2 DEF Done
<1> QED BY <1>1, <1>2, <1>3 DEF Done

(* The next call comes after the calls done and the present one.            *)
LEMMA NextCallFacts ==
  ASSUME NEW e, IsParsed(e), NEW at \in [row : Nat, call : Nat], IsCall(e, at.row, at.call)
  PROVE  /\ NextCall(e, at) \in [row : Nat, call : Nat]
         /\ \/ IsCall(e, NextCall(e, at).row, NextCall(e, at).call)
            \/ NextCall(e, at).row = Len(e.rows) + 1 /\ NextCall(e, at).call = 1
         /\ \A n, c : IsCall(e, n, c) =>
              (Done(NextCall(e, at), n, c) <=> Done(at, n, c) \/ (n = at.row /\ c = at.call))
         /\ NextCall(e, at).row \in {at.row, at.row + 1}
<1> DEFINE m == at.row
           d == at.call
           G == Len(Gets(e, m))
           next == NextCall(e, at)
<1>1. at = [row |-> m, call |-> d] /\ m \in Nat /\ d \in Nat
  OBVIOUS
<1>2. Len(e.rows) \in Nat /\ DOMAIN e.rows = 1..Len(e.rows)
  BY ListShape DEF IsParsed
<1>3. m \in 0..Len(e.rows) /\ d \in 1..G
  BY DEF IsCall
<1>4. /\ G \in Nat
      /\ \A c : IsCall(e, m, c) => c \in 1..G
  <2>1. PageGets(e) \in Seq({PageGets(e)[c] : c \in DOMAIN PageGets(e)})
    BY DEF PageGets
  <2>2. m # 0 => Len(RowGets(e, e.rows[m])) \in Nat
    BY RowCalls
  <2>3. G \in Nat
    <3>1. CASE m = 0
      <4>1. G = Len(PageGets(e))
        BY <3>1 DEF Gets
      <4> HIDE DEF G
      <4> QED BY <4>1, PageCalls
    <3>2. CASE m # 0
      BY <2>2, <3>2 DEF Gets
    <3> QED BY <3>1, <3>2
  <2> QED BY <2>3 DEF IsCall
<1>5. next = IF d < G THEN [row |-> m, call |-> d + 1] ELSE [row |-> m + 1, call |-> 1]
  BY <1>1 DEF NextCall
<1>6. \A n, c : IsCall(e, n, c) => n \in Nat /\ c \in Nat /\ c >= 1
  BY <1>2, CallsOfPage DEF IsCall
<1>7. \A c : c \in 1..G => IsCall(e, m, c)
  BY <1>3 DEF IsCall
<1> HIDE DEF G, m, d, next
<1>8. CASE d < G
  <2>1. next.row = m /\ next.call = d + 1 /\ next \in [row : Nat, call : Nat]
    BY <1>1, <1>5, <1>8
  <2>2. IsCall(e, next.row, next.call)
    <3>1. d + 1 \in 1..G
      BY <1>1, <1>4, <1>8
    <3> QED BY <1>7, <2>1, <3>1
  <2>3. ASSUME NEW n, NEW c, IsCall(e, n, c)
        PROVE  Done(next, n, c) <=> Done(at, n, c) \/ (n = m /\ c = d)
    <3>1. n \in Nat /\ c \in Nat
      BY <1>6, <2>3
    <3>2. Done(at, n, c) <=> n < m \/ (n = m /\ c < d)
      BY DEF Done, m, d
    <3>3. Done(next, n, c) <=> n < m \/ (n = m /\ c < d + 1)
      BY <2>1 DEF Done
    <3> QED BY <1>1, <3>1, <3>2, <3>3
  <2> QED BY <2>1, <2>2, <2>3 DEF next, m, d
<1>9. CASE ~(d < G)
  <2>1. next.row = m + 1 /\ next.call = 1 /\ next \in [row : Nat, call : Nat]
    BY <1>1, <1>5, <1>9
  <2>2. m + 1 <= Len(e.rows) => IsCall(e, next.row, next.call)
    <3> SUFFICES ASSUME m + 1 <= Len(e.rows) PROVE IsCall(e, next.row, next.call)
      OBVIOUS
    <3>1. PICK n, c : n = next.row /\ c = next.call
      OBVIOUS
    <3>2. n = m + 1 /\ c = 1 /\ n # 0 /\ n \in DOMAIN e.rows /\ c \in 1..3 /\ c # 3
      BY <1>1, <1>2, <2>1, <3>1
    <3>3. IsCall(e, n, c)
      BY <3>2, CallsOfPage
    <3> QED BY <3>1, <3>3
  <2>3. m + 1 <= Len(e.rows) \/ next.row = Len(e.rows) + 1
    BY <1>1, <1>2, <1>3, <2>1
  <2>4. ASSUME NEW n, NEW c, IsCall(e, n, c)
        PROVE  Done(next, n, c) <=> Done(at, n, c) \/ (n = m /\ c = d)
    <3>1. n \in Nat /\ c \in Nat /\ c >= 1
      BY <1>6, <2>4
    <3>2. Done(at, n, c) <=> n < m \/ (n = m /\ c < d)
      BY DEF Done, m, d
    <3>3. Done(next, n, c) <=> n < m + 1 \/ (n = m + 1 /\ c < 1)
      BY <2>1 DEF Done
    <3>4. n = m => c <= d
      <4> SUFFICES ASSUME n = m PROVE c <= d
        OBVIOUS
      <4>1. c \in 1..G /\ d \in 1..G
        BY <1>3, <1>4, <2>4
      <4> QED BY <1>1, <1>4, <1>9, <4>1
    <3> QED BY <1>1, <3>1, <3>2, <3>3, <3>4
  <2> QED BY <2>1, <2>2, <2>3, <2>4 DEF next, m, d
<1> QED BY <1>8, <1>9

(* What a call gives is no fallback.                                        *)
LEMMA GivenValues ==
  ASSUME NEW e, IsParsed(e), NEW n, NEW c, IsCall(e, n, c)
  PROVE  Gets(e, n)[c].given \notin {Absent, Bare, Clean}
<1>1. NONE \notin {Absent, Bare, Clean} /\ e.name \notin {Absent, Bare, Clean}
      /\ \A i \in DOMAIN e.rows : e.rows[i].name \notin {Absent, Bare, Clean}
                                  /\ NumberGiven(e.rows[i]) \notin {Absent, Bare, Clean}
  BY CoreLoadAssumption DEF IsParsed, NumberGiven
<1>2. \A key, given : Get(key, given).given = given
  BY DEF Get
<1> QED BY <1>1, <1>2, CallShape

(* The calls for a team and for an alias are the second and the third.      *)
LEMMA TeamCalls ==
  ASSUME NEW e, IsParsed(e), NEW n, NEW c, IsCall(e, n, c)
  PROVE  /\ Gets(e, n)[c].key[1] = "teams" <=> n = 0 /\ c = 2
         /\ Gets(e, n)[c].key[1] = "team_aliases" <=> n = 0 /\ c = 3
<1>1. \A key, given : Get(key, given).key = key
  BY DEF Get
<1>2. \A p, t, y : /\ SeasonKey(y)[1] = "seasons" /\ TeamKey(t)[1] = "teams"
                   /\ AliasKey(t, y)[1] = "team_aliases" /\ TeamSeasonKey(t, y)[1] = "team_seasons"
                   /\ PlayerKey(p)[1] = "players" /\ PlayerSeasonKey(p, y)[1] = "player_seasons"
                   /\ StintKey(p, t, y)[1] = "player_team_seasons"
  BY DEF SeasonKey, TeamKey, AliasKey, TeamSeasonKey, PlayerKey, PlayerSeasonKey, StintKey, Key
<1>3. \/ n = 0 /\ c = 1 /\ Gets(e, n)[c].key[1] = "seasons"
      \/ n = 0 /\ c = 2 /\ Gets(e, n)[c].key[1] = "teams"
      \/ n = 0 /\ c = 3 /\ Gets(e, n)[c].key[1] = "team_aliases"
      \/ n = 0 /\ c = 4 /\ Gets(e, n)[c].key[1] = "team_seasons"
      \/ n # 0 /\ Gets(e, n)[c].key[1] \in {"players", "player_seasons", "player_team_seasons"}
  BY <1>1, <1>2, CallShape
<1> QED BY <1>3

-----------------------------------------------------------------------------
(* Writing a page.                                                          *)

(* Opening a page keeps the invariant.                                      *)
LEMMA OpenInv ==
  ASSUME IInv, NEW r \in Runs, OpenPage(r)
  PROVE  IInv'
<1> DEFINE e == Current(r)
<1>1. RunInv(r) /\ Shapes
  BY DEF IInv
<1>2. /\ pc[r] = "load" /\ Len(results[r]) < Len(parsed[r]) /\ e.status = "validated"
      /\ _validate_before_writes(e)
      /\ mark' = [mark EXCEPT ![r] = work[r]] /\ pc' = [pc EXCEPT ![r] = "select"]
      /\ UNCHANGED <<cache, options, core, log>>
      /\ inventory' = inventory /\ parsed' = parsed /\ results' = results /\ work' = work
      /\ step' = step /\ seen' = seen /\ team' = team /\ report' = report /\ core' = core
  BY DEF OpenPage, AtPage, reading
<1>3. pc'[r] = "select" /\ mark'[r] = work[r] /\ \A q \in Runs \ {r} : Same(q)
  BY <1>1, <1>2 DEF Shapes, Same
<1>4. Cache' /\ Logged' /\ Grows /\ IsTable(core')
  BY <1>2, Quiet
<1>5. Shapes'
  BY <1>1, <1>2, <1>4 DEF Shapes, Loading
<1>6. /\ Valid(r)' = Valid(r) /\ Selected(r)' = Selected(r)
      /\ Current(r)' = e /\ RunKeys(r)' = RunKeys(r) /\ Summary(r)' = Summary(r)
  BY <1>2, SelectionStays, PageStays
<1>7. IsLoadable(e) /\ KeysOf(e) \subseteq Keys
  BY <1>1, <1>2, CurrentEntry DEF Loading, IsLoadable, _validate_before_writes
<1>8. step[r] = FirstCall
  BY <1>1, <1>2 DEF RunInv, Position, AtRow
<1> HIDE DEF e
<1>9. \A k : ~Called(r, k)'
  BY <1>2, <1>6, <1>7, <1>8, NothingDone DEF Called, IsLoadable
<1>10. Lists(r)'
  BY <1>1, <1>2, <1>6 DEF RunInv, Lists
<1>11. Control(r)'
  BY <1>1, <1>2, <1>3, <1>6 DEF RunInv, Control, Loading, Over, AtRow
<1>12. Entries(r)'
  BY <1>1, <1>2, <1>6 DEF RunInv, Entries
<1>13. Results(r)'
  BY <1>1, <1>2 DEF RunInv, Results
<1>14. Position(r)'
  <2>1. /\ step'[r] \in [row : Nat, call : Nat] /\ pc'[r] \in AtRow /\ pc'[r] # "flush"
        /\ Current(r)'.status = "validated"
        /\ IsLoadable(Current(r)') /\ KeysOf(Current(r)') \subseteq Keys
    BY <1>1, <1>2, <1>3, <1>6, <1>7 DEF RunInv, Position, AtRow
  <2>2. IsCall(e, FirstCall.row, FirstCall.call) /\ \A n : n = 0 => ~Done(FirstCall, n, 2)
    BY <1>7, NothingDone DEF IsLoadable
  <2>3. IsCall(Current(r)', step'[r].row, step'[r].call) /\ \A n : n = 0 => ~Done(step'[r], n, 2)
    BY <1>2, <1>6, <1>8, <2>2
  <2> QED BY <2>1, <2>3 DEF Position
<1>15. Covered(r)'
  <2>1. \A k \in RunKeys(r) : View(r, k) # Absent
    BY <1>1, <1>2 DEF RunInv, Covered, Loading
  <2>2. \A k : View(r, k)' = View(r, k) /\ Marked(r, k)' = View(r, k)
    BY <1>2, <1>3 DEF View, Marked
  <2>3. pc'[r] \notin Over
    BY <1>3 DEF Over
  <2> QED BY <1>6, <1>9, <2>1, <2>2, <2>3 DEF Covered
<1>16. Contained(r)'
  <2>1. DOMAIN work[r] = Keys /\ \A k \in Keys :
           work[r][k] # Absent /\ (work[r][k] # Clean => k \in RunKeys(r))
    BY <1>1, <1>2 DEF RunInv, Contained, AtRow
  <2>2. work'[r] = work[r]
    BY <1>2
  <2> QED BY <1>3, <1>6, <2>1, <2>2 DEF Contained
<1>17. RunInv(r)'
  BY <1>10, <1>11, <1>12, <1>13, <1>14, <1>15, <1>16 DEF RunInv
<1> QED BY <1>3, <1>4, <1>5, <1>17, StepOf

(* The call that a run is at.                                               *)
LEMMA PresentCall ==
  ASSUME NEW r, RunInv(r), pc[r] \in AtRow,
         pc[r] = "flush" \/ step[r].row <= Len(Current(r).rows)
  PROVE  /\ IsLoadable(Current(r)) /\ IsParsed(Current(r))
         /\ IsCall(Current(r), step[r].row, step[r].call)
         /\ CurrentGet(r).key \in KeysOf(Current(r)) /\ CurrentGet(r).key \in Keys
<1>1. /\ IsLoadable(Current(r)) /\ KeysOf(Current(r)) \subseteq Keys
      /\ \/ IsCall(Current(r), step[r].row, step[r].call)
         \/ /\ pc[r] = "select"
            /\ step[r].row = Len(Current(r).rows) + 1 /\ step[r].call = 1
  BY DEF RunInv, Position
<1>2. IsParsed(Current(r)) /\ Len(Current(r).rows) \in Nat
  BY <1>1, ListShape DEF IsLoadable, IsParsed
<1>3. IsCall(Current(r), step[r].row, step[r].call)
  BY <1>1, <1>2
<1> QED BY <1>1, <1>2, <1>3, CalledKeys DEF CurrentGet

(* A SELECT keeps the invariant.                                            *)
LEMMA SelectInv ==
  ASSUME IInv, NEW r \in Runs, SelectRow(r)
  PROVE  IInv'
<1> DEFINE k0 == CurrentGet(r).key
<1>1. RunInv(r) /\ Shapes
  BY DEF IInv
<1>2. /\ pc[r] = "select" /\ step[r].row <= Len(Current(r).rows)
      /\ seen' = [seen EXCEPT ![r] = View(r, k0)] /\ pc' = [pc EXCEPT ![r] = "flush"]
      /\ UNCHANGED <<cache, options, core, log>>
      /\ inventory' = inventory /\ parsed' = parsed /\ results' = results /\ work' = work
      /\ mark' = mark /\ step' = step /\ team' = team /\ report' = report /\ core' = core
  BY DEF SelectRow, reading
<1>3. pc'[r] = "flush" /\ seen'[r] = View(r, k0) /\ \A q \in Runs \ {r} : Same(q)
  BY <1>1, <1>2 DEF Shapes, Same
<1>4. Cache' /\ Logged' /\ Grows /\ IsTable(core')
  BY <1>2, Quiet
<1>5. Shapes'
  BY <1>1, <1>2, <1>4 DEF Shapes, Loading
<1>6. /\ Valid(r)' = Valid(r) /\ Selected(r)' = Selected(r)
      /\ Current(r)' = Current(r) /\ RunKeys(r)' = RunKeys(r) /\ Summary(r)' = Summary(r)
  BY <1>2, SelectionStays, PageStays
<1>7. CurrentGet(r)' = CurrentGet(r) /\ \A k : /\ Called(r, k)' <=> Called(r, k)
                                              /\ View(r, k)' = View(r, k)
                                              /\ Marked(r, k)' = Marked(r, k)
  BY <1>2, <1>6 DEF CurrentGet, Called, View, Marked
<1>8. IsCall(Current(r), step[r].row, step[r].call) /\ k0 \in Keys
  BY <1>1, <1>2, PresentCall DEF AtRow
<1>9. Lists(r)'
  BY <1>1, <1>2, <1>6 DEF RunInv, Lists
<1>10. Control(r)'
  BY <1>1, <1>2, <1>3, <1>6 DEF RunInv, Control, Loading, Over, AtRow
<1>11. Entries(r)'
  BY <1>1, <1>2, <1>6 DEF RunInv, Entries
<1>12. Results(r)'
  BY <1>1, <1>2 DEF RunInv, Results
<1>13. View(r, k0) # Clean
  BY <1>1, <1>8 DEF Shapes, IsTable, View
<1>14. Position(r)'
  <2>1. /\ step'[r] \in [row : Nat, call : Nat] /\ pc'[r] \in AtRow
        /\ Current(r)'.status = "validated"
        /\ IsLoadable(Current(r)') /\ KeysOf(Current(r)') \subseteq Keys
        /\ \A n : n = 0 /\ Done(step'[r], n, 2) => team'[r] \notin {Absent, Clean}
    BY <1>1, <1>2, <1>3, <1>6 DEF RunInv, Position, AtRow
  <2>2. IsCall(Current(r)', step'[r].row, step'[r].call)
    BY <1>2, <1>6, <1>8
  <2>3. seen'[r] # Clean /\ (seen'[r] # Absent => View(r, CurrentGet(r).key)' # Absent)
    BY <1>3, <1>7, <1>13
  <2> QED BY <2>1, <2>2, <2>3 DEF Position
<1>15. Covered(r)'
  <2>1. pc'[r] \notin Over /\ pc[r] \in AtRow /\ pc[r] \in Loading
    BY <1>2, <1>3 DEF Over, AtRow, Loading
  <2> QED BY <1>1, <1>6, <1>7, <2>1 DEF Covered, RunInv
<1>16. Contained(r)'
  <2>1. pc'[r] \in AtRow /\ pc[r] \in AtRow /\ work'[r] = work[r] /\ mark'[r] = mark[r]
    BY <1>2, <1>3 DEF AtRow
  <2> QED BY <1>1, <1>6, <1>7, <2>1 DEF Contained, RunInv
<1>17. RunInv(r)'
  BY <1>9, <1>10, <1>11, <1>12, <1>14, <1>15, <1>16 DEF RunInv
<1> QED BY <1>3, <1>4, <1>5, <1>17, StepOf

(* What a call stores is a value.                                           *)
LEMMA NewValueFacts ==
  ASSUME NEW r, RunInv(r), pc[r] = "flush"
  PROVE  /\ Given(r) \notin {Absent, Clean}
         /\ NewValue(r) \notin {Absent, Clean}
<1> DEFINE e == Current(r)
           get == CurrentGet(r)
<1>1. pc[r] \in AtRow
  BY DEF AtRow
<1>2. IsParsed(e) /\ IsCall(e, step[r].row, step[r].call)
  BY <1>1, PresentCall
<1>3. get = Gets(e, step[r].row)[step[r].call]
  BY DEF CurrentGet
<1>4. get.given \notin {Absent, Bare, Clean}
  BY <1>2, <1>3, GivenValues
<1>5. get.key[1] = "team_aliases" => team[r] \notin {Absent, Clean}
  <2> SUFFICES ASSUME get.key[1] = "team_aliases" PROVE team[r] \notin {Absent, Clean}
    OBVIOUS
  <2>1. step[r].row = 0 /\ step[r].call = 3
    BY <1>2, <1>3, TeamCalls
  <2>2. \E n : n = 0 /\ Done(step[r], n, 2)
    BY <2>1 DEF Done
  <2> QED BY <1>1, <2>2 DEF RunInv, Position
<1> HIDE DEF get
<1>6. Given(r) \notin {Absent, Clean}
  BY <1>4, <1>5 DEF Given, get
<1>7. seen[r] # Clean
  BY DEF RunInv, Position
<1>8. NewValue(r) = Stored(get.key, Given(r), seen[r])
  BY DEF NewValue, get
<1>9. NewValue(r) \notin {Absent, Clean}
  BY <1>6, <1>7, <1>8 DEF Stored, Bare, Absent, Clean
<1> QED BY <1>6, <1>9

(* A flush keeps the invariant.                                             *)
LEMMA FlushInv ==
  ASSUME IInv, NEW r \in Runs, FlushRow(r)
  PROVE  IInv'
<1> DEFINE e == Current(r)
           k0 == CurrentGet(r).key
           v == NewValue(r)
           at == step[r]
           next == NextCall(e, at)
<1>1. RunInv(r) /\ Shapes
  BY DEF IInv
<1>2. /\ pc[r] = "flush" /\ ~Violates(r)
      /\ work' = IF v = seen[r] THEN work ELSE [work EXCEPT ![r][k0] = v]
      /\ team' = IF k0[1] = "teams" THEN [team EXCEPT ![r] = v] ELSE team
      /\ step' = [step EXCEPT ![r] = next]
      /\ seen' = [seen EXCEPT ![r] = Absent] /\ pc' = [pc EXCEPT ![r] = "select"]
      /\ UNCHANGED <<cache, options, core, log>>
      /\ inventory' = inventory /\ parsed' = parsed /\ results' = results
      /\ mark' = mark /\ report' = report /\ core' = core
  BY DEF FlushRow, AtFlush, reading
<1>3. pc[r] \in AtRow /\ pc[r] \in Loading
  BY <1>2 DEF AtRow, Loading
<1>4. IsLoadable(e) /\ IsParsed(e) /\ IsCall(e, at.row, at.call) /\ k0 \in Keys
      /\ k0 = Gets(e, at.row)[at.call].key /\ KeysOf(e) \subseteq Keys /\ e.status = "validated"
  BY <1>1, <1>2, <1>3, PresentCall DEF CurrentGet, RunInv, Position
<1>5. v \notin {Absent, Clean}
  BY <1>1, <1>2, NewValueFacts
<1>6. at \in [row : Nat, call : Nat]
  BY <1>1 DEF RunInv, Position
<1>7. /\ next \in [row : Nat, call : Nat]
      /\ \/ IsCall(e, next.row, next.call)
         \/ next.row = Len(e.rows) + 1 /\ next.call = 1
      /\ \A n, c : IsCall(e, n, c) =>
           (Done(next, n, c) <=> Done(at, n, c) \/ (n = at.row /\ c = at.call))
  BY <1>4, <1>6, NextCallFacts
<1>8. k0[1] = "teams" <=> at.row = 0 /\ at.call = 2
  BY <1>4, TeamCalls
<1> HIDE DEF next
<1>9. /\ Valid(r)' = Valid(r) /\ Selected(r)' = Selected(r)
      /\ Current(r)' = e /\ RunKeys(r)' = RunKeys(r) /\ Summary(r)' = Summary(r)
  BY <1>2, SelectionStays, PageStays
<1> HIDE DEF e, k0, v, at
<1>10. /\ pc'[r] = "select" /\ step'[r] = next /\ mark'[r] = mark[r]
       /\ team'[r] = IF k0[1] = "teams" THEN v ELSE team[r]
       /\ \A q \in Runs \ {r} : Same(q)
  BY <1>1, <1>2 DEF Shapes, Same
<1>11. DOMAIN work[r] = Keys
  BY <1>1 DEF RunInv, Contained
<1>12. /\ DOMAIN work'[r] = Keys /\ DOMAIN work' = Runs
       /\ \A k \in Keys : work'[r][k] = IF k = k0 /\ v # seen[r] THEN v ELSE work[r][k]
  BY <1>1, <1>2, <1>4, <1>11 DEF Shapes
<1>13. Cache' /\ Logged' /\ Grows /\ IsTable(core')
  BY <1>2, Quiet
<1>14. Shapes'
  <2>1. DOMAIN team' = Runs /\ DOMAIN step' = Runs /\ DOMAIN seen' = Runs
    BY <1>1, <1>2 DEF Shapes
  <2>2. pc' \in [Runs -> Ended \union Loading \union {"inventory", "process"}]
    BY <1>1, <1>2 DEF Shapes, Loading
  <2> QED BY <1>1, <1>2, <1>12, <1>13, <2>1, <2>2 DEF Shapes
<1>15. \A k : Called(r, k)' <=> Called(r, k) \/ k = k0
  <2>1. \A k : Called(r, k)' <=> \E n, c : IsCall(e, n, c) /\ Done(next, n, c) /\ Gets(e, n)[c].key = k
    BY <1>9, <1>10 DEF Called
  <2>2. \A k : Called(r, k) <=> \E n, c : IsCall(e, n, c) /\ Done(at, n, c) /\ Gets(e, n)[c].key = k
    BY DEF Called, e, at
  <2> QED BY <1>4, <1>7, <2>1, <2>2
<1>16. \A k \in Keys : /\ View(r, k) # Absent \/ k = k0 => View(r, k)' # Absent
                       /\ Marked(r, k)' = Marked(r, k)
  <2>1. ASSUME NEW k \in Keys, k = k0
        PROVE  View(r, k)' # Absent
    <3>1. CASE v # seen[r]
      <4>1. work'[r][k] = v
        BY <1>12, <2>1, <3>1
      <4> QED BY <1>5, <4>1 DEF View
    <3>2. CASE v = seen[r]
      <4>1. work'[r][k] = work[r][k] /\ seen[r] # Absent
        BY <1>5, <1>12, <2>1, <3>2
      <4>2. View(r, k) # Absent
        BY <1>1, <1>2, <2>1, <4>1 DEF RunInv, Position, k0
      <4> QED BY <1>2, <4>1, <4>2 DEF View
    <3> QED BY <3>1, <3>2
  <2>2. \A k \in Keys : k # k0 => View(r, k)' = View(r, k)
    BY <1>2, <1>12 DEF View
  <2>3. \A k : Marked(r, k)' = Marked(r, k)
    BY <1>2, <1>10 DEF Marked
  <2> QED BY <2>1, <2>2, <2>3
<1>17. Lists(r)'
  BY <1>1, <1>2, <1>9 DEF RunInv, Lists
<1>18. Control(r)'
  BY <1>1, <1>2, <1>3, <1>9, <1>10 DEF RunInv, Control, Loading, Over, AtRow
<1>19. Entries(r)'
  BY <1>1, <1>2, <1>9 DEF RunInv, Entries
<1>20. Results(r)'
  BY <1>1, <1>2 DEF RunInv, Results
<1>21. Position(r)'
  <2>1. \A n : n = 0 /\ Done(next, n, 2) => team'[r] \notin {Absent, Clean}
    <3> SUFFICES ASSUME NEW n, n = 0, Done(next, n, 2) PROVE team'[r] \notin {Absent, Clean}
      OBVIOUS
    <3>1. CASE k0[1] = "teams"
      BY <1>5, <1>10, <3>1
    <3>2. CASE k0[1] # "teams"
      <4>1. IsCall(e, n, 2)
        BY <1>4, CallsOfPage
      <4>2. Done(at, n, 2)
        BY <1>7, <1>8, <3>2, <4>1
      <4>3. team[r] \notin {Absent, Clean}
        BY <1>1, <1>3, <4>2 DEF RunInv, Position, at
      <4> QED BY <1>10, <3>2, <4>3
    <3> QED BY <3>1, <3>2
  <2>2. pc'[r] \in AtRow /\ pc'[r] # "flush" /\ pc'[r] = "select"
    BY <1>10 DEF AtRow
  <2> QED BY <1>4, <1>7, <1>9, <1>10, <2>1, <2>2 DEF Position
<1>22. Covered(r)'
  <2>1. pc'[r] \notin Over
    BY <1>10 DEF Over
  <2>2. \A k : Called(r, k)' => k \in Keys
    <3>1. \A k : Called(r, k) => k \in KeysOf(e)
      BY <1>4, CalledKeys DEF Called, e
    <3> QED BY <1>4, <1>15, <3>1
  <2>3. RunKeys(r) \subseteq Keys
    BY <1>1 DEF RunInv, Results, RunKeys, With
  <2>4. (\A k : Called(r, k) => View(r, k) # Absent)
        /\ \A k \in RunKeys(r) : View(r, k) # Absent /\ Marked(r, k) # Absent
    BY <1>1, <1>3 DEF RunInv, Covered
  <2>5. \A k : Called(r, k)' => View(r, k)' # Absent
    BY <1>15, <1>16, <2>2, <2>4
  <2>6. \A k \in RunKeys(r)' : View(r, k)' # Absent /\ Marked(r, k)' # Absent
    BY <1>9, <1>16, <2>3, <2>4
  <2> QED BY <2>1, <2>5, <2>6 DEF Covered
<1>23. Contained(r)'
  <2>1. \A k \in Keys :
       /\ work[r][k] # Absent /\ mark[r][k] # Absent
       /\ work[r][k] # Clean => k \in RunKeys(r) \/ Called(r, k)
       /\ mark[r][k] # Clean => k \in RunKeys(r)
    BY <1>1, <1>3 DEF RunInv, Contained
  <2>2. DOMAIN mark[r] = Keys
    BY <1>1 DEF RunInv, Contained
  <2>3. pc'[r] \in AtRow
    BY <1>10 DEF AtRow
  <2> QED BY <1>5, <1>9, <1>10, <1>12, <1>15, <2>1, <2>2, <2>3 DEF Contained
<1>24. RunInv(r)'
  BY <1>17, <1>18, <1>19, <1>20, <1>21, <1>22, <1>23 DEF RunInv
<1> QED BY <1>10, <1>13, <1>14, <1>24, StepOf

-----------------------------------------------------------------------------
(* The end of a run.                                                        *)

(* Two lists after each other.                                              *)
LEMMA Joined ==
  ASSUME NEW g, IsList(g), NEW h, IsList(h)
  PROVE  /\ IsList(g \o h) /\ Len(g \o h) = Len(g) + Len(h)
         /\ \A i \in 1..Len(g) : (g \o h)[i] = g[i]
         /\ \A i \in 1..Len(h) : (g \o h)[Len(g) + i] = h[i]
         /\ \A i \in 1..(Len(g) + Len(h)) : i \in 1..Len(g) \/ i - Len(g) \in 1..Len(h)
         /\ \A i \in 1..(Len(g) + Len(h)) :
              (g \o h)[i] = IF i \in 1..Len(g) THEN g[i] ELSE h[i - Len(g)]
<1>1. Len(g) \in Nat /\ Len(h) \in Nat
  BY ListShape
<1> DEFINE A == {g[i] : i \in DOMAIN g} \union {h[i] : i \in DOMAIN h}
<1>2. g \in Seq(A) /\ h \in Seq(A)
  <2>1. g \in Seq({g[i] : i \in DOMAIN g}) /\ h \in Seq({h[i] : i \in DOMAIN h})
    BY DEF IsList
  <2>2. g \in [1..Len(g) -> A] /\ h \in [1..Len(h) -> A]
    BY <2>1
  <2> HIDE DEF A
  <2> QED BY <1>1, <2>2
<1>3. g \o h \in Seq(A) /\ Len(g \o h) = Len(g) + Len(h)
      /\ \A i \in 1..(Len(g) + Len(h)) :
              (g \o h)[i] = IF i \in 1..Len(g) THEN g[i] ELSE h[i - Len(g)]
  <2> HIDE DEF A
  <2> QED BY <1>1, <1>2
<1> HIDE DEF A
<1>4. IsList(g \o h)
  <2> DEFINE f == g \o h
  <2>1. f \in Seq(A)
    BY <1>3
  <2> HIDE DEF f
  <2>2. Len(f) \in Nat /\ f = [i \in 1..Len(f) |-> f[i]]
    BY <2>1
  <2>3. IsList(f)
    <3>1. PICK c \in Nat : c = Len(f)
      BY <2>2
    <3> QED BY <2>2, <3>1, ListOf
  <2> QED BY <2>3 DEF f
<1>5. \A i \in 1..Len(h) : Len(g) + i \in 1..(Len(g) + Len(h)) /\ Len(g) + i \notin 1..Len(g)
                           /\ Len(g) + i - Len(g) = i
  BY <1>1
<1>6. \A i \in 1..(Len(g) + Len(h)) : i \in 1..Len(g) \/ i - Len(g) \in 1..Len(h)
  BY <1>1
<1>7. \A i \in 1..Len(g) : i \in 1..(Len(g) + Len(h))
  BY <1>1
<1>8. \A i \in 1..Len(g) : (g \o h)[i] = g[i]
  BY <1>3, <1>7
<1>9. \A i \in 1..Len(h) : (g \o h)[Len(g) + i] = h[i]
  BY <1>3, <1>5
<1> QED BY <1>3, <1>4, <1>6, <1>8, <1>9

(* The pages of a list that is continued.                                   *)
LEMMA JoinedPages ==
  ASSUME NEW g, IsList(g), NEW h, IsList(h), NEW f, f = g \o h, NEW n, n = Len(f)
  PROVE  /\ DOMAIN f = 1..n /\ DOMAIN g = 1..Len(g) /\ DOMAIN h = 1..Len(h)
         /\ \A i \in 1..n : (\E j \in 1..Len(g) : f[i] = g[j]) \/ (\E j \in 1..Len(h) : f[i] = h[j])
         /\ \A j \in 1..Len(g) : \E i \in 1..n : f[i] = g[j]
         /\ \A j \in 1..Len(h) : \E i \in 1..n : f[i] = h[j]
<1>1. /\ Len(g) \in Nat /\ DOMAIN g = 1..Len(g)
      /\ Len(h) \in Nat /\ DOMAIN h = 1..Len(h)
  BY ListShape
<1>2. /\ IsList(f) /\ n = Len(g) + Len(h)
      /\ \A i \in 1..Len(g) : f[i] = g[i]
      /\ \A i \in 1..Len(h) : f[Len(g) + i] = h[i]
      /\ \A i \in 1..n : i \in 1..Len(g) \/ i - Len(g) \in 1..Len(h)
      /\ \A i \in 1..n : f[i] = IF i \in 1..Len(g) THEN g[i] ELSE h[i - Len(g)]
  BY Joined
<1>3. DOMAIN f = 1..n
  BY <1>2, ListShape
<1>4. \A i \in 1..n : (\E j \in 1..Len(g) : f[i] = g[j]) \/ (\E j \in 1..Len(h) : f[i] = h[j])
  <2> SUFFICES ASSUME NEW i \in 1..n, i \notin 1..Len(g)
               PROVE  \E j \in 1..Len(h) : f[i] = h[j]
    BY <1>2
  <2> DEFINE at == i - Len(g)
  <2>1. at \in 1..Len(h) /\ Len(g) + at = i
    BY <1>1, <1>2
  <2>2. \A j \in 1..Len(h) : f[Len(g) + j] = h[j]
    BY <1>2
  <2> HIDE DEF at
  <2>3. f[Len(g) + at] = h[at]
    BY <2>1, <2>2
  <2> QED BY <2>1, <2>3
<1>5. (\A j \in 1..Len(g) : \E i \in 1..n : f[i] = g[j]) /\ \A j \in 1..Len(h) : \E i \in 1..n : f[i] = h[j]
  <2>1. \A j \in 1..Len(g) : j \in 1..n
    BY <1>1, <1>2
  <2>2. \A j \in 1..Len(h) : Len(g) + j \in 1..n
    BY <1>1, <1>2
  <2>3. \A j \in 1..Len(h) : f[Len(g) + j] = h[j]
    BY <1>2
  <2>4. \A j \in 1..Len(g) : f[j] = g[j]
    BY <1>2
  <2>5. \A j \in 1..Len(g) : \E i \in 1..n : f[i] = g[j]
    BY <2>1, <2>4
  <2>6. \A j \in 1..Len(h) : \E i \in 1..n : f[i] = h[j]
    BY <2>2, <2>3, Zenon
  <2> QED BY <2>5, <2>6
<1> QED BY <1>1, <1>3, <1>4, <1>5

(* The rows of two lists of pages are those of both.                        *)
LEMMA JoinedKeys ==
  ASSUME NEW g, IsList(g), NEW h, IsList(h)
  PROVE  /\ KeysOfAll(g \o h) = KeysOfAll(g) \union KeysOfAll(h)
         /\ ArePages(g, Len(g)) /\ ArePages(h, Len(h)) => ArePages(g \o h, Len(g \o h))
<1>0. PICK f, n : f = g \o h /\ n = Len(f)
  OBVIOUS
<1>1. /\ DOMAIN f = 1..n /\ DOMAIN g = 1..Len(g) /\ DOMAIN h = 1..Len(h)
      /\ \A i \in 1..n : (\E j \in 1..Len(g) : f[i] = g[j]) \/ (\E j \in 1..Len(h) : f[i] = h[j])
      /\ \A j \in 1..Len(g) : \E i \in 1..n : f[i] = g[j]
      /\ \A j \in 1..Len(h) : \E i \in 1..n : f[i] = h[j]
  BY <1>0, JoinedPages
<1>2. KeysOfAll(f) = KeysOfAll(g) \union KeysOfAll(h)
  BY <1>1 DEF KeysOfAll
<1>3. ArePages(g, Len(g)) /\ ArePages(h, Len(h)) => ArePages(f, n)
  BY <1>1 DEF ArePages
<1> QED BY <1>0, <1>2, <1>3

(* The names and numbers of a list that is continued.                       *)
LEMMA JoinedGiven ==
  ASSUME NEW g, IsList(g), NEW h, IsList(h), NEW k
  PROVE  AllGiven(g \o h, k) = AllGiven(g, k) \union AllGiven(h, k)
<1>0. PICK f, n : f = g \o h /\ n = Len(f)
  OBVIOUS
<1>1. /\ DOMAIN f = 1..n /\ DOMAIN g = 1..Len(g) /\ DOMAIN h = 1..Len(h)
      /\ \A i \in 1..n : (\E j \in 1..Len(g) : f[i] = g[j]) \/ (\E j \in 1..Len(h) : f[i] = h[j])
      /\ \A j \in 1..Len(g) : \E i \in 1..n : f[i] = g[j]
      /\ \A j \in 1..Len(h) : \E i \in 1..n : f[i] = h[j]
  BY <1>0, JoinedPages
<1>2. AllGiven(f, k) = AllGiven(g, k) \union AllGiven(h, k)
  BY <1>1 DEF AllGiven
<1> QED BY <1>0, <1>2

(* What a run commits.                                                      *)
LEMMA NoPageFacts ==
  KeysOf(NoPage) = {} /\ IsParsed(NoPage) /\ \A k : GivenBy(NoPage, k) = {}
<1>1. NoPage.team = NONE /\ NoPage.name = NONE /\ NoPage.rows = <<>> /\ DOMAIN NoPage.rows = {}
  BY DEF NoPage
<1>2. KeysOf(NoPage) = {}
  BY <1>1 DEF KeysOf
<1>3. IsList(NoPage.rows)
  BY <1>1 DEF IsList
<1> QED BY <1>1, <1>2, <1>3, CoreLoadAssumption DEF IsParsed, GivenBy

(* What a run commits is the list of its loaded pages.                      *)
LEMMA LoadedPagesFacts ==
  ASSUME NEW r \in Runs, RunInv(r)
  PROVE  /\ IsList(LoadedPages(r)) /\ Len(LoadedPages(r)) = Len(results[r])
         /\ ArePages(LoadedPages(r), Len(LoadedPages(r)))
         /\ KeysOfAll(LoadedPages(r)) = RunKeys(r)
<1> DEFINE l == results[r]
           c == Len(l)
           p == LoadedPages(r)
<1>1. c \in Nat /\ DOMAIN l = 1..c
  BY DEF RunInv, Lists
<1>2. DOMAIN p = 1..c /\ \A i \in 1..c : p[i] = IF l[i] = "loaded" THEN parsed[r][i] ELSE NoPage
  BY <1>1 DEF LoadedPages
<1>3. p = [i \in 1..c |-> p[i]]
  BY <1>1 DEF LoadedPages
<1>4. Len(parsed[r]) \in Nat /\ DOMAIN parsed[r] = 1..Len(parsed[r])
  BY ListShape DEF RunInv, Lists
<1>5. \A i \in 1..c : l[i] = "loaded" => IsParsed(parsed[r][i]) /\ KeysOf(parsed[r][i]) \subseteq Keys
  BY <1>1 DEF RunInv, Results, IsLoadable
<1> HIDE DEF p
<1>6. IsList(p) /\ Len(p) = c
  <2> HIDE DEF c
  <2> QED BY <1>1, <1>3, ListOf
<1>7. ArePages(p, c)
  BY <1>2, <1>5, NoPageFacts DEF ArePages
<1>8. KeysOfAll(p) = UNION {KeysOf(p[i]) : i \in 1..c}
  BY <1>2 DEF KeysOfAll
<1>9. RunKeys(r) = UNION {KeysOf(parsed[r][i]) : i \in {j \in 1..c : l[j] = "loaded"}}
  BY <1>1 DEF RunKeys, With
<1> HIDE DEF c, l
<1>10. KeysOfAll(p) = RunKeys(r)
  BY <1>2, <1>8, <1>9, NoPageFacts
<1> QED BY <1>6, <1>7, <1>10 DEF p, c, l

(* A commit keeps the invariant.                                            *)
LEMMA CommitInv ==
  ASSUME IInv, NEW r \in Runs, Commit(r)
  PROVE  IInv'
<1>1. RunInv(r) /\ Shapes /\ Logged /\ Cache
  BY DEF IInv
<1>2. /\ pc[r] = "load" /\ Len(results[r]) = Len(parsed[r])
      /\ core' = [k \in Keys |-> View(r, k)] /\ work' = [work EXCEPT ![r] = Untouched]
      /\ log' = log \o LoadedPages(r) /\ pc' = [pc EXCEPT ![r] = "committed"]
      /\ archive' = archive /\ changes' = changes /\ overlap' = overlap /\ workers' = workers
      /\ inventory' = inventory /\ parsed' = parsed /\ results' = results
      /\ mark' = mark /\ step' = step /\ seen' = seen /\ team' = team /\ report' = report
  BY DEF Commit, cache, options, reading
<1>3. pc'[r] = "committed" /\ work'[r] = Untouched /\ \A q \in Runs \ {r} : Same(q)
  BY <1>1, <1>2 DEF Shapes, Same
<1>4. DOMAIN work[r] = Keys /\ (\A k \in RunKeys(r) : View(r, k) # Absent)
      /\ \A k \in Keys : work[r][k] # Absent /\ (work[r][k] # Clean => k \in RunKeys(r))
  BY <1>1, <1>2 DEF RunInv, Contained, Covered, AtRow, Loading
<1>5. RunKeys(r) \subseteq Keys
  BY <1>1 DEF RunInv, Results, RunKeys, With
<1>6. /\ IsList(LoadedPages(r)) /\ ArePages(LoadedPages(r), Len(LoadedPages(r)))
      /\ KeysOfAll(LoadedPages(r)) = RunKeys(r)
  BY <1>1, <1>2, LoadedPagesFacts
<1>7. \A k \in Keys : core'[k] = View(r, k) /\ core'[k] # Clean
                      /\ (core[k] # Absent => core'[k] # Absent)
  BY <1>1, <1>2, <1>4 DEF Shapes, IsTable, View
<1>8. Grows /\ IsTable(core')
  BY <1>2, <1>7 DEF Grows, IsTable
<1>9. Present' = Present \union RunKeys(r)
  <2>1. \A k \in Keys : core'[k] # Absent <=> core[k] # Absent \/ k \in RunKeys(r)
    BY <1>4, <1>7 DEF View
  <2> QED BY <1>5, <2>1 DEF Present
<1>10. Logged'
  <2> DEFINE p == LoadedPages(r)
  <2>1. IsList(log) /\ ArePages(log, Len(log)) /\ KeysOfAll(log) = Present
    BY <1>1 DEF Logged
  <2>2. IsList(p) /\ ArePages(p, Len(p)) /\ KeysOfAll(p) = RunKeys(r)
    BY <1>6
  <2> HIDE DEF p
  <2>3. IsList(log \o p) /\ ArePages(log \o p, Len(log \o p))
        /\ KeysOfAll(log \o p) = KeysOfAll(log) \union KeysOfAll(p)
    BY <2>1, <2>2, Joined, JoinedKeys
  <2>4. log' = log \o p
    BY <1>2 DEF p
  <2>5. KeysOfAll(log') = Present \union RunKeys(r)
    BY <2>1, <2>2, <2>3, <2>4
  <2>6. IsList(log') /\ ArePages(log', Len(log'))
    BY <2>3, <2>4
  <2> QED BY <1>9, <2>5, <2>6 DEF Logged
<1>11. Cache'
  BY <1>1, <1>2 DEF Cache
<1>12. Shapes'
  BY <1>1, <1>2, <1>8 DEF Shapes, Ended
<1>13. /\ Valid(r)' = Valid(r) /\ Selected(r)' = Selected(r)
       /\ RunKeys(r)' = RunKeys(r) /\ Summary(r)' = Summary(r)
  BY <1>2, SelectionStays, PageStays
<1>14. Lists(r)'
  BY <1>1, <1>2, <1>13 DEF RunInv, Lists
<1>15. Control(r)'
  <2>1. Untouched' = Untouched
    BY DEF Untouched
  <2> QED BY <1>1, <1>2, <1>3, <1>13, <2>1 DEF RunInv, Control, Loading, Over, AtRow
<1>16. Entries(r)'
  BY <1>1, <1>2, <1>13 DEF RunInv, Entries
<1>17. Results(r)'
  BY <1>1, <1>2 DEF RunInv, Results
<1>18. Position(r)'
  BY <1>1, <1>2, <1>3 DEF RunInv, Position, AtRow
<1>19. Covered(r)'
  BY <1>3, <1>4, <1>5, <1>7, <1>13 DEF Covered, AtRow, Loading
<1>20. Contained(r)'
  <2>1. \A k \in Keys : work'[r][k] = Clean /\ DOMAIN work'[r] = Keys
    BY <1>3 DEF Untouched
  <2>2. DOMAIN work'[r] = Keys
    BY <1>3 DEF Untouched
  <2>3. DOMAIN mark'[r] = Keys /\ \A k \in Keys : mark'[r][k] # Absent
    BY <1>1, <1>2 DEF RunInv, Contained
  <2>4. pc'[r] \notin AtRow /\ Clean # Absent
    BY <1>3 DEF AtRow, Clean, Absent
  <2> QED BY <2>1, <2>2, <2>3, <2>4 DEF Contained
<1>21. RunInv(r)'
  BY <1>14, <1>15, <1>16, <1>17, <1>18, <1>19, <1>20 DEF RunInv
<1> QED BY <1>3, <1>8, <1>10, <1>11, <1>12, <1>21, StepOf

(* Saving the report keeps the invariant.                                   *)
LEMMA SaveInv ==
  ASSUME IInv, NEW r \in Runs, SaveReport(r)
  PROVE  IInv'
<1>1. RunInv(r) /\ Shapes
  BY DEF IInv
<1>2. /\ pc[r] = "committed" /\ pc' = [pc EXCEPT ![r] = "done"]
      /\ report' = [report EXCEPT ![r] = <<Summary(r)>>]
      /\ UNCHANGED <<cache, options, core, log>>
      /\ inventory' = inventory /\ parsed' = parsed /\ results' = results /\ work' = work
      /\ mark' = mark /\ step' = step /\ seen' = seen /\ team' = team
  BY DEF SaveReport, reading, session
<1>3. /\ pc'[r] = "done" /\ report'[r] = <<Summary(r)>> /\ \A q \in Runs \ {r} : Same(q)
      /\ core' = core
  BY <1>1, <1>2 DEF Shapes, Same
<1>4. Cache' /\ Logged' /\ Grows /\ IsTable(core')
  BY <1>2, Quiet
<1>5. Shapes'
  BY <1>1, <1>2, <1>4 DEF Shapes, Ended, Loading
<1>6. /\ Valid(r)' = Valid(r) /\ Selected(r)' = Selected(r)
      /\ RunKeys(r)' = RunKeys(r) /\ Summary(r)' = Summary(r)
  BY <1>2, SelectionStays, PageStays
<1>7. Lists(r)'
  BY <1>2, <1>1, <1>6 DEF RunInv, Lists
<1>8. Control(r)'
  BY <1>1, <1>2, <1>3, <1>6 DEF RunInv, Control, Loading, Over, AtRow
<1>9. Entries(r)'
  BY <1>1, <1>2, <1>6 DEF RunInv, Entries
<1>10. Results(r)'
  BY <1>1, <1>2 DEF RunInv, Results
<1>11. Position(r)'
  BY <1>1, <1>2, <1>3 DEF RunInv, Position, AtRow
<1>12. Covered(r)'
  BY <1>1, <1>2, <1>3, <1>6 DEF RunInv, Covered, AtRow, Loading, Over
<1>13. Contained(r)'
  BY <1>1, <1>2, <1>3, <1>6 DEF RunInv, Contained, AtRow
<1>14. RunInv(r)'
  BY <1>7, <1>8, <1>9, <1>10, <1>11, <1>12, <1>13 DEF RunInv
<1> QED BY <1>3, <1>4, <1>5, <1>14, StepOf

(* A run that died has nothing left.                                        *)
LEMMA CrashInv ==
  ASSUME IInv, NEW r \in Runs, Crash(r)
  PROVE  IInv'
<1>1. RunInv(r) /\ Shapes
  BY DEF IInv
<1>2. /\ pc[r] \notin {"idle", "done", "crashed"} /\ pc' = [pc EXCEPT ![r] = "crashed"]
      /\ UNCHANGED <<cache, options, core, log>> /\ report' = report
      /\ inventory' = [inventory EXCEPT ![r] = <<>>] /\ parsed' = [parsed EXCEPT ![r] = <<>>]
      /\ results' = [results EXCEPT ![r] = <<>>] /\ work' = [work EXCEPT ![r] = Untouched]
      /\ mark' = [mark EXCEPT ![r] = Untouched] /\ step' = [step EXCEPT ![r] = FirstCall]
      /\ seen' = [seen EXCEPT ![r] = Absent] /\ team' = [team EXCEPT ![r] = Absent]
  BY DEF Crash
<1>3. /\ pc'[r] = "crashed" /\ inventory'[r] = <<>> /\ parsed'[r] = <<>> /\ results'[r] = <<>>
      /\ work'[r] = Untouched /\ mark'[r] = Untouched /\ step'[r] = FirstCall
      /\ report'[r] = report[r] /\ \A q \in Runs \ {r} : Same(q)
  BY <1>1, <1>2 DEF Shapes, Same
<1>4. Cache' /\ Logged' /\ Grows /\ IsTable(core')
  BY <1>2, Quiet
<1>5. Shapes'
  BY <1>1, <1>2, <1>4 DEF Shapes, Ended, Loading
<1>6. RunKeys(r)' = {}
  BY <1>3, NothingLoaded
<1>7. Lists(r)'
  <2>1. Len(Files) \in Nat
    BY CoreLoadAssumption, ListShape
  <2>2. Valid(r)' = {}
    BY <1>3 DEF Valid
  <2>3. IsList(parsed'[r])
    BY <1>3 DEF IsList
  <2>4. inventory'[r] \in Seq(Statuses) /\ results'[r] \in Seq(Outcomes)
        /\ Len(inventory'[r]) = 0 /\ Len(results'[r]) = 0 /\ Len(parsed'[r]) = 0
    BY <1>3
  <2> QED BY <2>1, <2>2, <2>3, <2>4 DEF Lists
<1>8. Control(r)'
  <2>1. report'[r] = <<>>
    BY <1>1, <1>2, <1>3 DEF RunInv, Control
  <2>2. Untouched' = Untouched
    BY DEF Untouched
  <2> QED BY <1>3, <2>1, <2>2 DEF Control, Loading, Over, AtRow
<1>9. Entries(r)' /\ Results(r)'
  BY <1>3 DEF Entries, Results
<1>10. Position(r)'
  BY <1>3 DEF Position, AtRow, FirstCall
<1>11. Covered(r)'
  BY <1>3, <1>6 DEF Covered, AtRow
<1>12. Contained(r)'
  BY <1>3 DEF Contained, Untouched, AtRow, Clean, Absent
<1>13. RunInv(r)'
  BY <1>7, <1>8, <1>9, <1>10, <1>11, <1>12 DEF RunInv
<1> QED BY <1>3, <1>4, <1>5, <1>13, StepOf

-----------------------------------------------------------------------------
(* What happens beside the runs.                                            *)

(* Replacing a cached file keeps the invariant.                             *)
LEMMA ReplaceInv ==
  ASSUME IInv, NEW n \in DOMAIN Files, NEW content \in MayHold[n], ReplaceFile(n, content)
  PROVE  IInv'
<1>1. Cache /\ Shapes /\ Logged
  BY DEF IInv
<1>2. /\ changes < MaxChanges /\ archive' = [archive EXCEPT ![n] = content]
      /\ changes' = changes + 1 /\ overlap' = overlap /\ workers' = workers
      /\ core' = core /\ log' = log /\ pc' = pc /\ report' = report
      /\ inventory' = inventory /\ parsed' = parsed /\ results' = results /\ work' = work
      /\ mark' = mark /\ step' = step /\ seen' = seen /\ team' = team
  BY DEF ReplaceFile, options, reading, session
<1>3. Cache'
  <2>1. changes' \in 0..MaxChanges
    BY <1>1, <1>2, CoreLoadAssumption DEF Cache
  <2> QED BY <1>1, <1>2, <2>1 DEF Cache
<1>4. Grows /\ \A q \in Runs : Same(q)
  BY <1>2 DEF Grows, Same
<1>5. Logged'
  <2>1. Present' = Present
    BY <1>2 DEF Present
  <2> QED BY <1>1, <1>2, <2>1 DEF Logged
<1>6. Shapes'
  BY <1>1, <1>2 DEF Shapes
<1>7. \A q \in Runs : RunInv(q)'
  <2> SUFFICES ASSUME NEW q \in Runs PROVE RunInv(q)'
    OBVIOUS
  <2>1. RunInv(q) /\ Same(q)
    BY <1>4 DEF IInv
  <2> QED BY <1>4, <2>1, Frame
<1> QED BY <1>3, <1>5, <1>6, <1>7 DEF IInv

(* A box player is a page of one row.                                       *)
LEMMA BoxPage ==
  ASSUME NEW box \in BoxPlayers
  PROVE  /\ IsParsed(BoxEntry(box)) /\ KeysOf(BoxEntry(box)) = {PlayerKey(box.player)}
         /\ PlayerKey(box.player) \in Keys
<1> DEFINE e == BoxEntry(box)
<1>1. /\ e.team = NONE /\ e.name = NONE /\ DOMAIN e.rows = 1..1 /\ Len(e.rows) = 1
      /\ e.rows[1].player = box.player /\ e.rows[1].name = box.name /\ e.rows[1].number = NONE
      /\ e.rows = [i \in 1..1 |-> e.rows[i]]
  BY DEF BoxEntry
<1> HIDE DEF e
<1>2. IsList(e.rows)
  <2>1. PICK c \in Nat : c = 1
    OBVIOUS
  <2> QED BY <1>1, <2>1, ListOf
<1>3. \A i \in DOMAIN e.rows : i = 1
  BY <1>1
<1>4. IsParsed(e)
  BY <1>1, <1>2, <1>3, CoreLoadAssumption DEF IsParsed
<1>5. {e.rows[i].player : i \in DOMAIN e.rows} = {box.player}
  BY <1>1, <1>3
<1>6. KeysOf(e) = {PlayerKey(box.player)}
  BY <1>1, <1>5 DEF KeysOf
<1>7. PlayerKey(box.player) \in Keys
  BY <1>6 DEF Keys, e
<1> QED BY <1>4, <1>6, <1>7 DEF e

(* A player of a box score keeps the invariant.                             *)
LEMMA BoxInv ==
  ASSUME IInv, NEW box \in BoxPlayers, CreateBoxPlayer(box)
  PROVE  IInv'
<1> DEFINE key == PlayerKey(box.player)
           e == BoxEntry(box)
<1>1. Cache /\ Shapes /\ Logged
  BY DEF IInv
<1>2. /\ core' = [core EXCEPT ![key] = box.name] /\ log' = Append(log, e)
      /\ archive' = archive /\ changes' = changes /\ overlap' = overlap /\ workers' = workers
      /\ pc' = pc /\ report' = report
      /\ inventory' = inventory /\ parsed' = parsed /\ results' = results /\ work' = work
      /\ mark' = mark /\ step' = step /\ seen' = seen /\ team' = team
  BY DEF CreateBoxPlayer, cache, options, reading, session
<1>3. IsParsed(e) /\ KeysOf(e) = {key} /\ key \in Keys
  BY BoxPage
<1>4. box.name \notin {Absent, Clean}
  BY CoreLoadAssumption
<1>5. DOMAIN core = Keys /\ IsTable(core)
  BY <1>1 DEF Shapes, IsTable
<1> HIDE DEF key, e
<1>6. \A k \in Keys : core'[k] = IF k = key THEN box.name ELSE core[k]
  BY <1>2, <1>5
<1>7. core' = [k \in Keys |-> core'[k]]
  BY <1>2, <1>5 DEF IsTable
<1>8. IsTable(core') /\ Grows
  BY <1>1, <1>4, <1>6, <1>7 DEF IsTable, Grows, Shapes
<1>9. Present' = Present \union {key}
  BY <1>3, <1>4, <1>6 DEF Present
<1>10. Logged'
  <2> DEFINE h == <<e>>
  <2>1. IsList(h) /\ Len(h) = 1 /\ h[1] = e /\ DOMAIN h = {1}
    <3>1. PICK c \in Nat : c = 1
      OBVIOUS
    <3>2. h = [i \in 1..1 |-> h[i]] /\ 1..1 = {1}
      OBVIOUS
    <3>3. h[1] = e
      OBVIOUS
    <3> HIDE DEF h
    <3> QED BY <3>1, <3>2, <3>3, ListOf
  <2>2. log' = log \o h
    <3>1. log \in Seq({log[i] : i \in DOMAIN log})
      BY <1>1 DEF Logged, IsList
    <3> QED BY <1>2, <3>1
  <2> HIDE DEF h
  <2>3. ArePages(h, Len(h)) /\ KeysOfAll(h) = {key}
    BY <1>3, <2>1 DEF ArePages, KeysOfAll
  <2>4. IsList(log \o h) /\ ArePages(log \o h, Len(log \o h))
        /\ KeysOfAll(log \o h) = Present \union {key}
    <3>1. IsList(log) /\ ArePages(log, Len(log)) /\ KeysOfAll(log) = Present
      BY <1>1 DEF Logged
    <3>2. IsList(log \o h) /\ ArePages(log \o h, Len(log \o h))
          /\ KeysOfAll(log \o h) = KeysOfAll(log) \union KeysOfAll(h)
      BY <2>1, <2>3, <3>1, Joined, JoinedKeys
    <3> QED BY <2>3, <3>1, <3>2
  <2>5. IsList(log') /\ ArePages(log', Len(log')) /\ KeysOfAll(log') = Present \union {key}
    BY <2>2, <2>4
  <2> QED BY <1>9, <2>5 DEF Logged
<1>11. Cache'
  BY <1>1, <1>2 DEF Cache
<1>12. Shapes'
  BY <1>1, <1>2, <1>8 DEF Shapes
<1>13. \A q \in Runs : Same(q)
  BY <1>2 DEF Same
<1>14. \A q \in Runs : RunInv(q)'
  <2> SUFFICES ASSUME NEW q \in Runs PROVE RunInv(q)'
    OBVIOUS
  <2>1. RunInv(q) /\ Same(q)
    BY <1>13 DEF IInv
  <2> QED BY <1>8, <2>1, Frame
<1> QED BY <1>10, <1>11, <1>12, <1>14 DEF IInv

-----------------------------------------------------------------------------
(* The theorems of the specification.                                       *)

(* The invariant holds at the beginning, over any earlier loads.            *)
LEMMA InitIInv == Init => IInv
<1> SUFFICES ASSUME Init PROVE IInv
  OBVIOUS
<1>1. /\ archive \in Archives /\ changes = 0 /\ overlap \in BOOLEAN /\ workers \in WorkerCounts
      /\ log \in Histories /\ core = Replay(log)
      /\ pc = [r \in Runs |-> "idle"] /\ inventory = [r \in Runs |-> <<>>]
      /\ parsed = [r \in Runs |-> <<>>] /\ results = [r \in Runs |-> <<>>]
      /\ work = [r \in Runs |-> Untouched] /\ mark = [r \in Runs |-> Untouched]
      /\ step = [r \in Runs |-> FirstCall] /\ seen = [r \in Runs |-> Absent]
      /\ team = [r \in Runs |-> Absent] /\ report = [r \in Runs |-> <<>>]
  BY DEF Init
<1>2. Cache
  <2>1. changes \in 0..MaxChanges
    BY <1>1, CoreLoadAssumption
  <2>2. DOMAIN archive = DOMAIN Files /\ \A n \in DOMAIN Files : archive[n] \in MayHold[n]
    BY <1>1, CoreLoadAssumption
  <2> QED BY <1>1, <2>1, <2>2 DEF Cache
<1>3. IsList(log) /\ ArePages(log, Len(log))
  <2>1. IsList(log) /\ \A i \in DOMAIN log : IsParsed(log[i])
    BY <1>1, CoreLoadAssumption
  <2>2. KeysOfAll(log) \subseteq Keys
    BY <1>1 DEF Keys
  <2>3. \A i \in DOMAIN log : KeysOf(log[i]) \subseteq Keys
    BY <2>2 DEF KeysOfAll
  <2> QED BY <2>1, <2>3, ListShape DEF ArePages
<1>4. KeysOfAll(log) \subseteq Keys
  BY <1>1 DEF Keys
<1>5. IsTable(core) /\ \A k \in Keys : core[k] # Absent <=> k \in KeysOfAll(log)
  BY <1>1, <1>3, ReplayFacts
<1>6. Logged
  BY <1>3, <1>4, <1>5 DEF Logged, Present
<1>7. Shapes
  BY <1>1, <1>5 DEF Shapes, Ended
<1>8. ASSUME NEW r \in Runs
      PROVE  RunInv(r)
  <2>1. /\ pc[r] = "idle" /\ inventory[r] = <<>> /\ parsed[r] = <<>> /\ results[r] = <<>>
        /\ work[r] = Untouched /\ mark[r] = Untouched /\ step[r] = FirstCall
        /\ report[r] = <<>>
    BY <1>1
  <2>2. RunKeys(r) = {}
    BY <2>1, NothingLoaded
  <2>3. Lists(r)
    <3>1. Len(Files) \in Nat
      BY CoreLoadAssumption, ListShape
    <3>2. Valid(r) = {}
      BY <2>1 DEF Valid
    <3>3. IsList(parsed[r])
      BY <2>1 DEF IsList
    <3>4. inventory[r] \in Seq(Statuses) /\ results[r] \in Seq(Outcomes)
          /\ Len(inventory[r]) = 0 /\ Len(results[r]) = 0 /\ Len(parsed[r]) = 0
      BY <2>1
    <3> QED BY <3>1, <3>2, <3>3, <3>4 DEF Lists
  <2>4. Control(r)
    BY <2>1 DEF Control, Loading, Over, AtRow
  <2>5. Entries(r) /\ Results(r)
    BY <2>1 DEF Entries, Results
  <2>6. Position(r)
    BY <2>1 DEF Position, AtRow, FirstCall
  <2>7. Covered(r)
    BY <2>1, <2>2 DEF Covered, AtRow
  <2>8. Contained(r)
    BY <2>1 DEF Contained, Untouched, AtRow, Clean, Absent
  <2> QED BY <2>3, <2>4, <2>5, <2>6, <2>7, <2>8 DEF RunInv
<1> QED BY <1>2, <1>6, <1>7, <1>8 DEF IInv

(* Every step keeps the invariant.                                          *)
LEMMA NextIInv ==
  ASSUME IInv, [Next]_vars
  PROVE  IInv'
<1>1. CASE UNCHANGED vars
  <2>1. /\ UNCHANGED <<cache, options, core, log>> /\ \A q \in Runs : Same(q)
        /\ pc' = pc /\ inventory' = inventory /\ parsed' = parsed /\ results' = results
        /\ work' = work /\ mark' = mark /\ step' = step /\ seen' = seen /\ team' = team
        /\ report' = report
    BY <1>1 DEF vars, reading, session, Same
  <2>2. Cache' /\ Logged' /\ Grows /\ IsTable(core')
    BY <2>1, Quiet
  <2>3. Shapes'
    BY <2>1, <2>2 DEF IInv, Shapes
  <2>4. \A q \in Runs : RunInv(q)'
    <3> SUFFICES ASSUME NEW q \in Runs PROVE RunInv(q)'
      OBVIOUS
    <3>1. RunInv(q) /\ Same(q)
      BY <2>1 DEF IInv
    <3> QED BY <2>2, <3>1, Frame
  <2> QED BY <2>2, <2>3, <2>4 DEF IInv
<1>2. CASE \E n \in DOMAIN Files : \E content \in MayHold[n] : ReplaceFile(n, content)
  BY <1>2, ReplaceInv
<1>3. CASE \E box \in BoxPlayers : CreateBoxPlayer(box)
  BY <1>3, BoxInv
<1>4. ASSUME NEW r \in Runs, Step(r)
      PROVE  IInv'
  <2>1. CASE Start(r)
    BY <2>1, StartInv
  <2>2. CASE InventoryFile(r)
    BY <2>2, InventoryInv
  <2>3. CASE OpenPool(r)
    BY <2>3, PoolInv
  <2>4. CASE \E i \in DOMAIN parsed[r] : ProcessPage(r, i)
    BY <2>4, ProcessInv
  <2>5. CASE BeginLoad(r)
    BY <2>5, BeginLoadInv
  <2>6. CASE SkipPage(r)
    BY <2>6, SkipInv
  <2>7. CASE RefusePage(r)
    BY <2>7, RefuseInv
  <2>8. CASE OpenPage(r)
    BY <2>8, OpenInv
  <2>9. CASE SelectRow(r)
    BY <2>9, SelectInv
  <2>10. CASE FlushRow(r)
    BY <2>10, FlushInv
  <2>11. CASE UniqueViolation(r) \/ StatementFault(r)
    <3>1. PageFails(r)
      BY <2>11 DEF UniqueViolation, StatementFault
    <3> QED BY <3>1, FailInv
  <2>12. CASE ClosePage(r)
    BY <2>12, CloseInv
  <2>13. CASE Commit(r)
    BY <2>13, CommitInv
  <2>14. CASE SaveReport(r)
    BY <2>14, SaveInv
  <2>15. CASE Crash(r)
    BY <2>15, CrashInv
  <2> QED BY <1>4, <2>1, <2>2, <2>3, <2>4, <2>5, <2>6, <2>7, <2>8, <2>9, <2>10, <2>11, <2>12,
             <2>13, <2>14, <2>15 DEF Step
<1> QED BY <1>1, <1>2, <1>3, <1>4 DEF Next

(* The inductive invariant holds in every reachable state.                  *)
THEOREM Invariance == Spec => []IInv
<1>1. Init => IInv
  BY InitIInv
<1>2. IInv /\ [Next]_vars => IInv'
  BY NextIInv
<1> QED BY <1>1, <1>2, PTL DEF Spec

(* For any runs, files, workers and changes of the cache: the state is well *)
(* typed and only a run that is loading holds rows.                         *)
THEOREM TypeCorrect == Spec => []TypeOK
<1>1. IInv => TypeOK
  <2> SUFFICES ASSUME IInv PROVE TypeOK
    OBVIOUS
  <2>1. Cache /\ Shapes
    BY DEF IInv
  <2>2. ASSUME NEW r \in Runs
        PROVE  /\ Len(inventory[r]) <= Len(Files)
               /\ Len(results[r]) <= Len(parsed[r])
               /\ work[r] # Untouched => pc[r] \in Loading
               /\ pc[r] \in {"select", "flush"} =>
                    /\ Len(results[r]) < Len(parsed[r])
                    /\ step[r].row \in 0..Len(Current(r).rows) + 1
               /\ report[r] # <<>> <=> pc[r] = "done"
    <3>1. RunInv(r)
      BY DEF IInv
    <3>2. pc[r] \in AtRow => step[r].row \in 0..Len(Current(r).rows) + 1
      <4> SUFFICES ASSUME pc[r] \in AtRow PROVE step[r].row \in 0..Len(Current(r).rows) + 1
        OBVIOUS
      <4>1. Len(Current(r).rows) \in Nat
        BY <3>1, ListShape DEF RunInv, Position, IsLoadable, IsParsed
      <4>2. step[r].row \in 0..Len(Current(r).rows) \/ step[r].row = Len(Current(r).rows) + 1
        BY <3>1 DEF RunInv, Position, IsCall
      <4> QED BY <4>1, <4>2
    <3>3. report[r] # <<>> <=> pc[r] = "done"
      BY <3>1 DEF RunInv, Control
    <3> QED BY <3>1, <3>2, <3>3 DEF RunInv, Lists, Control, AtRow
  <2> QED BY <2>1, <2>2 DEF TypeOK, Cache, Shapes
<1> QED BY <1>1, Invariance, PTL

-----------------------------------------------------------------------------
(* The report.                                                              *)

(* Finitely many finite sets.                                               *)
LEMMA FiniteFamily ==
  ASSUME NEW S, IsFiniteSet(S), NEW f, DOMAIN f = S, \A x \in S : IsFiniteSet(f[x])
  PROVE  IsFiniteSet(UNION {f[x] : x \in S})
<1> DEFINE I == {f[x] : x \in S}
           g == [x \in S |-> f[x]]
<1>1. g \in Surjection(S, I)
  BY DEF Surjection
<1>2. \A T \in I : IsFiniteSet(T)
  OBVIOUS
<1> HIDE DEF I, g
<1>3. IsFiniteSet(I)
  BY <1>1, FS_Surjection
<1>4. IsFiniteSet(UNION I)
  BY <1>2, <1>3, FS_UNION
<1> QED BY <1>4 DEF I

(* Rows of entries, as their report counts them.                            *)
RowSet(r, entries) == UNION {{i} \X DOMAIN parsed[r][i].rows : i \in entries}

(* Finitely many entries have finitely many rows.                           *)
LEMMA RowsAreFinite ==
  ASSUME NEW r, NEW S, IsFiniteSet(S), \A i \in S : IsParsed(parsed[r][i])
  PROVE  IsFiniteSet(RowSet(r, S)) /\ RowsOf(r, S) = Cardinality(RowSet(r, S)) /\ RowsOf(r, S) \in Nat
<1> DEFINE f == [i \in S |-> {i} \X DOMAIN parsed[r][i].rows]
<1>1. \A i \in S : IsFiniteSet(f[i])
  <2> SUFFICES ASSUME NEW i \in S
               PROVE  IsFiniteSet({i} \X DOMAIN parsed[r][i].rows)
    OBVIOUS
  <2> DEFINE T == DOMAIN parsed[r][i].rows
  <2>1. Len(parsed[r][i].rows) \in Nat /\ T = 1..Len(parsed[r][i].rows)
    BY ListShape DEF IsParsed
  <2>2. IsFiniteSet(T)
    BY <2>1, FS_Interval
  <2>3. IsFiniteSet({i})
    BY FS_Singleton
  <2> HIDE DEF T
  <2>4. IsFiniteSet({i} \X T)
    BY <2>2, <2>3, FS_Product
  <2> QED BY <2>4 DEF T
<1>2. DOMAIN f = S /\ RowSet(r, S) = UNION {f[i] : i \in S}
  BY DEF RowSet
<1> HIDE DEF f
<1>3. IsFiniteSet(RowSet(r, S))
  BY <1>1, <1>2, FiniteFamily
<1>4. RowsOf(r, S) = Cardinality(RowSet(r, S))
  BY DEF RowsOf, RowSet
<1> QED BY <1>3, <1>4, FS_CardinalityType

(* The rows of disjoint entries add up.                                     *)
LEMMA RowsAddUp ==
  ASSUME NEW r, NEW S, IsFiniteSet(S), NEW T, IsFiniteSet(T), S \intersect T = {},
         \A i \in S \union T : IsParsed(parsed[r][i])
  PROVE  RowsOf(r, S \union T) = RowsOf(r, S) + RowsOf(r, T)
<1> DEFINE A == RowSet(r, S)
           B == RowSet(r, T)
<1>1. A \intersect B = {} /\ RowSet(r, S \union T) = A \union B
  BY DEF RowSet
<1>2. /\ IsFiniteSet(A) /\ RowsOf(r, S) = Cardinality(A) /\ RowsOf(r, S) \in Nat
      /\ IsFiniteSet(B) /\ RowsOf(r, T) = Cardinality(B) /\ RowsOf(r, T) \in Nat
  BY RowsAreFinite
<1>3. RowsOf(r, S \union T) = Cardinality(A \union B)
  BY <1>1 DEF RowsOf, RowSet
<1> HIDE DEF A, B
<1>4. Cardinality(A \union B) = Cardinality(A) + Cardinality(B) - Cardinality({})
  BY <1>1, <1>2, FS_Union
<1>5. Cardinality({}) = 0
  BY FS_EmptySet
<1> QED BY <1>2, <1>3, <1>4, <1>5

(* A run that is over has settled every entry one way or the other.         *)
LEMMA AllSettled ==
  ASSUME NEW r \in Runs, RunInv(r), pc[r] \in Over
  PROVE  LET bad == With(r, "failed") \union FailedParsing(r)
         IN  /\ DOMAIN parsed[r] = With(r, "loaded") \union bad
             /\ With(r, "loaded") \intersect bad = {}
             /\ IsFiniteSet(With(r, "loaded")) /\ IsFiniteSet(bad)
             /\ \A i \in DOMAIN parsed[r] : IsParsed(parsed[r][i]) /\ parsed[r][i].file = Selected(r)[i]
<1>1. /\ Len(results[r]) = Len(parsed[r]) /\ DOMAIN parsed[r] = 1..Len(parsed[r])
      /\ Len(parsed[r]) \in Nat /\ DOMAIN results[r] = 1..Len(results[r])
      /\ \A i \in DOMAIN results[r] : results[r][i] \in Outcomes
  BY ListShape DEF RunInv, Lists, Control
<1>2. \A i \in DOMAIN parsed[r] : IsParsed(parsed[r][i]) /\ parsed[r][i].file = Selected(r)[i]
  BY DEF RunInv, Control, Entries
<1>3. \A i \in DOMAIN results[r] : results[r][i] = "skipped" <=> parsed[r][i].status = "failed"
  BY DEF RunInv, Results
<1>4. DOMAIN parsed[r] = With(r, "loaded") \union (With(r, "failed") \union FailedParsing(r))
  BY <1>1, <1>3 DEF With, FailedParsing, Outcomes
<1>5. With(r, "loaded") \intersect (With(r, "failed") \union FailedParsing(r)) = {}
  BY <1>1, <1>3 DEF With, FailedParsing
<1>6. IsFiniteSet(DOMAIN parsed[r])
  BY <1>1, FS_Interval
<1> DEFINE L == With(r, "loaded")
           B == With(r, "failed") \union FailedParsing(r)
<1> HIDE DEF L, B
<1>7. DOMAIN parsed[r] = L \union B
  BY <1>4 DEF L, B
<1>8. IsFiniteSet(L) /\ IsFiniteSet(B)
  BY <1>6, <1>7, FS_Subset
<1> QED BY <1>2, <1>4, <1>5, <1>8 DEF L, B

(* For any files, workers, failures and interleaving of runs: a committed   *)
(* run accounts for every selected file in order, every parsed row is       *)
(* loaded or quarantined, and the rows of what it calls loaded are in the   *)
(* tables for good.                                                         *)
THEOREM ReportsAreTrue == Spec => []ReportIsTrue
<1>1. IInv => ReportIsTrue
  <2> SUFFICES ASSUME IInv, NEW r \in Runs, pc[r] \in Over
               PROVE  /\ [i \in DOMAIN parsed[r] |-> parsed[r][i].file] = Selected(r)
                      /\ Len(results[r]) = Len(parsed[r])
                      /\ RowsOf(r, DOMAIN parsed[r])
                           = Summary(r).loaded_rows + Summary(r).quarantined_rows
                      /\ \A i \in With(r, "loaded") : KeysOf(parsed[r][i]) \subseteq Present
    BY DEF ReportIsTrue, Over
  <2>1. RunInv(r)
    BY DEF IInv
  <2> DEFINE L == With(r, "loaded")
             B == With(r, "failed") \union FailedParsing(r)
  <2>2. /\ DOMAIN parsed[r] = L \union B /\ L \intersect B = {}
        /\ IsFiniteSet(L) /\ IsFiniteSet(B)
        /\ \A i \in DOMAIN parsed[r] : IsParsed(parsed[r][i]) /\ parsed[r][i].file = Selected(r)[i]
    BY <2>1, AllSettled
  <2>3. Summary(r).loaded_rows = RowsOf(r, L) /\ Summary(r).quarantined_rows = RowsOf(r, B)
    BY DEF Summary
  <2>4. [i \in DOMAIN parsed[r] |-> parsed[r][i].file] = Selected(r)
    <3>1. DOMAIN parsed[r] = DOMAIN Selected(r)
      BY <2>1 DEF RunInv, Control, Over
    <3>2. Selected(r) = [i \in DOMAIN Selected(r) |-> Selected(r)[i]]
      BY DEF Selected
    <3> QED BY <2>2, <3>1, <3>2
  <2>5. Len(results[r]) = Len(parsed[r])
    BY <2>1 DEF RunInv, Control
  <2>6. \A i \in L : KeysOf(parsed[r][i]) \subseteq Present
    <3> SUFFICES ASSUME NEW i \in L, NEW k \in KeysOf(parsed[r][i]) PROVE k \in Present
      OBVIOUS
    <3>1. k \in RunKeys(r) /\ k \in Keys
      BY <2>1 DEF RunKeys, RunInv, Results, With
    <3>2. core[k] # Absent
      BY <2>1, <3>1 DEF RunInv, Covered
    <3> QED BY <3>1, <3>2 DEF Present
  <2>7. RowsOf(r, DOMAIN parsed[r]) = RowsOf(r, L) + RowsOf(r, B)
    <3> HIDE DEF L, B
    <3> QED BY <2>2, RowsAddUp
  <2> QED BY <2>3, <2>4, <2>5, <2>6, <2>7
<1> QED BY <1>1, Invariance, PTL

-----------------------------------------------------------------------------
(* A pass of the validator.                                                 *)

(* Four rows are finitely many.                                             *)
LEMMA FourIsFinite == \A a, b, c, d : IsFiniteSet({a, b, c, d})
<1> SUFFICES ASSUME NEW a, NEW b, NEW c, NEW d PROVE IsFiniteSet({a, b, c, d})
  OBVIOUS
<1>1. IsFiniteSet({a})
  BY FS_Singleton
<1>2. IsFiniteSet({a} \union {b})
  BY <1>1, FS_AddElement
<1>3. IsFiniteSet(({a} \union {b}) \union {c})
  BY <1>2, FS_AddElement
<1>4. IsFiniteSet((({a} \union {b}) \union {c}) \union {d})
  BY <1>3, FS_AddElement
<1>5. {a, b, c, d} = (({a} \union {b}) \union {c}) \union {d}
  OBVIOUS
<1> QED BY <1>4, <1>5

(* A page stands for finitely many rows of the core tables.                 *)
LEMMA PageIsFinite ==
  ASSUME NEW e, IsParsed(e)
  PROVE  IsFiniteSet(KeysOf(e)) /\ \A k \in KeysOf(e) : k[1] \in Tables
<1> DEFINE D == DOMAIN e.rows
           H == {SeasonKey(e.year), TeamKey(e.team), AliasKey(e.team, e.year),
                 TeamSeasonKey(e.team, e.year)}
           p(i) == e.rows[i].player
           f == [i \in D |-> {PlayerKey(p(i)), PlayerSeasonKey(p(i), e.year),
                              StintKey(p(i), e.team, e.year), StintKey(p(i), e.team, e.year)}]
           R == UNION {f[i] : i \in D}
<1>1. IsFiniteSet(D)
  <2>1. D = 1..Len(e.rows) /\ Len(e.rows) \in Nat
    BY ListShape DEF IsParsed
  <2>2. PICK n \in Nat : n = Len(e.rows)
    BY <2>1
  <2>3. IsFiniteSet(1..n)
    BY FS_Interval
  <2> HIDE DEF D
  <2> QED BY <2>1, <2>2, <2>3
<1>2. IsFiniteSet(H) /\ \A i \in D : IsFiniteSet(f[i])
  BY FourIsFinite
<1>3. DOMAIN f = D
  OBVIOUS
<1>4. KeysOf(e) \subseteq H \union R
  BY DEF KeysOf
<1>5. IsFiniteSet(R)
  <2> HIDE DEF f, D
  <2> QED BY <1>1, <1>2, <1>3, FiniteFamily
<1>6. \A k \in KeysOf(e) : k[1] \in Tables
  BY DEF KeysOf, Tables, SeasonKey, TeamKey, AliasKey, TeamSeasonKey, PlayerKey,
         PlayerSeasonKey, StintKey, Key
<1> HIDE DEF H, R
<1>7. IsFiniteSet(H \union R)
  BY <1>2, <1>5, FS_Union
<1> QED BY <1>4, <1>6, <1>7, FS_Subset

(* The tables hold finitely many rows, of the core tables only.             *)
LEMMA PresentIsFinite ==
  ASSUME Logged
  PROVE  IsFiniteSet(Present) /\ \A k \in Present : k[1] \in Tables
<1>1. DOMAIN log = 1..Len(log) /\ Len(log) \in Nat
  BY ListShape DEF Logged
<1>2. \A i \in DOMAIN log : IsFiniteSet(KeysOf(log[i])) /\ \A k \in KeysOf(log[i]) : k[1] \in Tables
  BY <1>1, PageIsFinite DEF Logged, ArePages
<1> DEFINE S == DOMAIN log
           f == [i \in S |-> KeysOf(log[i])]
<1>3. IsFiniteSet(S)
  BY <1>1, FS_Interval
<1>4. DOMAIN f = S /\ \A i \in S : IsFiniteSet(f[i])
  BY <1>2
<1>5. Present = UNION {f[i] : i \in S}
  BY DEF Logged, KeysOfAll
<1>6. \A k \in Present : k[1] \in Tables
  BY <1>2 DEF Logged, KeysOfAll
<1> HIDE DEF S, f
<1>7. IsFiniteSet(UNION {f[i] : i \in S})
  BY <1>3, <1>4, FiniteFamily
<1> QED BY <1>5, <1>6, <1>7

(* The rows of a table that are counted.                                    *)
Counted(table, rows) ==
  {k \in rows : k[1] = table /\ (table = "players" => HasSeason(k, rows))}

(* A player of a loaded page has a season there.                            *)
LEMMA RunRows ==
  ASSUME NEW r \in Runs, RunInv(r), NEW k \in RunKeys(r)
  PROVE  k \in Keys /\ (k[1] = "players" => HasSeason(k, RunKeys(r)))
<1>1. PICK i \in With(r, "loaded") : k \in KeysOf(parsed[r][i])
  BY DEF RunKeys
<1> DEFINE e == parsed[r][i]
<1>2. e.team # NONE /\ KeysOf(e) \subseteq Keys /\ KeysOf(e) \subseteq RunKeys(r)
  BY DEF RunInv, Results, With, RunKeys, IsLoadable
<1> HIDE DEF e
<1>3. k \in KeysOf(e)
  BY <1>1 DEF e
<1>4. ASSUME k[1] = "players"
      PROVE  HasSeason(k, RunKeys(r))
  <2>1. PICK n \in DOMAIN e.rows : k = PlayerKey(e.rows[n].player)
    BY <1>3, <1>4 DEF KeysOf, SeasonKey, TeamKey, AliasKey, TeamSeasonKey, PlayerKey,
                      PlayerSeasonKey, StintKey, Key
  <2> DEFINE s == PlayerSeasonKey(e.rows[n].player, e.year)
  <2>2. s \in KeysOf(e)
    BY <1>2 DEF KeysOf
  <2>3. s[1] = "player_seasons" /\ s[3] = k[3]
    BY <2>1 DEF PlayerSeasonKey, PlayerKey, Key
  <2> HIDE DEF s
  <2> QED BY <1>2, <2>2, <2>3 DEF HasSeason
<1> QED BY <1>2, <1>3, <1>4

(* For any histories, runs, files and reference pages: a report that passes *)
(* belongs to a run whose loaded rows are all that the tables hold, players *)
(* of box scores without a season aside.                                    *)
THEOREM PassesMeanExact == Spec => []PassMeansExact
<1>1. IInv => PassMeansExact
  <2> SUFFICES ASSUME IInv, NEW r \in Runs, report[r] # <<>>, Passes(report[r][1]),
                      \A table \in Tables :
                        TableCount(table, RunKeys(r)) = TableCount(table, ReferenceKeys)
               PROVE  {k \in Present : k[1] # "players" \/ HasSeason(k, Present)} = RunKeys(r)
    BY DEF PassMeansExact
  <2>1. RunInv(r) /\ Logged
    BY DEF IInv
  <2>2. pc[r] \in Over
    BY <2>1 DEF RunInv, Control, Over
  <2>3. \A k \in RunKeys(r) : k \in Keys /\ (k[1] = "players" => HasSeason(k, RunKeys(r)))
    BY <2>1, RunRows
  <2>4. RunKeys(r) \subseteq Present
    BY <2>1, <2>2, <2>3 DEF RunInv, Covered, Present
  <2>5. IsFiniteSet(Present) /\ \A k \in Present : k[1] \in Tables
    BY <2>1, PresentIsFinite
  <2>6. \A k : HasSeason(k, RunKeys(r)) => HasSeason(k, Present)
    BY <2>4 DEF HasSeason
  <2>7. ASSUME NEW table \in Tables
        PROVE  Counted(table, RunKeys(r)) = Counted(table, Present)
    <3> DEFINE A == Counted(table, RunKeys(r))
               B == Counted(table, Present)
    <3>1. A \subseteq B /\ B \subseteq Present
      BY <2>4, <2>6 DEF Counted
    <3>2. Cardinality(A) = TableCount(table, RunKeys(r)) /\ Cardinality(B) = TableCount(table, Present)
      BY DEF TableCount, Counted
    <3>3. TableCount(table, Present) = TableCount(table, ReferenceKeys)
      BY DEF Passes, _table_count_issues
    <3> HIDE DEF A, B
    <3>4. IsFiniteSet(B)
      BY <2>5, <3>1, FS_Subset
    <3>5. Cardinality(A) = Cardinality(B)
      BY <3>2, <3>3
    <3>6. A = B
      BY <3>1, <3>4, <3>5, FS_Subset
    <3> QED BY <3>6 DEF A, B
  <2>8. ASSUME NEW k \in Present, k[1] # "players" \/ HasSeason(k, Present)
        PROVE  k \in RunKeys(r)
    <3>1. k \in Counted(k[1], Present)
      BY <2>8 DEF Counted
    <3>2. k \in Counted(k[1], RunKeys(r))
      BY <2>5, <2>7, <3>1
    <3> QED BY <3>2 DEF Counted
  <2>9. ASSUME NEW k \in RunKeys(r)
        PROVE  k \in Present /\ (k[1] # "players" \/ HasSeason(k, Present))
    BY <2>3, <2>4, <2>6
  <2> QED BY <2>8, <2>9
<1> QED BY <1>1, Invariance, PTL

-----------------------------------------------------------------------------
(***************************************************************************)
(* The attributes.  Which run writes a row is decided by its lock; what it *)
(* writes comes from one of its pages.                                     *)
(***************************************************************************)

(* Two transactions have not written one row.                               *)
Exclusive ==
  \A q, r \in Runs, k \in Keys : work[q][k] # Clean /\ work[r][k] # Clean => q = r

(* A page that r has loaded, or a call that its page has done, gave v.      *)
RunGave(r, k, v) == v # NONE /\ \E i \in With(r, "loaded") : v \in GivenBy(parsed[r][i], k)

PageGave(r, k, v) ==
  /\ pc[r] \in AtRow /\ v # NONE
  /\ \E n, c : /\ IsCall(Current(r), n, c) /\ Done(step[r], n, c)
               /\ Gets(Current(r), n)[c] = Get(k, v)

(* A fallback is only written for a row that nobody has committed.          *)
Locks(r) ==
  \A k \in Keys :
    /\ work[r][k] = Bare => core[k] = Absent
    /\ pc[r] \in AtRow =>
         /\ mark[r][k] # Clean => work[r][k] # Clean
         /\ mark[r][k] = Bare => core[k] = Absent

(* A name that was read is still a name.                                    *)
SeenIsThere(r) ==
  pc[r] = "flush" => (IsNamed(seen[r]) => IsNamed(View(r, CurrentGet(r).key)))

Values(r) ==
  \A k \in Keys : k[1] \in Attributes =>
    \A v :
         /\ work[r][k] = v /\ v \notin {Clean, Bare} => RunGave(r, k, v) \/ PageGave(r, k, v)
         /\ pc[r] \in AtRow /\ mark[r][k] = v /\ v \notin {Clean, Bare} => RunGave(r, k, v)
         /\ pc[r] \in Loading /\ RunGave(r, k, v) => IsNamed(View(r, k))
         /\ pc[r] \in AtRow /\ RunGave(r, k, v) => IsNamed(Marked(r, k))
         /\ PageGave(r, k, v) => IsNamed(View(r, k))

CoreValues ==
  \A k \in Keys : k[1] \in Attributes =>
    /\ core[k] \in {Absent, Bare} \union AllGiven(log, k)
    /\ AllGiven(log, k) # {} => IsNamed(core[k])

ValueInv(r) == Locks(r) /\ SeenIsThere(r) /\ Values(r)

AInv == Exclusive /\ CoreValues /\ \A r \in Runs : ValueInv(r)

(* Names stay, and a row that r has written is not touched.                 *)
NamesStay == \A k \in Keys : IsNamed(core[k]) => IsNamed(core'[k])
Untaken(r) == \A k \in Keys : work[r][k] # Clean => core'[k] = core[k]

(* The attributes that a run knows of outlive the steps of others.          *)
LEMMA ValueFrame ==
  ASSUME NEW r \in Runs, RunInv(r), ValueInv(r), Same(r), NamesStay, Untaken(r)
  PROVE  ValueInv(r)'
<1>1. /\ pc'[r] = pc[r] /\ parsed'[r] = parsed[r] /\ results'[r] = results[r]
      /\ work'[r] = work[r] /\ mark'[r] = mark[r] /\ step'[r] = step[r] /\ seen'[r] = seen[r]
  BY DEF Same
<1>2. Current(r)' = Current(r)
  BY <1>1, PageStays
<1>3. CurrentGet(r)' = CurrentGet(r)
  BY <1>1, <1>2 DEF CurrentGet
<1>4. \A k, v : /\ RunGave(r, k, v)' <=> RunGave(r, k, v)
                /\ PageGave(r, k, v)' <=> PageGave(r, k, v)
  BY <1>1, <1>2 DEF RunGave, PageGave, With
<1>5. \A k \in Keys : /\ IsNamed(View(r, k)) => IsNamed(View(r, k)')
                      /\ IsNamed(Marked(r, k)) => IsNamed(Marked(r, k)')
  BY <1>1 DEF NamesStay, View, Marked
<1>6. pc[r] = "flush" => CurrentGet(r).key \in Keys
  BY PresentCall DEF AtRow
<1>7. Locks(r)'
  <2>1. \A k \in Keys : work[r][k] # Clean => core'[k] = core[k]
    BY DEF Untaken
  <2>2. Clean # Bare
    BY DEF Clean, Bare
  <2> QED BY <1>1, <2>1, <2>2 DEF ValueInv, Locks
<1>8. SeenIsThere(r)'
  BY <1>1, <1>3, <1>5, <1>6 DEF ValueInv, SeenIsThere
<1>9. Values(r)'
  BY <1>1, <1>4, <1>5 DEF ValueInv, Values
<1> QED BY <1>7, <1>8, <1>9 DEF ValueInv

(* A step of r that commits nothing.                                        *)
LEMMA ValueStep ==
  ASSUME IInv, AInv, NEW r \in Runs, \A q \in Runs \ {r} : Same(q),
         core' = core, log' = log, ValueInv(r)',
         \A k \in Keys : work'[r][k] # Clean => work[r][k] # Clean \/ \A q \in Runs \ {r} : work[q][k] = Clean
  PROVE  AInv'
<1>1. CoreValues'
  BY DEF AInv, CoreValues
<1>2. ASSUME NEW q \in Runs \ {r}
      PROVE  ValueInv(q)'
  <2>1. RunInv(q) /\ ValueInv(q) /\ Same(q)
    BY DEF IInv, AInv
  <2>2. NamesStay /\ Untaken(q)
    BY DEF NamesStay, Untaken
  <2> QED BY <2>1, <2>2, ValueFrame
<1>3. Exclusive'
  <2>1. \A q \in Runs \ {r} : work'[q] = work[q]
    BY DEF Same
  <2> QED BY <2>1 DEF AInv, Exclusive
<1>4. \A q \in Runs : ValueInv(q)'
  BY <1>2
<1> QED BY <1>1, <1>3, <1>4 DEF AInv

(* A run that has written nothing.                                          *)
LEMMA NoValues ==
  ASSUME NEW r \in Runs, work'[r] = Untouched, pc'[r] \notin AtRow,
         pc'[r] \in Loading => results'[r] = <<>>
  PROVE  ValueInv(r)'
<1>1. \A k \in Keys : work'[r][k] = Clean
  BY DEF Untouched
<1>2. pc'[r] # "flush"
  BY DEF AtRow
<1>3. \A k, v : ~PageGave(r, k, v)'
  BY DEF PageGave
<1>4. \A k, v : pc'[r] \in Loading => ~RunGave(r, k, v)'
  BY DEF RunGave, With
<1>5. Clean # Bare
  BY DEF Clean, Bare
<1>6. Values(r)'
  BY <1>1, <1>3, <1>4 DEF Values
<1>7. Locks(r)'
  BY <1>1, <1>5 DEF Locks
<1>8. SeenIsThere(r)'
  BY <1>2 DEF SeenIsThere
<1> QED BY <1>6, <1>7, <1>8 DEF ValueInv

(* Before a run loads, and when it is over, it has no attributes.           *)
LEMMA ValueQuiet ==
  ASSUME IInv, AInv, NEW r \in Runs,
         \/ Start(r) \/ InventoryFile(r) \/ OpenPool(r)
         \/ \E i \in DOMAIN parsed[r] : ProcessPage(r, i)
         \/ BeginLoad(r) \/ SaveReport(r) \/ Crash(r)
  PROVE  AInv'
<1>1. RunInv(r) /\ Shapes
  BY DEF IInv
<1>2. core' = core /\ log' = log
  BY DEF Start, InventoryFile, OpenPool, ProcessPage, BeginLoad, SaveReport, Crash
<1>3. \A q \in Runs \ {r} : Same(q)
  BY <1>1 DEF Start, InventoryFile, OpenPool, ProcessPage, BeginLoad, SaveReport, Crash, Shapes,
              Same, reading, session
<1>4. /\ work'[r] = Untouched /\ pc'[r] \notin AtRow
      /\ pc'[r] \in Loading => results'[r] = <<>>
  <2>1. CASE Crash(r)
    BY <1>1, <2>1 DEF Crash, Shapes, AtRow, Loading
  <2>2. CASE BeginLoad(r)
    <3>1. pc[r] = "process" /\ pc'[r] = "load" /\ work' = work /\ results' = results
      BY <1>1, <2>2 DEF BeginLoad, Shapes, session
    <3> QED BY <1>1, <3>1 DEF RunInv, Control, AtRow, Loading
  <2>3. CASE ~Crash(r) /\ ~BeginLoad(r)
    <3>1. work' = work /\ pc[r] \notin Loading /\ pc'[r] \in {"inventory", "process", "done"}
      BY <1>1, <2>3 DEF Start, InventoryFile, OpenPool, ProcessPage, InPool, SaveReport, Shapes,
                        session, Loading
    <3>2. work[r] = Untouched
      BY <1>1, <3>1 DEF RunInv, Control
    <3> QED BY <3>1, <3>2 DEF AtRow, Loading
  <2> QED BY <2>1, <2>2, <2>3
<1>5. ValueInv(r)'
  BY <1>4, NoValues
<1>6. \A k \in Keys : work'[r][k] = Clean
  BY <1>4 DEF Untouched
<1> QED BY <1>2, <1>3, <1>5, <1>6, ValueStep

(* What the pages of a run gave after one more result.                      *)
LEMMA SettledValues ==
  ASSUME IInv, NEW r \in Runs, NEW status, Settle(r, status), parsed' = parsed
  PROVE  /\ results'[r] = Append(results[r], status) /\ pc'[r] = "load"
         /\ \A k, v : /\ RunGave(r, k, v)' <=>
                           \/ RunGave(r, k, v)
                           \/ status = "loaded" /\ v # NONE /\ v \in GivenBy(Current(r), k)
                      /\ ~PageGave(r, k, v)'
<1>1. RunInv(r) /\ Shapes
  BY DEF IInv
<1> DEFINE l == results[r]
           n == Len(l) + 1
           next == Append(l, status)
<1>2. results' = [results EXCEPT ![r] = next] /\ pc' = [pc EXCEPT ![r] = "load"]
  BY DEF Settle
<1>3. results'[r] = next /\ pc'[r] = "load"
  BY <1>1, <1>2 DEF Shapes
<1>4. l \in Seq(Outcomes)
  BY <1>1 DEF RunInv, Lists
<1>5. /\ n \in Nat /\ n \notin DOMAIN l /\ DOMAIN next = DOMAIN l \union {n}
      /\ \A i \in DOMAIN l : next[i] = l[i]
      /\ next[n] = status
  <2>1. l \in Seq(Outcomes \union {status})
    BY <1>4
  <2> QED BY <1>4, <2>1
<1>6. With(r, "loaded")' = {i \in DOMAIN next : next[i] = "loaded"}
  BY <1>3 DEF With
<1>7. With(r, "loaded") = {i \in DOMAIN l : l[i] = "loaded"}
  BY DEF With
<1>8. Current(r) = parsed[r][n]
  BY DEF Current
<1> HIDE DEF next, n, l
<1>9. With(r, "loaded")' = With(r, "loaded") \union IF status = "loaded" THEN {n} ELSE {}
  BY <1>5, <1>6, <1>7
<1>10. ASSUME NEW k, NEW v
       PROVE  RunGave(r, k, v)' <=>
                 \/ RunGave(r, k, v)
                 \/ status = "loaded" /\ v # NONE /\ v \in GivenBy(Current(r), k)
  <2>1. RunGave(r, k, v)' <=> v # NONE /\ \E i \in With(r, "loaded")' : v \in GivenBy(parsed[r][i], k)
    BY DEF RunGave
  <2>2. RunGave(r, k, v) <=> v # NONE /\ \E i \in With(r, "loaded") : v \in GivenBy(parsed[r][i], k)
    BY DEF RunGave
  <2> QED BY <1>8, <1>9, <2>1, <2>2
<1>11. \A k, v : ~PageGave(r, k, v)'
  BY <1>3 DEF PageGave, AtRow
<1> QED BY <1>3, <1>10, <1>11 DEF next, l

(* A page that is settled leaves the attributes of the pages before, and    *)
(* its own if it is loaded.                                                 *)
LEMMA ValueSettle ==
  ASSUME IInv, AInv, NEW r \in Runs, NEW status, Settle(r, status), parsed' = parsed,
         core' = core, log' = log, \A q \in Runs \ {r} : Same(q),
         \A k \in Keys :
           /\ work'[r][k] # Clean => work[r][k] # Clean
           /\ work'[r][k] = Bare => core[k] = Absent
           /\ k[1] \in Attributes =>
                \A v : /\ work'[r][k] = v /\ v \notin {Clean, Bare} => RunGave(r, k, v)'
                       /\ RunGave(r, k, v)' => IsNamed(View(r, k)')
  PROVE  AInv'
<1>1. pc'[r] = "load" /\ \A k, v : ~PageGave(r, k, v)'
  BY SettledValues
<1>2. Locks(r)' /\ SeenIsThere(r)'
  BY <1>1 DEF Locks, SeenIsThere, AtRow
<1>3. Values(r)'
  BY <1>1 DEF Values, AtRow
<1>4. ValueInv(r)'
  BY <1>2, <1>3 DEF ValueInv
<1> QED BY <1>4, ValueStep

(* A page that is not loaded.                                               *)
LEMMA ValueRefused ==
  ASSUME IInv, AInv, NEW r \in Runs, SkipPage(r) \/ RefusePage(r) \/ PageFails(r)
  PROVE  AInv'
<1>1. RunInv(r) /\ Shapes /\ ValueInv(r)
  BY DEF IInv, AInv
<1>2. PICK status \in {"skipped", "failed"} : Settle(r, status)
  BY DEF SkipPage, RefusePage, PageFails
<1>3. /\ parsed' = parsed /\ core' = core /\ log' = log
      /\ inventory' = inventory /\ report' = report
  BY DEF SkipPage, RefusePage, PageFails, reading
<1>4. \A q \in Runs \ {r} : Same(q)
  BY <1>1, <1>3 DEF SkipPage, RefusePage, PageFails, Settle, Shapes, Same
<1>5. \A k, v : RunGave(r, k, v)' <=> RunGave(r, k, v)
  BY <1>2, <1>3, SettledValues
<1>6. \/ work'[r] = work[r] /\ pc[r] \in Loading /\ pc[r] \notin AtRow
      \/ work'[r] = mark[r] /\ pc[r] \in AtRow
  BY <1>1 DEF SkipPage, RefusePage, PageFails, AtPage, AtFlush, Loading, AtRow, Shapes
<1>7. ASSUME NEW k \in Keys
      PROVE  /\ work'[r][k] # Clean => work[r][k] # Clean
             /\ work'[r][k] = Bare => core[k] = Absent
             /\ k[1] \in Attributes =>
                  \A v : /\ work'[r][k] = v /\ v \notin {Clean, Bare} => RunGave(r, k, v)'
                         /\ RunGave(r, k, v)' => IsNamed(View(r, k)')
  <2>1. CASE work'[r] = work[r] /\ pc[r] \in Loading /\ pc[r] \notin AtRow
    <3>1. View(r, k)' = View(r, k)
      BY <1>3, <2>1 DEF View
    <3>2. \A v : ~PageGave(r, k, v)
      BY <2>1 DEF PageGave
    <3> QED BY <1>1, <1>5, <2>1, <3>1, <3>2 DEF ValueInv, Values, Locks
  <2>2. CASE work'[r] = mark[r] /\ pc[r] \in AtRow
    <3>1. View(r, k)' = Marked(r, k)
      BY <1>3, <2>2 DEF View, Marked
    <3> QED BY <1>1, <1>5, <2>2, <3>1 DEF ValueInv, Values, Locks, AtRow, Loading
  <2> QED BY <1>6, <2>1, <2>2
<1> QED BY <1>2, <1>3, <1>4, <1>7, ValueSettle

(* A page that is loaded: its calls have given all its names and numbers.   *)
LEMMA ValueClose ==
  ASSUME IInv, AInv, NEW r \in Runs, ClosePage(r)
  PROVE  AInv'
<1> DEFINE e == Current(r)
<1>1. RunInv(r) /\ Shapes /\ ValueInv(r)
  BY DEF IInv, AInv
<1>2. /\ pc[r] = "select" /\ step[r].row > Len(e.rows) /\ Settle(r, "loaded")
      /\ parsed' = parsed /\ core' = core /\ log' = log
      /\ inventory' = inventory /\ report' = report /\ work' = work
  BY DEF ClosePage, reading
<1>3. \A q \in Runs \ {r} : Same(q)
  BY <1>1, <1>2 DEF Settle, Shapes, Same
<1>4. IsLoadable(e) /\ step[r] \in [row : Nat, call : Nat] /\ pc[r] \in AtRow /\ pc[r] \in Loading
  BY <1>1, <1>2 DEF RunInv, Position, AtRow, Loading
<1>5. \A n, c : IsCall(e, n, c) => Done(step[r], n, c)
  <2>1. Len(e.rows) \in Nat
    BY <1>4, ListShape DEF IsLoadable, IsParsed
  <2> QED BY <1>2, <1>4, <2>1 DEF IsCall, Done
<1> HIDE DEF e
<1>6. ASSUME NEW k, k[1] \in Attributes, NEW v, v # NONE
      PROVE  PageGave(r, k, v) <=> v \in GivenBy(e, k)
  <2>1. PageGave(r, k, v) <=> \E n, c : IsCall(e, n, c) /\ Gets(e, n)[c] = Get(k, v)
    BY <1>4, <1>5, <1>6 DEF PageGave, e
  <2>2. ASSUME NEW n, NEW c, IsCall(e, n, c), Gets(e, n)[c] = Get(k, v)
        PROVE  v \in GivenBy(e, k)
    <3>1. Gets(e, n)[c].key = k /\ Gets(e, n)[c].given = v
      BY <2>2 DEF Get
    <3> QED BY <1>4, <1>6, <2>2, <3>1, GivenIsCalled
  <2>3. v \in GivenBy(e, k) => \E n, c : IsCall(e, n, c) /\ Gets(e, n)[c] = Get(k, v)
    BY <1>4, <1>6, CalledGiven
  <2> QED BY <2>1, <2>2, <2>3
<1>7. \A k, v : RunGave(r, k, v)' <=> RunGave(r, k, v) \/ (v # NONE /\ v \in GivenBy(e, k))
  BY <1>2, SettledValues DEF e
<1>8. ASSUME NEW k \in Keys
      PROVE  /\ work'[r][k] # Clean => work[r][k] # Clean
             /\ work'[r][k] = Bare => core[k] = Absent
             /\ k[1] \in Attributes =>
                  \A v : /\ work'[r][k] = v /\ v \notin {Clean, Bare} => RunGave(r, k, v)'
                         /\ RunGave(r, k, v)' => IsNamed(View(r, k)')
  <2>1. View(r, k)' = View(r, k)
    BY <1>2 DEF View
  <2>2. \A v : k[1] \in Attributes =>
               /\ work[r][k] = v /\ v \notin {Clean, Bare} => RunGave(r, k, v) \/ PageGave(r, k, v)
               /\ RunGave(r, k, v) \/ PageGave(r, k, v) => IsNamed(View(r, k))
    BY <1>1, <1>4 DEF ValueInv, Values
  <2>3. \A v : PageGave(r, k, v) => v # NONE
    BY DEF PageGave
  <2>4. work'[r][k] = work[r][k] /\ (work[r][k] = Bare => core[k] = Absent)
    BY <1>1, <1>2 DEF ValueInv, Locks
  <2> QED BY <1>6, <1>7, <2>1, <2>2, <2>3, <2>4
<1> QED BY <1>2, <1>3, <1>8, ValueSettle

(* The savepoint holds what the run has.                                    *)
LEMMA ValueOpen ==
  ASSUME IInv, AInv, NEW r \in Runs, OpenPage(r)
  PROVE  AInv'
<1>1. RunInv(r) /\ Shapes /\ ValueInv(r)
  BY DEF IInv, AInv
<1>2. /\ pc[r] = "load" /\ pc' = [pc EXCEPT ![r] = "select"]
      /\ mark' = [mark EXCEPT ![r] = work[r]] /\ AtPage(r)
      /\ core' = core /\ log' = log /\ parsed' = parsed /\ inventory' = inventory
      /\ results' = results /\ work' = work /\ step' = step /\ seen' = seen /\ team' = team
      /\ report' = report /\ Current(r).status = "validated"
  BY DEF OpenPage, AtPage, reading
<1>3. pc'[r] = "select" /\ mark'[r] = work[r] /\ \A q \in Runs \ {r} : Same(q)
  BY <1>1, <1>2 DEF Shapes, Same
<1>4. Current(r)' = Current(r) /\ step'[r] = FirstCall
  BY <1>1, <1>2, PageStays DEF RunInv, Position, AtRow
<1>5. IsParsed(Current(r))
  BY <1>1, <1>2, CurrentEntry DEF AtPage, Loading
<1>6. \A k, v : ~PageGave(r, k, v)' /\ ~PageGave(r, k, v)
  BY <1>2, <1>4, <1>5, NothingDone DEF PageGave, AtRow
<1>7. \A k, v : RunGave(r, k, v)' <=> RunGave(r, k, v)
  BY <1>2 DEF RunGave, With
<1>8. \A k : View(r, k)' = View(r, k) /\ Marked(r, k)' = View(r, k)
  BY <1>2, <1>3 DEF View, Marked
<1>9. Locks(r)'
  BY <1>1, <1>2, <1>3 DEF ValueInv, Locks
<1>10. SeenIsThere(r)'
  BY <1>3 DEF SeenIsThere
<1>11. Values(r)'
  <2> SUFFICES ASSUME NEW k \in Keys, k[1] \in Attributes, NEW v
               PROVE  /\ work'[r][k] = v /\ v \notin {Clean, Bare} => RunGave(r, k, v)'
                      /\ mark'[r][k] = v /\ v \notin {Clean, Bare} => RunGave(r, k, v)'
                      /\ RunGave(r, k, v)' => IsNamed(View(r, k)') /\ IsNamed(Marked(r, k)')
    BY <1>6 DEF Values
  <2>1. /\ work[r][k] = v /\ v \notin {Clean, Bare} => RunGave(r, k, v)
        /\ RunGave(r, k, v) => IsNamed(View(r, k))
    BY <1>1, <1>2, <1>6 DEF ValueInv, Values, Loading
  <2> QED BY <1>2, <1>3, <1>7, <1>8, <2>1
<1>12. ValueInv(r)'
  BY <1>9, <1>10, <1>11 DEF ValueInv
<1> QED BY <1>2, <1>3, <1>12, ValueStep

(* A SELECT returns what the run sees.                                      *)
LEMMA ValueSelect ==
  ASSUME IInv, AInv, NEW r \in Runs, SelectRow(r)
  PROVE  AInv'
<1>1. RunInv(r) /\ Shapes /\ ValueInv(r)
  BY DEF IInv, AInv
<1>2. /\ pc[r] = "select" /\ pc' = [pc EXCEPT ![r] = "flush"]
      /\ seen' = [seen EXCEPT ![r] = View(r, CurrentGet(r).key)]
      /\ core' = core /\ log' = log /\ parsed' = parsed /\ inventory' = inventory
      /\ results' = results /\ work' = work /\ step' = step /\ mark' = mark /\ team' = team
      /\ report' = report
  BY DEF SelectRow, reading
<1>3. /\ pc'[r] = "flush" /\ seen'[r] = View(r, CurrentGet(r).key)
      /\ \A q \in Runs \ {r} : Same(q)
  BY <1>1, <1>2 DEF Shapes, Same
<1>4. Current(r)' = Current(r)
  BY <1>2, PageStays
<1>5. CurrentGet(r)' = CurrentGet(r)
  BY <1>2, <1>4 DEF CurrentGet
<1>6. /\ \A k, v : RunGave(r, k, v)' <=> RunGave(r, k, v)
      /\ \A k, v : PageGave(r, k, v)' <=> PageGave(r, k, v)
  BY <1>2, <1>3, <1>4 DEF RunGave, With, PageGave, AtRow
<1>7. \A k : View(r, k)' = View(r, k) /\ Marked(r, k)' = Marked(r, k)
  BY <1>2 DEF View, Marked
<1>8. pc[r] \in AtRow /\ pc[r] \in Loading /\ pc'[r] \in AtRow /\ pc'[r] \in Loading
  BY <1>2, <1>3 DEF AtRow, Loading
<1>9. Locks(r)'
  BY <1>1, <1>2, <1>8 DEF ValueInv, Locks
<1>10. SeenIsThere(r)'
  BY <1>3, <1>5, <1>7 DEF SeenIsThere
<1>11. Values(r)'
  BY <1>1, <1>2, <1>6, <1>7, <1>8 DEF ValueInv, Values
<1>12. ValueInv(r)'
  BY <1>9, <1>10, <1>11 DEF ValueInv
<1> QED BY <1>2, <1>3, <1>12, ValueStep

(* What a flush writes.                                                     *)
LEMMA WrittenValue ==
  ASSUME NEW r, RunInv(r), FlushRow(r), IsTable(core)
  PROVE  LET k == CurrentGet(r).key
             v == CurrentGet(r).given
             new == NewValue(r)
         IN  /\ new # seen[r] /\ new = Bare => View(r, k) = Absent
             /\ k[1] \in Attributes /\ v = NONE => new \in {seen[r], Bare}
             /\ k[1] \in Attributes => new \in {seen[r], Bare, v}
             /\ v # NONE => IsNamed(new)
             /\ new = seen[r] => new # Absent
<1> DEFINE k == CurrentGet(r).key
           v == CurrentGet(r).given
           g == Given(r)
           new == NewValue(r)
<1>1. pc[r] = "flush" /\ pc[r] \in AtRow /\ ~Violates(r)
  BY DEF FlushRow, AtFlush, AtRow
<1>2. g \notin {Absent, Clean} /\ new \notin {Absent, Clean}
  BY <1>1, NewValueFacts
<1>3. v \notin {Absent, Bare, Clean}
  <2>1. /\ IsParsed(Current(r)) /\ IsCall(Current(r), step[r].row, step[r].call)
    BY <1>1, PresentCall
  <2> QED BY <2>1, GivenValues DEF CurrentGet
<1>4. g = IF /\ k[1] = "team_aliases" /\ v = NONE
             /\ seen[r] = Absent /\ team[r] # Bare
          THEN team[r] ELSE v
  BY DEF Given
<1>5. new = Stored(k, g, seen[r])
  BY DEF NewValue
<1>6. seen[r] = Absent => View(r, k) = Absent
  BY <1>1 DEF Violates
<1>7. g # Bare
  BY <1>3, <1>4
<1>8. k[1] \in Attributes => g = v
  BY <1>4 DEF Attributes
<1>9. v # NONE => g = v
  BY <1>4
<1> HIDE DEF k, v, g, new
<1>10. new # seen[r] /\ new = Bare => View(r, k) = Absent
  BY <1>5, <1>6, <1>7 DEF Stored
<1>11. k[1] \in Attributes /\ v = NONE => new \in {seen[r], Bare}
  BY <1>5, <1>8 DEF Stored
<1>12. k[1] \in Attributes => new \in {seen[r], Bare, v}
  BY <1>5, <1>8 DEF Stored
<1>13. v # NONE => IsNamed(new)
  BY <1>2, <1>3, <1>5, <1>9 DEF Stored, IsNamed
<1> QED BY <1>2, <1>10, <1>11, <1>12, <1>13 DEF k, v, new

(* A flush writes what its call gives, and a fallback only where nothing is.*)
LEMMA ValueFlush ==
  ASSUME IInv, AInv, NEW r \in Runs, FlushRow(r)
  PROVE  AInv'
<1> DEFINE e == Current(r)
           k0 == CurrentGet(r).key
           given == CurrentGet(r).given
           new == NewValue(r)
           at == step[r]
           next == NextCall(e, at)
<1>1. RunInv(r) /\ Shapes /\ ValueInv(r) /\ IsTable(core)
  BY DEF IInv, AInv, Shapes
<1>2. /\ pc[r] = "flush" /\ ~Violates(r) /\ ~Blocked(r)
      /\ work' = IF new = seen[r] THEN work ELSE [work EXCEPT ![r][k0] = new]
      /\ team' = IF k0[1] = "teams" THEN [team EXCEPT ![r] = new] ELSE team
      /\ step' = [step EXCEPT ![r] = next]
      /\ seen' = [seen EXCEPT ![r] = Absent] /\ pc' = [pc EXCEPT ![r] = "select"]
      /\ inventory' = inventory /\ parsed' = parsed /\ results' = results
      /\ mark' = mark /\ report' = report /\ core' = core /\ log' = log
  BY DEF FlushRow, AtFlush, reading
<1>3. pc[r] \in AtRow /\ pc[r] \in Loading
  BY <1>2 DEF AtRow, Loading
<1>4. IsLoadable(e) /\ IsParsed(e) /\ IsCall(e, at.row, at.call) /\ k0 \in Keys
  BY <1>1, <1>2, <1>3, PresentCall
<1>5. Gets(e, at.row)[at.call] = CurrentGet(r)
  BY DEF CurrentGet
<1>6. at \in [row : Nat, call : Nat]
  BY <1>1 DEF RunInv, Position
<1>7. \A n, c : IsCall(e, n, c) =>
           (Done(next, n, c) <=> Done(at, n, c) \/ (n = at.row /\ c = at.call))
  BY <1>4, <1>6, NextCallFacts
<1>8. /\ new # seen[r] /\ new = Bare => View(r, k0) = Absent
      /\ k0[1] \in Attributes /\ given = NONE => new \in {seen[r], Bare}
      /\ k0[1] \in Attributes => new \in {seen[r], Bare, given}
      /\ given # NONE => IsNamed(new)
      /\ new = seen[r] => new # Absent
  BY <1>1, WrittenValue
<1>9. new # seen[r] => \A q \in Runs \ {r} : work[q][k0] = Clean
  BY <1>2 DEF Blocked, LockedBy
<1>10. CurrentGet(r) = Get(k0, given)
  <2>1. \E key, gave : CurrentGet(r) = Get(key, gave)
    BY <1>4, <1>5, CallShape
  <2> QED BY <2>1 DEF Get
<1>11. new \notin {Absent, Clean}
  BY <1>1, <1>2, NewValueFacts
<1> HIDE DEF next
<1>12. Current(r)' = e
  BY <1>2, PageStays
<1>13. SeenIsThere(r) /\ (IsNamed(seen[r]) => IsNamed(View(r, k0)))
  BY <1>1, <1>2 DEF ValueInv, SeenIsThere
<1> HIDE DEF e, k0, given, new, at
<1>14. /\ pc'[r] = "select" /\ step'[r] = next /\ \A q \in Runs \ {r} : Same(q)
  BY <1>1, <1>2 DEF Shapes, Same
<1>15. DOMAIN work[r] = Keys
  BY <1>1 DEF RunInv, Contained
<1>16. \A k \in Keys : work'[r][k] = IF k = k0 /\ new # seen[r] THEN new ELSE work[r][k]
  BY <1>1, <1>2, <1>4, <1>15 DEF Shapes
<1>17. \A k, v : RunGave(r, k, v)' <=> RunGave(r, k, v)
  BY <1>2 DEF RunGave, With
<1>18. \A k, v : PageGave(r, k, v)' <=>
                   PageGave(r, k, v) \/ (k = k0 /\ v = given /\ v # NONE)
  <2>1. \A k, v : PageGave(r, k, v)' <=>
          v # NONE /\ \E n, c : IsCall(e, n, c) /\ Done(next, n, c) /\ Gets(e, n)[c] = Get(k, v)
    BY <1>12, <1>14 DEF PageGave, AtRow
  <2>2. \A k, v : PageGave(r, k, v) <=>
          v # NONE /\ \E n, c : IsCall(e, n, c) /\ Done(at, n, c) /\ Gets(e, n)[c] = Get(k, v)
    BY <1>3 DEF PageGave, e, at
  <2>3. \A k, v : Get(k0, given) = Get(k, v) <=> k = k0 /\ v = given
    BY DEF Get
  <2> QED BY <1>4, <1>5, <1>7, <1>10, <2>1, <2>2, <2>3
<1>19. \A k : Marked(r, k)' = Marked(r, k) /\ mark'[r][k] = mark[r][k]
  BY <1>2 DEF Marked
<1>20. \A k \in Keys : /\ k # k0 \/ new = seen[r] => View(r, k)' = View(r, k)
                       /\ k = k0 /\ new # seen[r] => View(r, k)' = new
  BY <1>2, <1>11, <1>16 DEF View
<1>21. \A k \in Keys : IsNamed(View(r, k)) => IsNamed(View(r, k)')
  BY <1>8, <1>11, <1>20 DEF IsNamed
<1>22. \A k \in Keys : k = k0 /\ given # NONE => IsNamed(View(r, k)')
  BY <1>8, <1>13, <1>20, <1>21
<1>23. Locks(r)'
  <2>1. ASSUME NEW k \in Keys PROVE work'[r][k] = Bare => core[k] = Absent
    <3>1. CASE k = k0 /\ new # seen[r]
      <4>1. new = Bare => View(r, k0) = Absent
        BY <1>8, <3>1
      <4>2. View(r, k0) = Absent => core[k0] = Absent
        BY <1>1, <1>4 DEF View, RunInv, Contained
      <4> QED BY <1>16, <3>1, <4>1, <4>2
    <3>2. CASE ~(k = k0 /\ new # seen[r])
      BY <1>1, <1>16, <3>2 DEF ValueInv, Locks
    <3> QED BY <3>1, <3>2
  <2>2. \A k \in Keys : work[r][k] # Clean => work'[r][k] # Clean
    BY <1>11, <1>16
  <2> QED BY <1>1, <1>2, <1>3, <1>19, <2>1, <2>2 DEF ValueInv, Locks
<1>24. SeenIsThere(r)'
  BY <1>14 DEF SeenIsThere
<1>25. Values(r)'
  <2> SUFFICES ASSUME NEW k \in Keys, k[1] \in Attributes, NEW v
               PROVE  /\ work'[r][k] = v /\ v \notin {Clean, Bare} => RunGave(r, k, v)' \/ PageGave(r, k, v)'
                      /\ mark'[r][k] = v /\ v \notin {Clean, Bare} => RunGave(r, k, v)'
                      /\ RunGave(r, k, v)' \/ PageGave(r, k, v)' => IsNamed(View(r, k)')
                      /\ RunGave(r, k, v)' => IsNamed(Marked(r, k)')
    BY DEF Values
  <2>1. /\ work[r][k] = v /\ v \notin {Clean, Bare} => RunGave(r, k, v) \/ PageGave(r, k, v)
        /\ mark[r][k] = v /\ v \notin {Clean, Bare} => RunGave(r, k, v)
        /\ RunGave(r, k, v) \/ PageGave(r, k, v) => IsNamed(View(r, k))
        /\ RunGave(r, k, v) => IsNamed(Marked(r, k))
    BY <1>1, <1>3 DEF ValueInv, Values
  <2>2. work'[r][k] = v /\ v \notin {Clean, Bare} => RunGave(r, k, v) \/ PageGave(r, k, v)'
    <3>1. CASE k = k0 /\ new # seen[r]
      BY <1>8, <1>16, <1>18, <3>1
    <3>2. CASE ~(k = k0 /\ new # seen[r])
      BY <1>16, <1>18, <2>1, <3>2
    <3> QED BY <3>1, <3>2
  <2>3. RunGave(r, k, v) \/ PageGave(r, k, v)' => IsNamed(View(r, k)')
    BY <1>18, <1>21, <1>22, <2>1
  <2> QED BY <1>17, <1>19, <2>1, <2>2, <2>3
<1>26. ValueInv(r)'
  BY <1>23, <1>24, <1>25 DEF ValueInv
<1>27. \A k \in Keys : work'[r][k] # Clean =>
          work[r][k] # Clean \/ \A q \in Runs \ {r} : work[q][k] = Clean
  BY <1>9, <1>16
<1> QED BY <1>2, <1>14, <1>26, <1>27, ValueStep

(* What the pages gave that a run commits.                                  *)
LEMMA CommittedValues ==
  ASSUME NEW r \in Runs, RunInv(r), pc[r] = "load", Len(results[r]) = Len(parsed[r]), NEW k
  PROVE  \A v : v \in AllGiven(LoadedPages(r), k) <=> RunGave(r, k, v)
<1> DEFINE l == results[r]
           p == LoadedPages(r)
<1>1. DOMAIN p = DOMAIN l
      /\ \A i \in DOMAIN l : p[i] = IF l[i] = "loaded" THEN parsed[r][i] ELSE NoPage
  BY DEF LoadedPages
<1>2. GivenBy(NoPage, k) = {}
  BY NoPageFacts
<1>3. With(r, "loaded") = {i \in DOMAIN l : l[i] = "loaded"}
  BY DEF With
<1> HIDE DEF p, l
<1>4. \A v : v \in AllGiven(p, k) <=> v # NONE /\ \E i \in DOMAIN l : v \in GivenBy(p[i], k)
  BY <1>1 DEF AllGiven
<1> QED BY <1>1, <1>2, <1>3, <1>4 DEF RunGave, p

(* A step of one run that changes the core tables.                          *)
LEMMA ValueOthers ==
  ASSUME IInv, AInv, NEW r \in Runs, \A q \in Runs \ {r} : Same(q), work'[r] = Untouched,
         NamesStay, CoreValues', ValueInv(r)',
         \A q \in Runs \ {r} : Untaken(q)
  PROVE  AInv'
<1>1. ASSUME NEW q \in Runs \ {r}
      PROVE  ValueInv(q)'
  <2>1. RunInv(q) /\ ValueInv(q) /\ Same(q) /\ Untaken(q)
    BY DEF IInv, AInv
  <2> QED BY <2>1, ValueFrame
<1>2. Exclusive'
  <2>1. \A q \in Runs \ {r} : work'[q] = work[q]
    BY DEF Same
  <2>2. \A k \in Keys : work'[r][k] = Clean
    BY DEF Untouched
  <2> QED BY <2>1, <2>2 DEF AInv, Exclusive
<1>3. \A q \in Runs : ValueInv(q)'
  BY <1>1
<1> QED BY <1>2, <1>3 DEF AInv

(* A commit adds what its pages gave.                                       *)
LEMMA ValueCommit ==
  ASSUME IInv, AInv, NEW r \in Runs, Commit(r)
  PROVE  AInv'
<1>1. RunInv(r) /\ Shapes /\ Logged /\ ValueInv(r) /\ IsTable(core)
  BY DEF IInv, AInv, Shapes
<1>2. /\ pc[r] = "load" /\ Len(results[r]) = Len(parsed[r])
      /\ core' = [k \in Keys |-> View(r, k)] /\ work' = [work EXCEPT ![r] = Untouched]
      /\ log' = log \o LoadedPages(r) /\ pc' = [pc EXCEPT ![r] = "committed"]
      /\ inventory' = inventory /\ parsed' = parsed /\ results' = results
      /\ mark' = mark /\ step' = step /\ seen' = seen /\ team' = team /\ report' = report
  BY DEF Commit, reading
<1>3. pc'[r] = "committed" /\ work'[r] = Untouched /\ \A q \in Runs \ {r} : Same(q)
  BY <1>1, <1>2 DEF Shapes, Same
<1>4. pc[r] \in Loading /\ pc[r] \notin AtRow /\ pc'[r] \notin AtRow /\ pc'[r] \notin Loading
  BY <1>2, <1>3 DEF Loading, AtRow
<1>5. \A k \in Keys : core'[k] = View(r, k)
  BY <1>2
<1>6. \A k \in Keys : work[r][k] # Absent /\ (work[r][k] = Bare => core[k] = Absent)
  BY <1>1 DEF RunInv, Contained, ValueInv, Locks
<1>7. NamesStay
  BY <1>5, <1>6 DEF NamesStay, View, IsNamed
<1>8. ASSUME NEW q \in Runs \ {r} PROVE Untaken(q)
  <2>1. \A k \in Keys : work[q][k] # Clean => work[r][k] = Clean
    BY DEF AInv, Exclusive
  <2> QED BY <1>5, <2>1 DEF Untaken, View
<1>9. ASSUME NEW k \in Keys, k[1] \in Attributes
      PROVE  /\ core'[k] \in {Absent, Bare} \union AllGiven(log', k)
             /\ AllGiven(log', k) # {} => IsNamed(core'[k])
  <2>1. AllGiven(log', k) = AllGiven(log, k) \union AllGiven(LoadedPages(r), k)
    <3>1. IsList(log) /\ IsList(LoadedPages(r))
      BY <1>1, <1>2, LoadedPagesFacts DEF Logged
    <3> QED BY <1>2, <3>1, JoinedGiven
  <2>2. \A v : v \in AllGiven(LoadedPages(r), k) <=> RunGave(r, k, v)
    BY <1>1, <1>2, CommittedValues
  <2>3. \A v : /\ work[r][k] = v /\ v \notin {Clean, Bare} => RunGave(r, k, v)
               /\ RunGave(r, k, v) => IsNamed(View(r, k))
    <3>1. \A v : ~PageGave(r, k, v)
      BY <1>4 DEF PageGave
    <3> QED BY <1>1, <1>4, <1>9, <3>1 DEF ValueInv, Values
  <2>4. /\ core[k] \in {Absent, Bare} \union AllGiven(log, k)
        /\ AllGiven(log, k) # {} => IsNamed(core[k])
    BY <1>9 DEF AInv, CoreValues
  <2>5. IsNamed(core[k]) => IsNamed(core'[k])
    BY <1>7 DEF NamesStay
  <2> QED BY <1>5, <2>1, <2>2, <2>3, <2>4, <2>5 DEF View
<1>10. CoreValues'
  BY <1>9 DEF CoreValues
<1>11. ValueInv(r)'
  BY <1>3, <1>4, NoValues
<1> QED BY <1>3, <1>7, <1>8, <1>10, <1>11, ValueOthers

(* A box player takes no row that a run has written.                        *)
LEMMA ValueBox ==
  ASSUME IInv, AInv, NEW box \in BoxPlayers, CreateBoxPlayer(box)
  PROVE  AInv'
<1> DEFINE key == PlayerKey(box.player)
           e == BoxEntry(box)
           h == <<e>>
<1>1. Shapes /\ Logged /\ IsTable(core)
  BY DEF IInv, Shapes
<1>2. /\ core' = [core EXCEPT ![key] = box.name] /\ log' = Append(log, e)
      /\ core[key] = Absent /\ \A r \in Runs : work[r][key] = Clean
      /\ pc' = pc /\ report' = report
      /\ inventory' = inventory /\ parsed' = parsed /\ results' = results /\ work' = work
      /\ mark' = mark /\ step' = step /\ seen' = seen /\ team' = team
  BY DEF CreateBoxPlayer, reading, session, LockedBy
<1>3. IsParsed(e) /\ KeysOf(e) = {key} /\ key \in Keys
  BY BoxPage
<1>4. box.name \notin {Absent, Bare, Clean, NONE}
  BY CoreLoadAssumption
<1>5. IsList(h) /\ DOMAIN h = {1} /\ h[1] = e
  <2>1. PICK c \in Nat : c = 1
    OBVIOUS
  <2>2. h = [i \in 1..1 |-> h[i]] /\ 1..1 = {1} /\ h[1] = e
    OBVIOUS
  <2> HIDE DEF h
  <2> QED BY <2>1, <2>2, ListOf
<1>6. log' = log \o h
  <2>1. log \in Seq({log[i] : i \in DOMAIN log})
    BY <1>1 DEF Logged, IsList
  <2> QED BY <1>2, <2>1
<1>7. GivenBy(e, key) = {box.name}
  <2>1. /\ DOMAIN e.rows = {1} /\ e.rows[1].player = box.player /\ e.rows[1].name = box.name
        /\ key[1] = "players" /\ key[3] = box.player
    BY DEF BoxEntry, PlayerKey, Key
  <2>2. Naming(e, key[3]) = {1}
    BY <1>4, <2>1 DEF Naming
  <2> HIDE DEF key, e
  <2> QED BY <1>3, <2>1, <2>2 DEF GivenBy
<1>8. DOMAIN core = Keys
  BY <1>1 DEF IsTable
<1> HIDE DEF key, e, h
<1>9. \A k \in Keys : core'[k] = IF k = key THEN box.name ELSE core[k]
  BY <1>2, <1>8
<1>10. \A k : AllGiven(h, k) = IF k = key THEN {box.name} ELSE {}
  <2>1. \A k : AllGiven(h, k) = GivenBy(e, k) \ {NONE}
    BY <1>5 DEF AllGiven
  <2>2. \A k : k # key => GivenBy(e, k) = {}
    BY <1>3 DEF GivenBy
  <2> QED BY <1>4, <1>7, <2>1, <2>2
<1>11. \A k : AllGiven(log', k) = AllGiven(log, k) \union AllGiven(h, k)
  BY <1>1, <1>5, <1>6, JoinedGiven DEF Logged
<1>12. NamesStay /\ \A q \in Runs : Untaken(q)
  <2>1. ~IsNamed(core[key])
    BY <1>2 DEF IsNamed
  <2> QED BY <1>2, <1>9, <2>1 DEF NamesStay, Untaken
<1>13. CoreValues'
  <2>1. \A k \in Keys : k[1] \in Attributes =>
          /\ core[k] \in {Absent, Bare} \union AllGiven(log, k)
          /\ AllGiven(log, k) # {} => IsNamed(core[k])
    BY DEF AInv, CoreValues
  <2>2. IsNamed(box.name)
    BY <1>4 DEF IsNamed
  <2> QED BY <1>9, <1>10, <1>11, <2>1, <2>2 DEF CoreValues
<1>14. \A q \in Runs : ValueInv(q)'
  <2> SUFFICES ASSUME NEW q \in Runs PROVE ValueInv(q)'
    OBVIOUS
  <2>1. RunInv(q) /\ ValueInv(q) /\ Same(q) /\ Untaken(q)
    BY <1>2, <1>12 DEF IInv, AInv, Same
  <2> QED BY <1>12, <2>1, ValueFrame
<1>15. Exclusive'
  BY <1>2 DEF AInv, Exclusive
<1> QED BY <1>13, <1>14, <1>15 DEF AInv

(* A step that only changes the cache changes no attribute.                 *)
LEMMA ValueStays ==
  ASSUME IInv, AInv, core' = core, log' = log, UNCHANGED <<pc, reading, results, session, report>>
  PROVE  AInv'
<1>1. /\ pc' = pc /\ inventory' = inventory /\ parsed' = parsed /\ results' = results
      /\ work' = work /\ mark' = mark /\ step' = step /\ seen' = seen /\ team' = team
      /\ report' = report
  BY DEF reading, session
<1>2. NamesStay /\ \A q \in Runs : Untaken(q)
  BY DEF NamesStay, Untaken
<1>3. \A q \in Runs : ValueInv(q)'
  <2> SUFFICES ASSUME NEW q \in Runs PROVE ValueInv(q)'
    OBVIOUS
  <2>1. RunInv(q) /\ ValueInv(q) /\ Same(q) /\ Untaken(q)
    BY <1>1, <1>2 DEF IInv, AInv, Same
  <2> QED BY <1>2, <2>1, ValueFrame
<1>4. Exclusive' /\ CoreValues'
  BY <1>1 DEF AInv, Exclusive, CoreValues
<1> QED BY <1>3, <1>4 DEF AInv

(* The attributes at the beginning are those of the earlier loads.          *)
LEMMA InitAInv == Init => AInv
<1> SUFFICES ASSUME Init PROVE AInv
  OBVIOUS
<1>1. IInv
  BY InitIInv
<1>2. core = Replay(log) /\ IsList(log) /\ ArePages(log, Len(log))
  BY <1>1 DEF Init, IInv, Logged
<1>3. CoreValues
  BY <1>2, ReplayFacts DEF CoreValues
<1>4. \A r \in Runs : pc[r] = "idle" /\ work[r] = Untouched
  BY DEF Init
<1>5. \A r \in Runs, k \in Keys : work[r][k] = Clean
  BY <1>4 DEF Untouched
<1>6. \A r \in Runs : \A k, v : ~PageGave(r, k, v)
  BY <1>4 DEF PageGave, AtRow
<1>7. Clean # Bare
  BY DEF Clean, Bare
<1>8. \A r \in Runs : Locks(r) /\ SeenIsThere(r) /\ Values(r)
  BY <1>4, <1>5, <1>6, <1>7 DEF Locks, SeenIsThere, Values, AtRow, Loading
<1> QED BY <1>3, <1>5, <1>8 DEF AInv, Exclusive, ValueInv

(* Every step keeps the attributes.                                         *)
LEMMA NextAInv ==
  ASSUME IInv, AInv, [Next]_vars
  PROVE  AInv'
<1>1. CASE UNCHANGED vars
  BY <1>1, ValueStays DEF vars
<1>2. CASE \E n \in DOMAIN Files : \E content \in MayHold[n] : ReplaceFile(n, content)
  BY <1>2, ValueStays DEF ReplaceFile
<1>3. CASE \E box \in BoxPlayers : CreateBoxPlayer(box)
  BY <1>3, ValueBox
<1>4. ASSUME NEW r \in Runs, Step(r)
      PROVE  AInv'
  <2>1. CASE \/ Start(r) \/ InventoryFile(r) \/ OpenPool(r)
             \/ \E i \in DOMAIN parsed[r] : ProcessPage(r, i)
             \/ BeginLoad(r) \/ SaveReport(r) \/ Crash(r)
    BY <2>1, ValueQuiet
  <2>2. CASE SkipPage(r) \/ RefusePage(r) \/ UniqueViolation(r) \/ StatementFault(r)
    <3>1. SkipPage(r) \/ RefusePage(r) \/ PageFails(r)
      BY <2>2 DEF UniqueViolation, StatementFault
    <3> QED BY <3>1, ValueRefused
  <2>3. CASE OpenPage(r)
    BY <2>3, ValueOpen
  <2>4. CASE SelectRow(r)
    BY <2>4, ValueSelect
  <2>5. CASE FlushRow(r)
    BY <2>5, ValueFlush
  <2>6. CASE ClosePage(r)
    BY <2>6, ValueClose
  <2>7. CASE Commit(r)
    BY <2>7, ValueCommit
  <2> QED BY <1>4, <2>1, <2>2, <2>3, <2>4, <2>5, <2>6, <2>7 DEF Step
<1> QED BY <1>1, <1>2, <1>3, <1>4 DEF Next

(* The attributes of the core tables are among those given, and no fallback *)
(* is left once a name was given, however runs overlap.                     *)
THEOREM ValueInvariance == Spec => []AInv
<1>1. Init => AInv
  BY InitAInv
<1>2. IInv /\ AInv /\ [Next]_vars => AInv'
  BY NextAInv
<1> QED BY <1>1, <1>2, Invariance, PTL DEF Spec

-----------------------------------------------------------------------------
(***************************************************************************)
(* One run at a time.  The core tables are those of loading the log, and   *)
(* what a run has written so far is what its pages leave of them.          *)
(***************************************************************************)

(* The tables that loading the pages of h leaves of the tables s.           *)
After(s, h) == (CHOOSE T : IsTrace(T, s, h, Len(h)))[Len(h)]

(* It is the end of any trace.                                              *)
LEMMA AfterIsTrace ==
  ASSUME NEW s, NEW h, Len(h) \in Nat, NEW T, IsTrace(T, s, h, Len(h))
  PROVE  After(s, h) = T[Len(h)]
<1>1. PICK n \in Nat : n = Len(h)
  OBVIOUS
<1> DEFINE R == CHOOSE R : IsTrace(R, s, h, Len(h))
<1>2. IsTrace(R, s, h, Len(h))
  OBVIOUS
<1>3. After(s, h) = R[n]
  BY <1>1 DEF After
<1> HIDE DEF R
<1>4. IsTrace(R, s, h, n) /\ IsTrace(T, s, h, n)
  BY <1>1, <1>2
<1>5. \A i \in 0..n : R[i] = T[i]
  BY <1>4, TraceIsUnique
<1>6. n \in 0..n
  OBVIOUS
<1> QED BY <1>1, <1>3, <1>5, <1>6

(* Replay loads the log into empty tables.                                  *)
LEMMA ReplayIsAfter ==
  ASSUME NEW h, Len(h) \in Nat
  PROVE  Replay(h) = After(Empty, h)
<1>1. PICK T : IsTrace(T, Empty, h, Len(h))
  BY TraceExists
<1> QED BY <1>1, ReplayIsTrace, AfterIsTrace

(* No page and one page.                                                    *)
LEMMA AfterFew ==
  ASSUME NEW s, NEW h
  PROVE  /\ Len(h) = 0 => After(s, h) = s
         /\ Len(h) = 1 => After(s, h) = Loaded(s, h[1])
<1>1. ASSUME Len(h) = 0 PROVE After(s, h) = s
  <2>1. PICK n \in Nat : n = 0
    OBVIOUS
  <2>2. PICK T : IsTrace(T, s, h, n)
    BY TraceExists
  <2>3. IsTrace(T, s, h, Len(h)) /\ Len(h) \in Nat
    BY <1>1, <2>1, <2>2
  <2>4. After(s, h) = T[Len(h)]
    BY <2>3, AfterIsTrace
  <2> QED BY <1>1, <2>2, <2>4 DEF IsTrace
<1>2. ASSUME Len(h) = 1 PROVE After(s, h) = Loaded(s, h[1])
  <2>1. PICK n \in Nat : n = 1
    OBVIOUS
  <2>2. PICK T : IsTrace(T, s, h, n)
    BY TraceExists
  <2>3. IsTrace(T, s, h, Len(h)) /\ Len(h) \in Nat
    BY <1>2, <2>1, <2>2
  <2>4. After(s, h) = T[Len(h)]
    BY <2>3, AfterIsTrace
  <2>5. T[1] = Loaded(T[1 - 1], h[1]) /\ T[0] = s
    <3>1. 1 \in 1..n
      BY <2>1
    <3> QED BY <2>2, <3>1 DEF IsTrace
  <2> QED BY <1>2, <2>4, <2>5
<1> QED BY <1>1, <1>2

(* A list that is continued.                                                *)
LEMMA AfterJoined ==
  ASSUME NEW s, NEW g, IsList(g), NEW h, IsList(h)
  PROVE  After(s, g \o h) = After(After(s, g), h)
<1>0. PICK f, m, l, n : f = g \o h /\ m = Len(g) /\ l = Len(h) /\ n = Len(f)
  OBVIOUS
<1>1. m \in Nat /\ l \in Nat
  BY <1>0, ListShape
<1>2. /\ n = m + l
      /\ \A i \in 1..m : f[i] = g[i]
      /\ \A i \in 1..l : f[m + i] = h[i]
  BY <1>0, Joined
<1>3. n \in Nat
  BY <1>1, <1>2
<1>4. PICK U : IsTrace(U, s, f, n)
  BY <1>3, TraceExists
<1>5. U[0] = s /\ \A i \in 1..n : U[i] = Loaded(U[i - 1], f[i])
  BY <1>4 DEF IsTrace
<1> DEFINE T == [i \in 0..m |-> U[i]]
           R == [i \in 0..l |-> U[m + i]]
<1>6. IsTrace(T, s, g, m)
  <2>1. T = [i \in 0..m |-> T[i]] /\ T[0] = s
    BY <1>1, <1>5
  <2>2. ASSUME NEW i \in 1..m PROVE T[i] = Loaded(T[i - 1], g[i])
    <3>1. i \in 0..m /\ i - 1 \in 0..m /\ i \in 1..n
      BY <1>1, <1>2
    <3>2. T[i] = U[i] /\ T[i - 1] = U[i - 1]
      BY <3>1
    <3> QED BY <1>2, <1>5, <3>1, <3>2
  <2> HIDE DEF T
  <2> QED BY <2>1, <2>2 DEF IsTrace
<1>7. IsTrace(R, T[m], h, l)
  <2>1. R = [i \in 0..l |-> R[i]] /\ R[0] = T[m]
    BY <1>1
  <2>2. ASSUME NEW i \in 1..l PROVE R[i] = Loaded(R[i - 1], h[i])
    <3>1. i \in 0..l /\ i - 1 \in 0..l /\ m + i \in 1..n /\ m + (i - 1) = (m + i) - 1
      BY <1>1, <1>2
    <3>2. R[i] = U[m + i] /\ R[i - 1] = U[m + (i - 1)]
      BY <3>1
    <3>3. U[m + i] = Loaded(U[(m + i) - 1], f[m + i])
      BY <1>5, <3>1
    <3>4. f[m + i] = h[i]
      BY <1>2
    <3> QED BY <3>1, <3>2, <3>3, <3>4
  <2> HIDE DEF R, T
  <2> QED BY <2>1, <2>2 DEF IsTrace
<1>8. R[l] = U[n] /\ T[m] = U[m]
  BY <1>1, <1>2
<1> HIDE DEF T, R
<1>9. After(s, g) = T[m] /\ After(T[m], h) = R[l] /\ After(s, f) = U[n]
  BY <1>0, <1>1, <1>3, <1>4, <1>6, <1>7, AfterIsTrace
<1> QED BY <1>0, <1>8, <1>9

(* Tables stay tables.                                                      *)
LEMMA AfterIsTable ==
  ASSUME NEW s, IsTable(s), NEW h, IsList(h), ArePages(h, Len(h))
  PROVE  IsTable(After(s, h))
<1>1. PICK n \in Nat : n = Len(h)
  BY ListShape
<1>2. PICK T : IsTrace(T, s, h, n)
  BY TraceExists
<1>3. \A i \in 0..n : TraceFact(T, s, h, i)
  BY <1>1, <1>2, TraceFacts
<1>4. After(s, h) = T[n]
  BY <1>1, <1>2, AfterIsTrace
<1>5. n \in 0..n
  OBVIOUS
<1> QED BY <1>3, <1>4, <1>5 DEF TraceFact

(* The tables z are s with one row changed.                                 *)
Changed(z, s, x, v) == \A k \in Keys : z[k] = IF k = x THEN v ELSE s[k]

(* A player that is added changes what a page leaves of no other row.       *)
LEMMA LoadedElsewhere ==
  ASSUME NEW s, NEW z, NEW x \in Keys, x[1] = "players", NEW v,
         Changed(z, s, x, v), NEW e, KeysOf(e) \subseteq Keys
  PROVE  /\ \A k \in Keys : k # x => Loaded(z, e)[k] = Loaded(s, e)[k]
         /\ x \notin KeysOf(e) => Loaded(z, e)[x] = v
<1>1. \A k \in Keys : z[k] = IF k = x THEN v ELSE s[k]
  BY DEF Changed
<1>2. ASSUME NEW k \in KeysOf(e), k # x
      PROVE  NameGiven(z, e, k) = NameGiven(s, e, k) /\ z[k] = s[k]
  <2>1. k \in Keys
    BY <1>2
  <2>2. k[1] = "team_aliases" => TeamKey(k[2]) \in Keys
    BY KeyShape
  <2>3. TeamKey(k[2]) # x
    BY DEF TeamKey, Key
  <2>4. k[1] = "team_aliases" => z[TeamKey(k[2])] = s[TeamKey(k[2])]
    BY <1>1, <2>2, <2>3
  <2>5. z[k] = s[k]
    BY <1>1, <1>2, <2>1
  <2> QED BY <2>4, <2>5 DEF NameGiven
<1>3. ASSUME NEW k \in Keys, k # x
      PROVE  Loaded(z, e)[k] = Loaded(s, e)[k]
  <2>1. CASE k \in KeysOf(e)
    BY <1>2, <1>3, <2>1 DEF Loaded
  <2>2. CASE k \notin KeysOf(e)
    BY <1>1, <1>3, <2>2 DEF Loaded
  <2> QED BY <2>1, <2>2
<1>4. x \notin KeysOf(e) => Loaded(z, e)[x] = v
  BY <1>1 DEF Loaded
<1> QED BY <1>3, <1>4

(* The tables z are s with row x put in.                                    *)
Added(z, s, x, v) == DOMAIN s = Keys /\ z = [s EXCEPT ![x] = v]

(* A page that does not name the player leaves it as it is.                 *)
LEMMA LoadedBeside ==
  ASSUME NEW x \in Keys, x[1] = "players", NEW v, NEW e, KeysOf(e) \subseteq Keys, x \notin KeysOf(e),
         NEW t, NEW y, Added(y, t, x, v)
  PROVE  Added(Loaded(y, e), Loaded(t, e), x, v)
<1>1. Changed(y, t, x, v)
  BY DEF Changed, Added
<1>2. /\ \A k \in Keys : k # x => Loaded(y, e)[k] = Loaded(t, e)[k]
      /\ Loaded(y, e)[x] = v
  BY <1>1, LoadedElsewhere
<1>3. DOMAIN Loaded(t, e) = Keys /\ Loaded(y, e) = [k \in Keys |-> Loaded(y, e)[k]]
  BY DEF Loaded
<1> QED BY <1>2, <1>3 DEF Added

(* Nor do the pages of a list.                                              *)
LEMMA AfterElsewhere ==
  ASSUME NEW s, NEW x \in Keys, x[1] = "players", NEW v,
         NEW h, IsList(h), ArePages(h, Len(h)), \A i \in 1..Len(h) : x \notin KeysOf(h[i]),
         NEW z, Added(z, s, x, v)
  PROVE  Added(After(z, h), After(s, h), x, v)
<1>1. PICK n \in Nat : n = Len(h)
  BY ListShape
<1>2. PICK T : IsTrace(T, s, h, n)
  BY TraceExists
<1>3. PICK R : IsTrace(R, z, h, n)
  BY TraceExists
<1>4. After(s, h) = T[n] /\ After(z, h) = R[n]
  BY <1>1, <1>2, <1>3, AfterIsTrace
<1> DEFINE S == {i \in 0..n : ~Added(R[i], T[i], x, v)}
           m == First(S)
<1> SUFFICES ASSUME S # {} PROVE FALSE
  <2>1. n \in 0..n
    OBVIOUS
  <2> QED BY <1>4, <2>1
<1>5. m \in S /\ \A i \in S : m <= i
  <2>1. S \in SUBSET Nat
    OBVIOUS
  <2> HIDE DEF S
  <2> QED BY <2>1, FirstIsFirst
<1> HIDE DEF m
<1>6. m \in 0..n /\ ~Added(R[m], T[m], x, v) /\ m # 0
  BY <1>2, <1>3, <1>5 DEF IsTrace
<1>7. m \in 1..n /\ m - 1 \in 0..n /\ ~(m <= m - 1)
  BY <1>6
<1>8. Added(R[m - 1], T[m - 1], x, v)
  BY <1>5, <1>7
<1>9. T[m] = Loaded(T[m - 1], h[m]) /\ R[m] = Loaded(R[m - 1], h[m])
  BY <1>2, <1>3, <1>7 DEF IsTrace
<1>10. KeysOf(h[m]) \subseteq Keys /\ x \notin KeysOf(h[m])
  BY <1>1, <1>7 DEF ArePages
<1>11. Added(Loaded(R[m - 1], h[m]), Loaded(T[m - 1], h[m]), x, v)
  BY <1>8, <1>10, LoadedBeside
<1> QED BY <1>6, <1>9, <1>11

(* The tables before the calls of group n of a page, and after them: group  *)
(* 0 is the page itself, group n its n-th row.                              *)
Prior(t, e, n) == IF n = 0 THEN t ELSE Loaded(t, Prefix(e, n - 1))
Later(t, e, n) == Loaded(t, Prefix(e, n))

(* What the call c of group n stores, given the name that the page's alias  *)
(* gets.                                                                    *)
Alias(t, e) ==
  IF e.name = NONE /\ t[AliasKey(e.team, e.year)] = Absent /\ Later(t, e, 0)[TeamKey(e.team)] # Bare
  THEN Later(t, e, 0)[TeamKey(e.team)] ELSE e.name

GivenAt(t, e, n, c) == IF n = 0 /\ c = 3 THEN Alias(t, e) ELSE Gets(e, n)[c].given

(* A page without rows: the calls of the page itself.                       *)
LEMMA HeaderLoads ==
  ASSUME NEW t, NEW e, IsLoadable(e), KeysOf(e) \subseteq Keys
  PROVE  /\ \A k \in Keys : (\A c \in 1..4 : PageGets(e)[c].key # k) => Later(t, e, 0)[k] = t[k]
         /\ \A c \in 1..4 : c # 3 =>
              LET get == PageGets(e)[c]
              IN  Later(t, e, 0)[get.key] = Stored(get.key, get.given, t[get.key])
         /\ LET k == AliasKey(e.team, e.year)
            IN  Later(t, e, 0)[k] = Stored(k, Alias(t, e), t[k])
<1> DEFINE p == Prefix(e, 0)
           C == Loaded(t, p)
           sk == SeasonKey(e.year)
           tk == TeamKey(e.team)
           ak == AliasKey(e.team, e.year)
           yk == TeamSeasonKey(e.team, e.year)
<1>1. e.team # NONE /\ e.name \notin {Absent, Bare, Clean} /\ NONE \notin {Absent, Bare, Clean}
  BY CoreLoadAssumption DEF IsLoadable, IsParsed
<1>2. /\ p.team = e.team /\ p.year = e.year /\ p.name = e.name /\ DOMAIN p.rows = {}
  <2>1. 1..0 = {}
    OBVIOUS
  <2> QED BY <2>1 DEF Prefix
<1> HIDE DEF p
<1>3. KeysOf(p) = {sk, tk, ak, yk}
  BY <1>1, <1>2 DEF KeysOf
<1>4. {sk, tk, ak, yk} \subseteq Keys
  BY <1>1 DEF KeysOf
<1>5. /\ sk[1] = "seasons" /\ tk[1] = "teams" /\ ak[1] = "team_aliases" /\ yk[1] = "team_seasons"
      /\ ak[2] = e.team
  BY DEF SeasonKey, TeamKey, AliasKey, TeamSeasonKey, Key
<1>6. TeamKey(ak[2]) = tk
  BY <1>5
<1> HIDE DEF sk, tk, ak, yk
<1>7. \A k \in Keys : k \notin {sk, tk, ak, yk} => C[k] = t[k]
  BY <1>3 DEF Loaded
<1>8. \A k \in {sk, tk, ak, yk} :
        C[k] = IF IsNamed(t[k]) THEN t[k]
               ELSE IF NameGiven(t, p, k) = NONE THEN Bare ELSE NameGiven(t, p, k)
  BY <1>3, <1>4, <1>5 DEF Loaded
<1>9. NameGiven(t, p, sk) = NONE /\ NameGiven(t, p, yk) = NONE /\ NameGiven(t, p, tk) = e.name
  BY <1>2, <1>5 DEF NameGiven
<1>10. NameGiven(t, p, ak) =
         IF e.name = NONE
         THEN IF t[ak] = Absent /\ IsNamed(t[tk]) THEN t[tk] ELSE NONE
         ELSE e.name
  BY <1>2, <1>5, <1>6 DEF NameGiven
<1>11. C[sk] = Stored(sk, NONE, t[sk])
  BY <1>5, <1>8, <1>9 DEF Stored, IsNamed
<1>12. C[yk] = Stored(yk, NONE, t[yk])
  BY <1>5, <1>8, <1>9 DEF Stored, IsNamed
<1>13. C[tk] = Stored(tk, e.name, t[tk])
  BY <1>5, <1>8, <1>9 DEF Stored, IsNamed
<1>14. e.name = NONE => C[tk] = IF IsNamed(t[tk]) THEN t[tk] ELSE Bare
  BY <1>8, <1>9
<1>15. Alias(t, e) = IF e.name = NONE /\ t[ak] = Absent /\ C[tk] # Bare THEN C[tk] ELSE e.name
  BY DEF Alias, Later, C, p, ak, tk
<1> HIDE DEF C
<1>16. C[ak] = Stored(ak, Alias(t, e), t[ak])
  <2>1. Bare # Absent
    BY DEF Bare, Absent
  <2>2. CASE e.name = NONE /\ t[ak] = Absent
    BY <1>1, <1>5, <1>8, <1>10, <1>14, <1>15, <2>1, <2>2 DEF Stored, IsNamed
  <2>3. CASE e.name = NONE /\ t[ak] # Absent
    BY <1>1, <1>5, <1>8, <1>10, <1>15, <2>1, <2>3 DEF Stored, IsNamed
  <2>4. CASE e.name # NONE
    BY <1>1, <1>5, <1>8, <1>10, <1>15, <2>1, <2>4 DEF Stored, IsNamed
  <2> QED BY <2>2, <2>3, <2>4
<1>17. \A c \in 1..4 :
         PageGets(e)[c] = IF c = 1 THEN Get(sk, NONE) ELSE IF c = 2 THEN Get(tk, e.name)
                          ELSE IF c = 3 THEN Get(ak, e.name) ELSE Get(yk, NONE)
  BY PageCalls DEF sk, tk, ak, yk
<1>18. \A key, given : Get(key, given).key = key /\ Get(key, given).given = given
  BY DEF Get
<1>19. PageGets(e)[1].key = sk /\ PageGets(e)[2].key = tk /\ PageGets(e)[3].key = ak /\ PageGets(e)[4].key = yk
       /\ PageGets(e)[1].given = NONE /\ PageGets(e)[2].given = e.name /\ PageGets(e)[4].given = NONE
  BY <1>17, <1>18
<1>20. \A c \in 1..4 : c = 1 \/ c = 2 \/ c = 3 \/ c = 4
  OBVIOUS
<1>21. Later(t, e, 0) = C
  BY DEF Later, C, p
<1>22. ASSUME NEW k \in Keys, \A c \in 1..4 : PageGets(e)[c].key # k PROVE C[k] = t[k]
  <2>1. k # sk /\ k # tk /\ k # ak /\ k # yk
    BY <1>19, <1>22
  <2> QED BY <1>7, <2>1
<1>23. ASSUME NEW c \in 1..4, c # 3
       PROVE  C[PageGets(e)[c].key] = Stored(PageGets(e)[c].key, PageGets(e)[c].given, t[PageGets(e)[c].key])
  BY <1>11, <1>12, <1>13, <1>19, <1>20, <1>23
<1> QED BY <1>16, <1>21, <1>22, <1>23 DEF ak

(* The calls of a group are for different rows.                             *)
LEMMA CallsDiffer ==
  ASSUME NEW e, IsParsed(e), NEW n, NEW c, NEW d, IsCall(e, n, c), IsCall(e, n, d),
         Gets(e, n)[c].key = Gets(e, n)[d].key
  PROVE  c = d
<1>1. \A key, given : Get(key, given).key = key
  BY DEF Get
<1>2. \A p, t, y : /\ SeasonKey(y)[1] = "seasons" /\ TeamKey(t)[1] = "teams"
                   /\ AliasKey(t, y)[1] = "team_aliases" /\ TeamSeasonKey(t, y)[1] = "team_seasons"
                   /\ PlayerKey(p)[1] = "players" /\ PlayerSeasonKey(p, y)[1] = "player_seasons"
                   /\ StintKey(p, t, y)[1] = "player_team_seasons"
  BY DEF SeasonKey, TeamKey, AliasKey, TeamSeasonKey, PlayerKey, PlayerSeasonKey, StintKey, Key
<1>3. ASSUME NEW b, IsCall(e, n, b)
      PROVE  \/ n = 0 /\ b = 1 /\ Gets(e, n)[b].key[1] = "seasons"
             \/ n = 0 /\ b = 2 /\ Gets(e, n)[b].key[1] = "teams"
             \/ n = 0 /\ b = 3 /\ Gets(e, n)[b].key[1] = "team_aliases"
             \/ n = 0 /\ b = 4 /\ Gets(e, n)[b].key[1] = "team_seasons"
             \/ n # 0 /\ b = 1 /\ Gets(e, n)[b].key[1] = "players"
             \/ n # 0 /\ b = 2 /\ Gets(e, n)[b].key[1] = "player_seasons"
             \/ n # 0 /\ b = 3 /\ Gets(e, n)[b].key[1] = "player_team_seasons"
  BY <1>1, <1>2, <1>3, CallShape
<1> QED BY <1>3

(* No call of the group is for row k.                                       *)
Uncalled(e, n, k) == \A c : IsCall(e, n, c) => Gets(e, n)[c].key # k

(* A group leaves the rows that it has no call for.                         *)
LEMMA UncalledStays ==
  ASSUME NEW t, NEW e, IsLoadable(e), KeysOf(e) \subseteq Keys, NEW n, n = 0 \/ n \in DOMAIN e.rows,
         NEW k \in Keys, Uncalled(e, n, k)
  PROVE  Later(t, e, n)[k] = Prior(t, e, n)[k]
<1>1. IsParsed(e) /\ IsList(e.rows)
  BY DEF IsLoadable, IsParsed
<1>3. CASE n = 0
  <2>1. Prior(t, e, n) = t /\ Later(t, e, n) = Later(t, e, 0) /\ Gets(e, n) = PageGets(e)
    BY <1>3 DEF Prior, Gets
  <2>2. \A c : IsCall(e, n, c) <=> c \in 1..4
    BY <1>1, <1>3, CallsOfPage
  <2>3. \A j \in Keys : (\A c \in 1..4 : PageGets(e)[c].key # j) => Later(t, e, 0)[j] = t[j]
    BY HeaderLoads
  <2>4. \A c \in 1..4 : PageGets(e)[c].key # k
    BY <2>1, <2>2 DEF Uncalled
  <2> QED BY <2>1, <2>3, <2>4
<1>4. CASE n # 0
  <2>1. Prior(t, e, n) = Loaded(t, Prefix(e, n - 1)) /\ Later(t, e, n) = Loaded(t, Prefix(e, n))
    BY <1>4 DEF Prior, Later
  <2>2. n \in DOMAIN e.rows
    BY <1>4
  <2>3. Gets(e, n) = RowGets(e, e.rows[n])
    BY <1>4 DEF Gets
  <2>4. \A c \in 1..3 : c # 3 \/ ~is_aggregate(e.rows[n]) => IsCall(e, n, c)
    BY <1>1, <1>4, <2>2, CallsOfPage
  <2>5. \A key, given : Get(key, given).key = key
    BY DEF Get
  <2>6. /\ RowGets(e, e.rows[n])[1].key = PlayerKey(e.rows[n].player)
        /\ RowGets(e, e.rows[n])[2].key = PlayerSeasonKey(e.rows[n].player, e.year)
        /\ ~is_aggregate(e.rows[n]) =>
             RowGets(e, e.rows[n])[3].key = StintKey(e.rows[n].player, e.team, e.year)
    BY <2>5, RowCalls
  <2>7. IsCall(e, n, 1) /\ IsCall(e, n, 2) /\ (~is_aggregate(e.rows[n]) => IsCall(e, n, 3))
    BY <2>4
  <2>8. k \notin GroupKeys(e, n)
    BY <2>3, <2>6, <2>7 DEF GroupKeys, Uncalled
  <2> QED BY <2>1, <2>2, <2>8, RowLoads
<1> QED BY <1>3, <1>4

(* What a call of a group stores is what the page leaves in its row.        *)
LEMMA CallLoads ==
  ASSUME NEW t, NEW e, IsLoadable(e), KeysOf(e) \subseteq Keys, NEW n, NEW c, IsCall(e, n, c),
         NEW k, k = Gets(e, n)[c].key
  PROVE  Later(t, e, n)[k] = Stored(k, GivenAt(t, e, n, c), Prior(t, e, n)[k])
<1>1. IsParsed(e)
  BY DEF IsLoadable
<1>2. CASE n = 0
  <2>1. Prior(t, e, n) = t /\ Later(t, e, n) = Later(t, e, 0) /\ Gets(e, n) = PageGets(e)
    BY <1>2 DEF Prior, Gets
  <2>2. c \in 1..4
    BY <1>1, <1>2, CallsOfPage
  <2>3. /\ \A d \in 1..4 : d # 3 =>
              Later(t, e, 0)[PageGets(e)[d].key] =
                 Stored(PageGets(e)[d].key, PageGets(e)[d].given, t[PageGets(e)[d].key])
        /\ Later(t, e, 0)[AliasKey(e.team, e.year)] =
                 Stored(AliasKey(e.team, e.year), Alias(t, e), t[AliasKey(e.team, e.year)])
    BY HeaderLoads
  <2>4. PageGets(e)[3].key = AliasKey(e.team, e.year)
    <3>1. PageGets(e)[3] = Get(AliasKey(e.team, e.year), e.name)
      BY PageCalls
    <3> QED BY <3>1 DEF Get
  <2>5. CASE c = 3
    <3>1. GivenAt(t, e, n, c) = Alias(t, e)
      BY <1>2, <2>5 DEF GivenAt
    <3> QED BY <2>1, <2>3, <2>4, <2>5, <3>1
  <2>6. CASE c # 3
    <3>1. GivenAt(t, e, n, c) = PageGets(e)[c].given
      BY <2>1, <2>6 DEF GivenAt
    <3> QED BY <2>1, <2>2, <2>3, <2>6, <3>1
  <2> QED BY <2>5, <2>6
<1>3. CASE n # 0
  <2>1. Prior(t, e, n) = Loaded(t, Prefix(e, n - 1)) /\ Later(t, e, n) = Loaded(t, Prefix(e, n))
    BY <1>3 DEF Prior, Later
  <2>2. GivenAt(t, e, n, c) = Gets(e, n)[c].given
    BY <1>3 DEF GivenAt
  <2>3. n \in DOMAIN e.rows
    BY <1>1, <1>3, CallsOfPage
  <2>4. k \in Keys
    BY CalledKeys
  <2>5. \A d : IsCall(e, n, d) /\ Gets(e, n)[d].key \in Keys =>
          Loaded(t, Prefix(e, n))[Gets(e, n)[d].key] =
            Stored(Gets(e, n)[d].key, Gets(e, n)[d].given,
                   Loaded(t, Prefix(e, n - 1))[Gets(e, n)[d].key])
    BY <2>3, RowLoads
  <2> QED BY <2>1, <2>2, <2>4, <2>5
<1> QED BY <1>2, <1>3

(* What a run that has done the calls before position `at` sees of row k.   *)
CalledHere(e, at, k) ==
  \E c \in Nat : IsCall(e, at.row, c) /\ c < at.call /\ Gets(e, at.row)[c].key = k

Expected(t, e, at, k) ==
  IF CalledHere(e, at, k) THEN Later(t, e, at.row)[k] ELSE Prior(t, e, at.row)[k]

(* The calls of a group have numbers.                                       *)
LEMMA CallNumbers ==
  ASSUME NEW e, IsParsed(e), NEW n, NEW c, IsCall(e, n, c)
  PROVE  /\ n \in Nat /\ n \in 0..Len(e.rows) /\ Len(e.rows) \in Nat
         /\ c \in Nat /\ c >= 1 /\ Len(Gets(e, n)) \in Nat /\ c <= Len(Gets(e, n))
         /\ \A d : IsCall(e, n, d) <=> d \in 1..Len(Gets(e, n))
<1>1. Len(e.rows) \in Nat
  BY ListShape DEF IsParsed
<1>2. n \in 0..Len(e.rows) /\ c \in 1..Len(Gets(e, n))
  BY DEF IsCall
<1>3. \A d : IsCall(e, n, d) <=> d \in 1..Len(Gets(e, n))
  BY <1>2 DEF IsCall
<1>4. Len(Gets(e, n)) \in Nat
  <2>1. CASE n = 0
    <3>1. Gets(e, n) = PageGets(e)
      BY <2>1 DEF Gets
    <3> QED BY <3>1, PageCalls
  <2>2. CASE n # 0
    <3>1. Gets(e, n) = RowGets(e, e.rows[n])
      BY <2>2 DEF Gets
    <3> QED BY <3>1, RowCalls
  <2> QED BY <2>1, <2>2
<1>5. \A d : IsCall(e, n, d) <=> d \in 1..Len(Gets(e, n))
  BY <1>3
<1> QED BY <1>1, <1>2, <1>4, <1>5

(* A call changes what is expected of its row, and of no other.             *)
LEMMA ExpectedNext ==
  ASSUME NEW t, NEW e, IsLoadable(e), KeysOf(e) \subseteq Keys,
         NEW at \in [row : Nat, call : Nat], IsCall(e, at.row, at.call),
         NEW k0, k0 = Gets(e, at.row)[at.call].key
  PROVE  /\ Expected(t, e, at, k0) = Prior(t, e, at.row)[k0]
         /\ \A k \in Keys : Expected(t, e, NextCall(e, at), k) =
                              IF k = k0 THEN Later(t, e, at.row)[k] ELSE Expected(t, e, at, k)
<1> DEFINE n == at.row
           b == at.call
           G == Len(Gets(e, n))
           next == NextCall(e, at)
<1>1. IsParsed(e)
  BY DEF IsLoadable
<1>2. n \in Nat /\ b \in Nat /\ IsCall(e, n, b) /\ k0 = Gets(e, n)[b].key
  OBVIOUS
<1>3. at = [row |-> n, call |-> b]
  OBVIOUS
<1>4. next = IF b < G THEN [row |-> n, call |-> b + 1] ELSE [row |-> n + 1, call |-> 1]
  BY <1>3 DEF NextCall
<1>5. /\ n \in 0..Len(e.rows) /\ G \in Nat /\ b <= G
      /\ \A c : IsCall(e, n, c) => c \in Nat /\ c >= 1 /\ c <= G
  <2>1. \A d : IsCall(e, n, d) <=> d \in 1..G
    BY <1>1, <1>2, CallNumbers
  <2>2. G \in Nat /\ n \in 0..Len(e.rows) /\ b <= G
    BY <1>1, <1>2, CallNumbers
  <2> HIDE DEF G
  <2> QED BY <2>1, <2>2
<1>6. \A k : CalledHere(e, at, k) <=> \E c \in Nat : IsCall(e, n, c) /\ c < b /\ Gets(e, n)[c].key = k
  BY DEF CalledHere
<1>7. \A k : Expected(t, e, at, k) = IF CalledHere(e, at, k) THEN Later(t, e, n)[k] ELSE Prior(t, e, n)[k]
  BY DEF Expected
<1> HIDE DEF n, b, G, next
<1>8. ~CalledHere(e, at, k0)
  <2> SUFFICES ASSUME NEW c \in Nat, IsCall(e, n, c), c < b, Gets(e, n)[c].key = k0 PROVE FALSE
    BY <1>6
  <2>1. c = b
    BY <1>1, <1>2, CallsDiffer
  <2> QED BY <1>2, <2>1
<1>9. CASE b < G
  <2>1. next.row = n /\ next.call = b + 1
    BY <1>4, <1>9
  <2>2. \A k : CalledHere(e, next, k) <=> CalledHere(e, at, k) \/ k = k0
    <3>1. \A k : CalledHere(e, next, k) <=> \E c \in Nat : IsCall(e, n, c) /\ c < b + 1 /\ Gets(e, n)[c].key = k
      BY <2>1 DEF CalledHere
    <3>2. \A c \in Nat : c < b + 1 <=> c < b \/ c = b
      BY <1>2
    <3> QED BY <1>2, <1>6, <3>1, <3>2
  <2>3. \A k : Expected(t, e, next, k) = IF CalledHere(e, next, k) THEN Later(t, e, n)[k] ELSE Prior(t, e, n)[k]
    BY <2>1 DEF Expected
  <2>4. \A k \in Keys : Expected(t, e, next, k) =
                          IF k = k0 THEN Later(t, e, n)[k] ELSE Expected(t, e, at, k)
    BY <1>7, <2>2, <2>3
  <2> QED BY <1>7, <1>8, <2>4 DEF n, next
<1>10. CASE ~(b < G)
  <2>1. next.row = n + 1 /\ next.call = 1
    BY <1>4, <1>10
  <2>2. \A k : ~CalledHere(e, next, k)
    <3>1. \A c : IsCall(e, n + 1, c) => c \in Nat /\ c >= 1
      BY <1>1, CallNumbers
    <3> QED BY <2>1, <3>1 DEF CalledHere
  <2>3. Prior(t, e, next.row) = Later(t, e, n)
    <3>1. n + 1 # 0 /\ (n + 1) - 1 = n
      BY <1>2
    <3> QED BY <2>1, <3>1 DEF Prior, Later
  <2>4. \A k : Expected(t, e, next, k) = Later(t, e, n)[k]
    BY <2>2, <2>3 DEF Expected
  <2>5. ASSUME NEW k \in Keys, k # k0
        PROVE  Expected(t, e, at, k) = Later(t, e, n)[k]
    <3>1. CASE CalledHere(e, at, k)
      BY <1>7, <3>1
    <3>2. CASE ~CalledHere(e, at, k)
      <4>1. ASSUME NEW c, IsCall(e, n, c) PROVE Gets(e, n)[c].key # k
        <5>1. c \in Nat /\ c <= G /\ b \in Nat /\ G \in Nat
          BY <1>2, <1>5, <4>1
        <5>2. c < b \/ c = b
          BY <1>5, <1>10, <5>1
        <5> QED BY <1>2, <1>6, <2>5, <3>2, <4>1, <5>1, <5>2
      <4>2. Later(t, e, n)[k] = Prior(t, e, n)[k]
        <5>1. Uncalled(e, n, k)
          BY <4>1 DEF Uncalled
        <5>2. n = 0 \/ n \in DOMAIN e.rows
          BY <1>1, <1>5, ListShape DEF IsParsed
        <5> QED BY <2>5, <5>1, <5>2, UncalledStays
      <4> QED BY <1>7, <3>2, <4>2
    <3> QED BY <3>1, <3>2
  <2>6. \A k \in Keys : Expected(t, e, next, k) =
                          IF k = k0 THEN Later(t, e, n)[k] ELSE Expected(t, e, at, k)
    BY <2>4, <2>5
  <2> QED BY <1>7, <1>8, <2>6 DEF n, next
<1> QED BY <1>9, <1>10

-----------------------------------------------------------------------------
(***************************************************************************)
(* What a run sees is the tables after its pages and calls.                *)
(***************************************************************************)

(* What a run sees of the rows when its loaded pages come from table t.     *)
Sees(r, t) ==
  /\ pc[r] = "load" => \A k \in Keys : View(r, k) = t[k]
  /\ pc[r] \in AtRow =>
       /\ \A k \in Keys : Marked(r, k) = t[k] /\ View(r, k) = Expected(t, Current(r), step[r], k)
       /\ step[r].row = 0 /\ step[r].call > 2 =>
            team[r] = Later(t, Current(r), 0)[TeamKey(Current(r).team)]
  /\ pc[r] = "flush" /\ seen[r] # Absent => seen[r] = View(r, CurrentGet(r).key)

(* The tables after the pages that a run has loaded.                        *)
Before(r) == After(core, LoadedPages(r))

RunSerial(r) == Sees(r, Before(r))

(* While runs do not overlap, one at most is in progress; the tables are    *)
(* those of the log, and what the run in progress sees is the tables after  *)
(* its own pages and calls.                                                 *)
SerialInv ==
  ~overlap =>
    /\ \A q, r \in Runs : pc[q] \notin Ended /\ pc[r] \notin Ended => q = r
    /\ core = Replay(log)
    /\ \A r \in Runs : RunSerial(r)

(* What a run sees outlives the steps of others.                            *)
LEMMA SerialFrame ==
  ASSUME NEW r, Same(r), core' = core, RunSerial(r)
  PROVE  RunSerial(r)'
<1>1. /\ pc'[r] = pc[r] /\ parsed'[r] = parsed[r] /\ results'[r] = results[r]
      /\ work'[r] = work[r] /\ mark'[r] = mark[r]
      /\ step'[r] = step[r] /\ seen'[r] = seen[r] /\ team'[r] = team[r]
  BY DEF Same
<1>2. Current(r)' = Current(r)
  BY <1>1, PageStays
<1>3. CurrentGet(r)' = CurrentGet(r)
  BY <1>1, <1>2 DEF CurrentGet
<1>4. \A k : View(r, k)' = View(r, k) /\ Marked(r, k)' = Marked(r, k)
  BY <1>1 DEF View, Marked
<1>5. LoadedPages(r)' = LoadedPages(r)
  BY <1>1 DEF LoadedPages
<1>6. PICK t : t = Before(r)
  OBVIOUS
<1>7. Before(r)' = t
  BY <1>5, <1>6 DEF Before
<1>8. Sees(r, t)
  BY <1>6 DEF RunSerial
<1>9. PICK e, at, v : e = Current(r) /\ at = step[r] /\ v = CurrentGet(r).key
  OBVIOUS
<1>10. Current(r)' = e /\ step'[r] = at /\ CurrentGet(r)'.key = v
  BY <1>1, <1>2, <1>3, <1>9
<1>11. View(r, v)' = View(r, v)
  BY <1>4
<1>12. (pc[r] = "load" => \A k \in Keys : View(r, k) = t[k])'
  BY <1>1, <1>4, <1>8 DEF Sees
<1>13. pc'[r] \in AtRow =>
         /\ \A k \in Keys : Marked(r, k)' = t[k] /\ View(r, k)' = Expected(t, e, at, k)
         /\ at.row = 0 /\ at.call > 2 => team'[r] = Later(t, e, 0)[TeamKey(e.team)]
  BY <1>1, <1>4, <1>8, <1>9 DEF Sees
<1>14. pc'[r] = "flush" /\ seen'[r] # Absent => seen'[r] = View(r, v)'
  BY <1>1, <1>8, <1>9, <1>11 DEF Sees
<1>15. Sees(r, t)'
  BY <1>10, <1>12, <1>13, <1>14 DEF Sees
<1> QED BY <1>7, <1>15 DEF RunSerial

(* Nothing is said of a run that has no transaction.                        *)
LEMMA NotLoading ==
  ASSUME NEW r, pc[r] \notin Loading
  PROVE  RunSerial(r)
BY DEF RunSerial, Sees, AtRow, Loading

(* Nor is it after a step that leaves it without one.                       *)
LEMMA NotLoadingNext ==
  ASSUME NEW r, pc'[r] \notin Loading
  PROVE  RunSerial(r)'
BY DEF RunSerial, Sees, AtRow, Loading

(* A step of a run that leaves the tables alone.                            *)
LEMMA SerialStep ==
  ASSUME SerialInv, NEW r \in Runs, \A q \in Runs \ {r} : Same(q),
         core' = core, log' = log, overlap' = overlap,
         pc[r] \notin Ended \/ pc'[r] \in Ended \/ overlap \/ (\A q \in Runs \ {r} : pc[q] \in Ended),
         ~overlap => RunSerial(r)'
  PROVE  SerialInv'
<1> SUFFICES ASSUME ~overlap
             PROVE  /\ \A q, s \in Runs : pc'[q] \notin Ended /\ pc'[s] \notin Ended => q = s
                    /\ core' = Replay(log)'
                    /\ \A q \in Runs : RunSerial(q)'
  BY DEF SerialInv
<1>1. /\ \A q, s \in Runs : pc[q] \notin Ended /\ pc[s] \notin Ended => q = s
      /\ core = Replay(log)
      /\ \A q \in Runs : RunSerial(q)
  BY DEF SerialInv
<1>2. \A q \in Runs \ {r} : pc'[q] = pc[q]
  BY DEF Same
<1>3. \A q, s \in Runs : pc'[q] \notin Ended /\ pc'[s] \notin Ended => q = s
  BY <1>1, <1>2
<1>4. Replay(log)' = Replay(log)
  BY DEF Replay, Loaded
<1>5. \A q \in Runs : RunSerial(q)'
  BY <1>1, SerialFrame
<1> QED BY <1>1, <1>3, <1>4, <1>5

(* A list of one page.                                                      *)
LEMMA OnePage ==
  ASSUME NEW p
  PROVE  IsList(<<p>>) /\ Len(<<p>>) = 1 /\ <<p>>[1] = p
BY DEF IsList

(* A list with one page more.                                               *)
LEMMA AfterOneMore ==
  ASSUME NEW s, NEW g, IsList(g), NEW n, n = Len(g), NEW p,
         NEW f, f = [i \in 1..(n + 1) |-> IF i \in 1..n THEN g[i] ELSE p]
  PROVE  After(s, f) = Loaded(After(s, g), p)
<1>1. n \in Nat
  BY ListShape
<1>2. PICK h : h = <<p>>
  OBVIOUS
<1>3. IsList(h) /\ Len(h) = 1 /\ h[1] = p
  BY <1>2, OnePage
<1>4. PICK j : j = g \o h
  OBVIOUS
<1>5. /\ IsList(j) /\ Len(j) = n + 1
      /\ \A i \in 1..(n + 1) : j[i] = IF i \in 1..n THEN g[i] ELSE h[i - n]
  <2>1. /\ IsList(g \o h) /\ Len(g \o h) = Len(g) + Len(h)
        /\ \A i \in 1..(Len(g) + Len(h)) :
             (g \o h)[i] = IF i \in 1..Len(g) THEN g[i] ELSE h[i - Len(g)]
    BY <1>3, Joined
  <2>2. /\ IsList(j) /\ Len(j) = Len(g) + Len(h)
        /\ \A i \in 1..(Len(g) + Len(h)) :
             j[i] = IF i \in 1..Len(g) THEN g[i] ELSE h[i - Len(g)]
    BY <1>4, <2>1, Zenon
  <2> QED BY <1>3, <2>2
<1>6. j = [i \in 1..(n + 1) |-> j[i]]
  BY <1>5, ListShape
<1>7. \A i \in 1..(n + 1) : i \in 1..n \/ i - n = 1
  BY <1>1
<1>8. \A i \in 1..(n + 1) : j[i] = f[i]
  BY <1>3, <1>5, <1>7
<1>9. f = j
  BY <1>6, <1>8
<1>10. After(s, g \o h) = After(After(s, g), h)
  BY <1>3, AfterJoined
<1>11. After(After(s, g), h) = Loaded(After(s, g), h[1])
  BY <1>3, AfterFew
<1> QED BY <1>3, <1>4, <1>9, <1>10, <1>11

(* Nothing is loaded for a page that is not.                                *)
LEMMA NoPageLoaded ==
  ASSUME NEW t, IsTable(t)
  PROVE  \A z : z = Loaded(t, NoPage) => z = t
<1> SUFFICES ASSUME NEW z, z = Loaded(t, NoPage) PROVE z = t
  OBVIOUS
<1>1. \A k \in Keys : k \notin KeysOf(NoPage)
  BY NoPageFacts
<1>2. z = [k \in Keys |-> z[k]] /\ \A k \in Keys : z[k] = t[k]
  BY <1>1 DEF Loaded
<1>3. t = [k \in Keys |-> t[k]]
  BY DEF IsTable
<1> QED BY <1>2, <1>3

(* The page of a run that settles joins its loaded pages.                   *)
LEMMA SettledBefore ==
  ASSUME IInv, NEW r \in Runs, NEW status, Settle(r, status), parsed' = parsed, core' = core
  PROVE  /\ IsTable(Before(r))
         /\ Before(r)' = IF status = "loaded" THEN Loaded(Before(r), Current(r)) ELSE Before(r)
<1>1. RunInv(r) /\ Shapes
  BY DEF IInv
<1>2. /\ IsList(LoadedPages(r)) /\ Len(LoadedPages(r)) = Len(results[r])
      /\ ArePages(LoadedPages(r), Len(LoadedPages(r)))
  BY <1>1, LoadedPagesFacts
<1>3. IsTable(core)
  BY <1>1 DEF Shapes
<1>4. IsTable(Before(r))
  BY <1>2, <1>3, AfterIsTable DEF Before
<1>5. results[r] \in Seq(Outcomes)
  BY <1>1 DEF RunInv, Lists
<1>6. results'[r] = Append(results[r], status)
  BY <1>1 DEF Settle, Shapes
<1>7. PICK l, n : l = results[r] /\ n = Len(l)
  OBVIOUS
<1>8. n \in Nat /\ DOMAIN l = 1..n
  BY <1>5, <1>7
<1>9. /\ DOMAIN Append(l, status) = 1..(n + 1) /\ Append(l, status)[n + 1] = status
      /\ \A i \in 1..n : Append(l, status)[i] = l[i]
  BY <1>5, <1>7
<1>10. PICK g, b, p : /\ g = LoadedPages(r) /\ b = core
                      /\ p = IF status = "loaded" THEN Current(r) ELSE NoPage
  OBVIOUS
<1>11. g = [i \in 1..n |-> IF l[i] = "loaded" THEN parsed[r][i] ELSE NoPage]
  BY <1>7, <1>8, <1>10 DEF LoadedPages
<1>12. Current(r) = parsed[r][n + 1]
  BY <1>7 DEF Current
<1>13. LoadedPages(r)' =
         [i \in 1..(n + 1) |-> IF Append(l, status)[i] = "loaded" THEN parsed[r][i] ELSE NoPage]
  BY <1>6, <1>7, <1>9 DEF LoadedPages
<1>14. \A i \in 1..(n + 1) : (IF Append(l, status)[i] = "loaded" THEN parsed[r][i] ELSE NoPage)
                              = IF i \in 1..n THEN g[i] ELSE p
  <2>1. \A i \in 1..(n + 1) : i \in 1..n \/ i = n + 1
    BY <1>8
  <2> QED BY <1>8, <1>9, <1>10, <1>11, <1>12, <2>1
<1>15. LoadedPages(r)' = [i \in 1..(n + 1) |-> IF i \in 1..n THEN g[i] ELSE p]
  BY <1>13, <1>14
<1>16. PICK f : f = [i \in 1..(n + 1) |-> IF i \in 1..n THEN g[i] ELSE p]
  OBVIOUS
<1>17. IsList(g) /\ n = Len(g)
  BY <1>2, <1>7, <1>10
<1>18. After(b, f) = Loaded(After(b, g), p)
  BY <1>16, <1>17, AfterOneMore
<1>19. Before(r) = After(b, g) /\ Before(r)' = After(b, f)
  BY <1>10, <1>15, <1>16 DEF Before
<1>20. PICK t : t = Before(r)
  OBVIOUS
<1>21. Before(r)' = Loaded(t, p) /\ IsTable(t)
  BY <1>4, <1>18, <1>19, <1>20
<1>22. p = NoPage => Before(r)' = t
  BY <1>21, NoPageLoaded
<1> QED BY <1>4, <1>10, <1>20, <1>21, <1>22

(* Steps that touch no table and end at no page.                            *)
LEMMA SerialQuiet ==
  ASSUME IInv, SerialInv, NEW r \in Runs,
         \/ Start(r) \/ InventoryFile(r) \/ OpenPool(r)
         \/ \E i \in DOMAIN parsed[r] : ProcessPage(r, i)
         \/ SaveReport(r) \/ Crash(r)
  PROVE  SerialInv'
<1>1. RunInv(r) /\ Shapes
  BY DEF IInv
<1>2. core' = core /\ log' = log /\ overlap' = overlap
  BY DEF Start, InventoryFile, OpenPool, ProcessPage, SaveReport, Crash, options
<1>3. \A q \in Runs \ {r} : Same(q)
  BY <1>1 DEF Start, InventoryFile, OpenPool, ProcessPage, SaveReport, Crash, InPool, Shapes, Same,
              reading, session
<1>4. pc[r] \notin Ended \/ pc'[r] \in Ended \/ overlap \/ (\A q \in Runs \ {r} : pc[q] \in Ended)
  BY <1>1 DEF Start, InventoryFile, OpenPool, ProcessPage, SaveReport, Crash, InPool, Shapes, Ended
<1>5. pc'[r] \notin Loading
  BY <1>1 DEF Start, InventoryFile, OpenPool, ProcessPage, SaveReport, Crash, InPool, Shapes, Loading
<1> QED BY <1>2, <1>3, <1>4, <1>5, NotLoadingNext, SerialStep

(* A run that begins to load sees the tables.                               *)
LEMMA SerialBegin ==
  ASSUME IInv, SerialInv, NEW r \in Runs, BeginLoad(r)
  PROVE  SerialInv'
<1>1. RunInv(r) /\ Shapes
  BY DEF IInv
<1>2. /\ pc[r] = "process" /\ pc' = [pc EXCEPT ![r] = "load"]
      /\ core' = core /\ log' = log /\ overlap' = overlap
      /\ inventory' = inventory /\ parsed' = parsed /\ results' = results /\ work' = work
      /\ mark' = mark /\ step' = step /\ seen' = seen /\ team' = team /\ report' = report
  BY DEF BeginLoad, reading, session, options
<1>3. \A q \in Runs \ {r} : Same(q)
  BY <1>1, <1>2 DEF Shapes, Same
<1>4. pc'[r] = "load" /\ pc[r] \notin Ended
  BY <1>1, <1>2 DEF Shapes, Ended
<1>5. results[r] = <<>> /\ work[r] = Untouched
  BY <1>1, <1>2 DEF RunInv, Control, Loading
<1>6. Len(LoadedPages(r)) = 0
  <2>1. Len(LoadedPages(r)) = Len(results[r])
    BY <1>1, LoadedPagesFacts
  <2> QED BY <1>5, <2>1
<1>7. PICK t, h : t = core /\ h = LoadedPages(r)
  OBVIOUS
<1>8. After(t, h) = t
  BY <1>6, <1>7, AfterFew
<1>9. LoadedPages(r)' = h
  BY <1>2, <1>7 DEF LoadedPages
<1>10. Before(r)' = t
  BY <1>2, <1>7, <1>8, <1>9 DEF Before
<1>11. \A k \in Keys : View(r, k)' = t[k]
  BY <1>2, <1>5, <1>7 DEF View, Untouched
<1>12. Sees(r, t)'
  BY <1>4, <1>11 DEF Sees, AtRow
<1>13. RunSerial(r)'
  BY <1>10, <1>12 DEF RunSerial
<1> QED BY <1>2, <1>3, <1>4, <1>13, SerialStep

(* A page that is settled.                                                  *)
LEMMA SerialSettle ==
  ASSUME IInv, SerialInv, NEW r \in Runs, NEW status, Settle(r, status), parsed' = parsed,
         core' = core, log' = log, overlap' = overlap, pc[r] \in Loading,
         \A q \in Runs \ {r} : Same(q),
         \A t : IsTable(t) /\ Sees(r, t) =>
                  \A k \in Keys : View(r, k)' = IF status = "loaded" THEN Loaded(t, Current(r))[k] ELSE t[k]
  PROVE  SerialInv'
<1>1. Shapes
  BY DEF IInv
<1>2. pc'[r] = "load" /\ pc[r] \notin Ended
  BY <1>1 DEF Settle, Shapes, Loading, Ended
<1>3. ASSUME ~overlap PROVE RunSerial(r)'
  <2>1. PICK t : t = Before(r)
    OBVIOUS
  <2>2. /\ IsTable(t)
        /\ Before(r)' = IF status = "loaded" THEN Loaded(t, Current(r)) ELSE t
    BY <2>1, SettledBefore
  <2>3. Sees(r, t)
    BY <1>3, <2>1 DEF SerialInv, RunSerial
  <2>4. PICK z : z = IF status = "loaded" THEN Loaded(t, Current(r)) ELSE t
    OBVIOUS
  <2>5. \A k \in Keys : View(r, k)' = z[k]
    BY <2>2, <2>3, <2>4
  <2>6. Sees(r, z)'
    BY <1>2, <2>5 DEF Sees, AtRow
  <2> QED BY <2>2, <2>4, <2>6 DEF RunSerial
<1> QED BY <1>2, <1>3, SerialStep

(* An entry that is skipped or refused, and a page that fails.              *)
LEMMA SerialRefused ==
  ASSUME IInv, SerialInv, NEW r \in Runs, SkipPage(r) \/ RefusePage(r) \/ PageFails(r)
  PROVE  SerialInv'
<1>1. Shapes
  BY DEF IInv
<1>2. /\ core' = core /\ log' = log /\ overlap' = overlap /\ parsed' = parsed
      /\ inventory' = inventory /\ report' = report
  BY DEF SkipPage, RefusePage, PageFails, options, reading
<1>3. \A q \in Runs \ {r} : Same(q)
  BY <1>1 DEF SkipPage, RefusePage, PageFails, Settle, Shapes, Same, reading
<1>4. CASE SkipPage(r) \/ RefusePage(r)
  <2>1. PICK status : Settle(r, status) /\ status # "loaded"
    BY <1>4 DEF SkipPage, RefusePage
  <2>2. pc[r] = "load" /\ work' = work
    BY <1>4 DEF SkipPage, RefusePage, AtPage
  <2>3. \A k : View(r, k)' = View(r, k)
    BY <1>2, <2>2 DEF View
  <2>4. \A t : IsTable(t) /\ Sees(r, t) => \A k \in Keys : View(r, k)' = t[k]
    BY <2>2, <2>3 DEF Sees
  <2> QED BY <1>2, <1>3, <2>1, <2>2, <2>4, SerialSettle DEF Loading
<1>5. CASE PageFails(r)
  <2>1. Settle(r, "failed") /\ pc[r] = "flush" /\ work' = [work EXCEPT ![r] = mark[r]]
    BY <1>5 DEF PageFails, AtFlush
  <2>2. work'[r] = mark[r]
    BY <1>1, <2>1 DEF Shapes
  <2>3. \A k : View(r, k)' = Marked(r, k)
    BY <1>2, <2>2 DEF View, Marked
  <2>4. \A t : IsTable(t) /\ Sees(r, t) => \A k \in Keys : View(r, k)' = t[k]
    BY <2>1, <2>3 DEF Sees, AtRow
  <2>5. PICK status : status = "failed"
    OBVIOUS
  <2>6. Settle(r, status) /\ status # "loaded" /\ pc[r] \in Loading
    BY <2>1, <2>5 DEF Loading
  <2> QED BY <1>2, <1>3, <2>4, <2>6, SerialSettle
<1> QED BY <1>4, <1>5

(* A page whose calls are all made is loaded.                               *)
LEMMA SerialClose ==
  ASSUME IInv, SerialInv, NEW r \in Runs, ClosePage(r)
  PROVE  SerialInv'
<1>1. RunInv(r) /\ Shapes
  BY DEF IInv
<1>2. /\ pc[r] = "select" /\ step[r].row > Len(Current(r).rows)
      /\ core' = core /\ log' = log /\ overlap' = overlap /\ parsed' = parsed
      /\ inventory' = inventory /\ report' = report /\ work' = work
  BY DEF ClosePage, options, reading
<1>3. \A q \in Runs \ {r} : Same(q)
  BY <1>1, <1>2 DEF ClosePage, Settle, Shapes, Same
<1>4. PICK e, at : e = Current(r) /\ at = step[r]
  OBVIOUS
<1>5. /\ IsLoadable(e) /\ KeysOf(e) \subseteq Keys /\ IsParsed(e)
      /\ \/ IsCall(e, at.row, at.call)
         \/ at.row = Len(e.rows) + 1 /\ at.call = 1
  BY <1>1, <1>2, <1>4 DEF RunInv, Position, AtRow, IsLoadable
<1>6. Len(e.rows) \in Nat
  BY <1>5, ListShape DEF IsParsed
<1>7. at.row = Len(e.rows) + 1 /\ at.call = 1
  BY <1>2, <1>4, <1>5, <1>6 DEF IsCall
<1>8. PICK m : m = Len(e.rows)
  OBVIOUS
<1>9. at.row # 0 /\ at.row - 1 = m
  BY <1>6, <1>7, <1>8
<1>10. \A k : ~CalledHere(e, at, k)
  BY <1>6, <1>7 DEF CalledHere, IsCall
<1>11. \A t, k : Expected(t, e, at, k) = Loaded(t, Prefix(e, m))[k]
  BY <1>9, <1>10 DEF Expected, Prior
<1>12. \A t : Loaded(t, Prefix(e, m)) = Loaded(t, e)
  BY <1>5, <1>8, WholePrefix
<1>13. \A k : View(r, k)' = View(r, k)
  BY <1>2 DEF View
<1>14. \A t : IsTable(t) /\ Sees(r, t) => \A k \in Keys : View(r, k)' = Loaded(t, e)[k]
  BY <1>2, <1>4, <1>11, <1>12, <1>13 DEF Sees, AtRow
<1>15. PICK status : status = "loaded"
  OBVIOUS
<1>16. Settle(r, status)
  BY <1>15 DEF ClosePage
<1>17. pc[r] \in Loading
  BY <1>2 DEF Loading
<1> QED BY <1>2, <1>3, <1>4, <1>14, <1>15, <1>16, <1>17, SerialSettle

(* A step inside a page.                                                    *)
LEMMA SerialRow ==
  ASSUME IInv, SerialInv, NEW r \in Runs, results' = results, parsed' = parsed,
         core' = core, log' = log, overlap' = overlap, pc[r] \in Loading,
         \A q \in Runs \ {r} : Same(q),
         \A t : Sees(r, t) => Sees(r, t)'
  PROVE  SerialInv'
<1>1. pc[r] \notin Ended
  BY DEF Loading, Ended
<1>2. ASSUME ~overlap PROVE RunSerial(r)'
  <2>1. PICK t : t = Before(r)
    OBVIOUS
  <2>2. Before(r)' = t
    BY <2>1 DEF Before, LoadedPages
  <2>3. Sees(r, t)
    BY <1>2, <2>1 DEF SerialInv, RunSerial
  <2>4. Sees(r, t)'
    BY <2>3
  <2> QED BY <2>2, <2>4 DEF RunSerial
<1> QED BY <1>1, <1>2, SerialStep

(* The savepoint of a page is what its run has seen so far.                 *)
LEMMA SerialOpen ==
  ASSUME IInv, SerialInv, NEW r \in Runs, OpenPage(r)
  PROVE  SerialInv'
<1>1. RunInv(r) /\ Shapes
  BY DEF IInv
<1>2. /\ pc[r] = "load" /\ Len(results[r]) < Len(parsed[r])
      /\ core' = core /\ log' = log /\ overlap' = overlap /\ parsed' = parsed
      /\ inventory' = inventory /\ report' = report /\ work' = work /\ results' = results
      /\ mark' = [mark EXCEPT ![r] = work[r]] /\ pc' = [pc EXCEPT ![r] = "select"]
      /\ step' = step /\ seen' = seen /\ team' = team
  BY DEF OpenPage, AtPage, options, reading
<1>3. \A q \in Runs \ {r} : Same(q)
  BY <1>1, <1>2 DEF Shapes, Same
<1>4. PICK e, at : e = Current(r) /\ at = step[r]
  OBVIOUS
<1>5. pc'[r] = "select" /\ mark'[r] = work[r]
  BY <1>1, <1>2 DEF Shapes
<1>6. IsParsed(e)
  BY <1>1, <1>2, <1>4, CurrentEntry DEF Loading
<1>7. at.row = 0 /\ at.call = 1
  BY <1>1, <1>2, <1>4 DEF RunInv, Position, AtRow, FirstCall
<1>8. \A k : ~CalledHere(e, at, k)
  BY <1>6, <1>7, CallNumbers DEF CalledHere
<1>9. \A t, k : Expected(t, e, at, k) = t[k]
  BY <1>7, <1>8 DEF Expected, Prior
<1>10. Current(r)' = e /\ step'[r] = at
  BY <1>2, <1>4 DEF Current
<1>11. \A k : View(r, k)' = View(r, k) /\ Marked(r, k)' = View(r, k)
  BY <1>2, <1>5 DEF View, Marked
<1>12. ASSUME NEW t, Sees(r, t) PROVE Sees(r, t)'
  <2>1. \A k \in Keys : Marked(r, k)' = t[k] /\ View(r, k)' = Expected(t, e, at, k)
    BY <1>2, <1>9, <1>11, <1>12 DEF Sees
  <2> QED BY <1>5, <1>7, <1>10, <2>1 DEF Sees
<1> QED BY <1>2, <1>3, <1>12, SerialRow DEF Loading

(* A SELECT returns what the run sees.                                      *)
LEMMA SerialSelect ==
  ASSUME IInv, SerialInv, NEW r \in Runs, SelectRow(r)
  PROVE  SerialInv'
<1>1. RunInv(r) /\ Shapes
  BY DEF IInv
<1>2. /\ pc[r] = "select"
      /\ core' = core /\ log' = log /\ overlap' = overlap /\ parsed' = parsed
      /\ inventory' = inventory /\ report' = report /\ work' = work /\ results' = results
      /\ seen' = [seen EXCEPT ![r] = View(r, CurrentGet(r).key)] /\ pc' = [pc EXCEPT ![r] = "flush"]
      /\ step' = step /\ mark' = mark /\ team' = team
  BY DEF SelectRow, options, reading
<1>3. \A q \in Runs \ {r} : Same(q)
  BY <1>1, <1>2 DEF Shapes, Same
<1>4. PICK e, at, v : e = Current(r) /\ at = step[r] /\ v = CurrentGet(r).key
  OBVIOUS
<1>5. pc'[r] = "flush" /\ seen'[r] = View(r, v)
  BY <1>1, <1>2, <1>4 DEF Shapes
<1>6. Current(r)' = e /\ step'[r] = at
  BY <1>2, <1>4 DEF Current
<1>7. CurrentGet(r)'.key = v
  BY <1>2, <1>4, <1>6 DEF CurrentGet
<1>8. \A k : View(r, k)' = View(r, k) /\ Marked(r, k)' = Marked(r, k)
  BY <1>2 DEF View, Marked
<1>9. View(r, v)' = View(r, v)
  BY <1>8
<1>10. ASSUME NEW t, Sees(r, t) PROVE Sees(r, t)'
  <2>1. /\ \A k \in Keys : Marked(r, k)' = t[k] /\ View(r, k)' = Expected(t, e, at, k)
        /\ at.row = 0 /\ at.call > 2 => team'[r] = Later(t, e, 0)[TeamKey(e.team)]
    BY <1>2, <1>4, <1>8, <1>10 DEF Sees, AtRow
  <2> QED BY <1>5, <1>6, <1>7, <1>9, <2>1 DEF Sees
<1> QED BY <1>2, <1>3, <1>10, SerialRow DEF Loading

(* What the flush of a call gives is what the page gives there.             *)
LEMMA GivenThere ==
  ASSUME NEW r, RunInv(r), pc[r] = "flush", NEW t, Sees(r, t), NEW e, e = Current(r),
         NEW at, at = step[r], seen[r] = Prior(t, e, at.row)[CurrentGet(r).key]
  PROVE  Given(r) = GivenAt(t, e, at.row, at.call)
<1>1. /\ IsLoadable(e) /\ IsParsed(e) /\ IsCall(e, at.row, at.call)
  BY PresentCall DEF AtRow
<1>2. PICK n, c : n = at.row /\ c = at.call
  OBVIOUS
<1>3. PICK g : g = Gets(e, n)[c]
  OBVIOUS
<1>4. CurrentGet(r) = g /\ IsCall(e, n, c)
  BY <1>1, <1>2, <1>3 DEF CurrentGet
<1>5. g.key[1] = "team_aliases" <=> n = 0 /\ c = 3
  BY <1>1, <1>3, <1>4, TeamCalls
<1>6. Given(r) = IF /\ g.key[1] = "team_aliases" /\ g.given = NONE
                    /\ seen[r] = Absent /\ team[r] # Bare
                 THEN team[r] ELSE g.given
  BY <1>4 DEF Given
<1>7. CASE n = 0 /\ c = 3
  <2>1. g = Get(AliasKey(e.team, e.year), e.name)
    BY <1>1, <1>3, <1>4, <1>7, CallShape
  <2>2. g.key = AliasKey(e.team, e.year) /\ g.given = e.name
    BY <2>1 DEF Get
  <2>3. seen[r] = t[AliasKey(e.team, e.year)]
    BY <1>2, <1>4, <1>7, <2>2 DEF Prior
  <2>4. team[r] = Later(t, e, 0)[TeamKey(e.team)]
    <3>1. step[r].row = 0 /\ step[r].call > 2
      BY <1>2, <1>7
    <3> QED BY <3>1 DEF Sees, AtRow
  <2>5. Given(r) = Alias(t, e)
    BY <1>5, <1>6, <1>7, <2>2, <2>3, <2>4 DEF Alias
  <2> QED BY <1>2, <1>7, <2>5 DEF GivenAt
<1>8. CASE ~(n = 0 /\ c = 3)
  <2>1. Given(r) = g.given
    BY <1>5, <1>6, <1>8
  <2> QED BY <1>2, <1>3, <1>8, <2>1 DEF GivenAt
<1> QED BY <1>7, <1>8

(* A flush leaves what the page leaves at its call.                         *)
LEMMA SerialFlush ==
  ASSUME IInv, SerialInv, NEW r \in Runs, FlushRow(r)
  PROVE  SerialInv'
<1>1. RunInv(r) /\ Shapes
  BY DEF IInv
<1>2. PICK e, at, v, w : e = Current(r) /\ at = step[r] /\ v = CurrentGet(r).key /\ w = NewValue(r)
  OBVIOUS
<1>3. /\ pc[r] = "flush" /\ ~Violates(r)
      /\ core' = core /\ log' = log /\ overlap' = overlap /\ parsed' = parsed
      /\ inventory' = inventory /\ report' = report /\ results' = results /\ mark' = mark
      /\ work' = IF w = seen[r] THEN work ELSE [work EXCEPT ![r][v] = w]
      /\ team' = IF v[1] = "teams" THEN [team EXCEPT ![r] = w] ELSE team
      /\ step' = [step EXCEPT ![r] = NextCall(Current(r), @)]
      /\ seen' = [seen EXCEPT ![r] = Absent] /\ pc' = [pc EXCEPT ![r] = "select"]
  BY <1>2 DEF FlushRow, AtFlush, options, reading
<1>4. \A q \in Runs \ {r} : Same(q)
  BY <1>1, <1>3 DEF Shapes, Same
<1>5. /\ IsLoadable(e) /\ IsParsed(e) /\ IsCall(e, at.row, at.call) /\ v \in Keys
      /\ KeysOf(e) \subseteq Keys /\ at \in [row : Nat, call : Nat]
      /\ v = Gets(e, at.row)[at.call].key
  BY <1>1, <1>2, <1>3, PresentCall DEF AtRow, RunInv, Position, CurrentGet
<1>6. PICK z : z = NextCall(e, at)
  OBVIOUS
<1>7. pc'[r] = "select" /\ step'[r] = z
  BY <1>1, <1>2, <1>3, <1>6 DEF Shapes
<1>8. Current(r)' = e
  BY <1>2, <1>3 DEF Current
<1>9. w # Clean
  BY <1>1, <1>2, <1>3, NewValueFacts
<1>10. DOMAIN work[r] = Keys
  BY <1>1 DEF RunInv, Contained
<1>11. ASSUME NEW k \in Keys, View(r, v) = seen[r]
       PROVE  View(r, k)' = IF k = v THEN w ELSE View(r, k)
  <2>1. CASE w = seen[r]
    <3>1. View(r, k)' = View(r, k)
      BY <1>3, <2>1 DEF View
    <3> QED BY <1>11, <2>1, <3>1
  <2>2. CASE w # seen[r]
    <3>1. work'[r] = [work[r] EXCEPT ![v] = w]
      BY <1>1, <1>3, <2>2 DEF Shapes
    <3>2. work'[r][k] = IF k = v THEN w ELSE work[r][k]
      BY <1>10, <3>1
    <3> QED BY <1>3, <1>9, <3>2 DEF View
  <2> QED BY <2>1, <2>2
<1>12. \A k : Marked(r, k)' = Marked(r, k)
  BY <1>3 DEF Marked
<1>13. ASSUME NEW t, Sees(r, t) PROVE Sees(r, t)'
  <2>1. /\ \A k \in Keys : Marked(r, k) = t[k] /\ View(r, k) = Expected(t, e, at, k)
        /\ at.row = 0 /\ at.call > 2 => team[r] = Later(t, e, 0)[TeamKey(e.team)]
        /\ seen[r] # Absent => seen[r] = View(r, v)
    BY <1>2, <1>3, <1>13 DEF Sees, AtRow
  <2>2. seen[r] = View(r, v)
    BY <1>2, <1>3, <2>1 DEF Violates
  <2>3. /\ Expected(t, e, at, v) = Prior(t, e, at.row)[v]
        /\ \A k \in Keys : Expected(t, e, z, k) =
                             IF k = v THEN Later(t, e, at.row)[k] ELSE Expected(t, e, at, k)
    BY <1>5, <1>6, ExpectedNext
  <2>4. seen[r] = Prior(t, e, at.row)[v]
    BY <1>5, <2>1, <2>2, <2>3
  <2>5. Given(r) = GivenAt(t, e, at.row, at.call)
    BY <1>1, <1>2, <1>3, <1>13, <2>4, GivenThere
  <2>6. w = Stored(v, GivenAt(t, e, at.row, at.call), Prior(t, e, at.row)[v])
    BY <1>2, <2>4, <2>5 DEF NewValue
  <2>7. w = Later(t, e, at.row)[v]
    BY <1>5, <2>6, CallLoads
  <2>8. \A k \in Keys : View(r, k)' = Expected(t, e, z, k)
    BY <1>11, <2>1, <2>2, <2>3, <2>7
  <2>9. z.row = 0 /\ z.call > 2 => team'[r] = Later(t, e, 0)[TeamKey(e.team)]
    <3> SUFFICES ASSUME z.row = 0, z.call > 2 PROVE team'[r] = Later(t, e, 0)[TeamKey(e.team)]
      OBVIOUS
    <3>1. at.row = 0 /\ at.call >= 2
      <4>1. z = IF at.call < Len(Gets(e, at.row)) THEN [at EXCEPT !.call = @ + 1]
                ELSE [row |-> at.row + 1, call |-> 1]
        BY <1>6 DEF NextCall
      <4>2. at.row \in Nat /\ at.call \in Nat
        BY <1>5
      <4>3. z.row = at.row /\ z.call = at.call + 1
        <5>1. CASE at.call < Len(Gets(e, at.row))
          BY <1>5, <4>1, <5>1
        <5>2. CASE ~(at.call < Len(Gets(e, at.row)))
          <6>1. z.row = at.row + 1
            BY <4>1, <5>2
          <6> QED BY <4>2, <6>1
        <5> QED BY <5>1, <5>2
      <4> QED BY <4>2, <4>3
    <3>2. v[1] = "teams" <=> at.row = 0 /\ at.call = 2
      BY <1>5, TeamCalls
    <3>3. CASE at.call = 2
      <4>1. Gets(e, at.row)[at.call] = Get(TeamKey(e.team), e.name)
        BY <1>5, <3>1, <3>3, CallShape
      <4>2. v = TeamKey(e.team)
        BY <1>5, <4>1 DEF Get
      <4>3. team'[r] = w
        BY <1>1, <1>3, <3>1, <3>2, <3>3 DEF Shapes
      <4> QED BY <2>7, <3>1, <4>2, <4>3
    <3>4. CASE at.call # 2
      <4>1. team' = team /\ at.call > 2
        BY <1>3, <1>5, <3>1, <3>2, <3>4
      <4> QED BY <2>1, <3>1, <4>1
    <3> QED BY <3>3, <3>4
  <2> QED BY <1>7, <1>8, <1>12, <2>1, <2>8, <2>9 DEF Sees
<1>14. pc[r] \in Loading
  BY <1>3 DEF Loading
<1> QED BY <1>3, <1>4, <1>13, <1>14, SerialRow

(* A commit leaves the tables after the pages of the run.                   *)
LEMMA SerialCommit ==
  ASSUME IInv, SerialInv, NEW r \in Runs, Commit(r)
  PROVE  SerialInv'
<1>1. RunInv(r) /\ Shapes /\ Logged
  BY DEF IInv
<1>2. /\ pc[r] = "load" /\ core' = [k \in Keys |-> View(r, k)] /\ log' = log \o LoadedPages(r)
      /\ pc' = [pc EXCEPT ![r] = "committed"] /\ overlap' = overlap
  BY DEF Commit, options
<1> SUFFICES ASSUME ~overlap
             PROVE  /\ \A q, s \in Runs : pc'[q] \notin Ended /\ pc'[s] \notin Ended => q = s
                    /\ core' = Replay(log)'
                    /\ \A q \in Runs : RunSerial(q)'
  BY <1>2 DEF SerialInv
<1>3. /\ \A q, s \in Runs : pc[q] \notin Ended /\ pc[s] \notin Ended => q = s
      /\ core = Replay(log)
      /\ RunSerial(r)
  BY DEF SerialInv
<1>4. \A q \in Runs : pc'[q] \in Ended
  BY <1>1, <1>2, <1>3 DEF Shapes, Ended
<1>5. \A q \in Runs : pc'[q] \notin Loading
  BY <1>4 DEF Ended, Loading
<1>6. \A q \in Runs : RunSerial(q)'
  BY <1>5, NotLoadingNext
<1>7. PICK g, h, t, b : g = log /\ h = LoadedPages(r) /\ t = Before(r) /\ b = core
  OBVIOUS
<1>8. /\ IsList(g) /\ IsList(h) /\ ArePages(h, Len(h))
      /\ Len(g) \in Nat
  BY <1>1, <1>7, LoadedPagesFacts, ListShape DEF Logged
<1>9. t = After(b, h) /\ IsTable(b)
  BY <1>1, <1>7 DEF Before, Shapes
<1>10. IsTable(t)
  BY <1>8, <1>9, AfterIsTable
<1>11. b = After(Empty, g)
  <2>1. b = Replay(g)
    BY <1>3, <1>7
  <2>2. Replay(g) = After(Empty, g)
    BY <1>8, ReplayIsAfter
  <2> QED BY <2>1, <2>2
<1>12. After(Empty, g \o h) = After(After(Empty, g), h)
  BY <1>8, AfterJoined
<1>13. Len(g \o h) \in Nat
  <2>1. IsList(g \o h)
    BY <1>8, Joined
  <2> QED BY <2>1, ListShape
<1>14. Replay(g \o h) = After(Empty, g \o h)
  BY <1>13, ReplayIsAfter
<1>15. Replay(g \o h) = t
  BY <1>9, <1>11, <1>12, <1>14
<1>16. Replay(log)' = t
  <2>1. PICK f : f = g \o h
    OBVIOUS
  <2>2. log' = f /\ Replay(f) = t
    BY <1>2, <1>7, <1>15, <2>1
  <2>3. Replay(log)' = Replay(f)
    BY <2>2 DEF Replay, Loaded
  <2> QED BY <2>2, <2>3
<1>17. \A k \in Keys : View(r, k) = t[k]
  BY <1>2, <1>3, <1>7 DEF RunSerial, Sees
<1>18. t = [k \in Keys |-> t[k]]
  BY <1>10 DEF IsTable
<1>19. core' = t
  BY <1>2, <1>17, <1>18
<1> QED BY <1>4, <1>6, <1>16, <1>19

-----------------------------------------------------------------------------
(* Box players.                                                             *)

(* A part of a page is a page with rows of the page.                        *)
LEMMA PrefixFacts ==
  ASSUME NEW e, IsLoadable(e), NEW m \in 0..Len(e.rows)
  PROVE  IsParsed(Prefix(e, m)) /\ KeysOf(Prefix(e, m)) \subseteq KeysOf(e)
<1>1. IsParsed(e) /\ IsList(e.rows) /\ e.team # NONE
  BY DEF IsLoadable, IsParsed
<1>2. Len(e.rows) \in Nat /\ DOMAIN e.rows = 1..Len(e.rows)
  BY <1>1, ListShape
<1>3. m \in Nat
  BY <1>2
<1>4. PICK p : p = Prefix(e, m)
  OBVIOUS
<1>5. /\ p.team = e.team /\ p.year = e.year /\ p.name = e.name
      /\ DOMAIN p.rows = 1..m /\ p.rows = [i \in 1..m |-> p.rows[i]]
      /\ \A i \in 1..m : p.rows[i] = e.rows[i]
  BY <1>4 DEF Prefix
<1>6. \A i \in DOMAIN p.rows : i \in DOMAIN e.rows /\ p.rows[i] = e.rows[i]
  BY <1>2, <1>3, <1>5
<1>7. IsList(p.rows)
  BY <1>3, <1>5, ListOf
<1>8. IsParsed(p)
  BY <1>1, <1>5, <1>6, <1>7 DEF IsParsed
<1>9. /\ {p.rows[i].player : i \in DOMAIN p.rows} \subseteq {e.rows[i].player : i \in DOMAIN e.rows}
      /\ {p.rows[i].player : i \in {j \in DOMAIN p.rows : ~is_aggregate(p.rows[j])}}
           \subseteq {e.rows[i].player : i \in {j \in DOMAIN e.rows : ~is_aggregate(e.rows[j])}}
  BY <1>6
<1>10. KeysOf(p) \subseteq KeysOf(e)
  <2> DEFINE P(f) == {f.rows[i].player : i \in DOMAIN f.rows}
             S(f) == {f.rows[i].player : i \in {j \in DOMAIN f.rows : ~is_aggregate(f.rows[j])}}
  <2>1. \A f : KeysOf(f) =
          {PlayerKey(q) : q \in P(f)} \union
          IF f.team = NONE THEN {}
          ELSE {SeasonKey(f.year), TeamKey(f.team), AliasKey(f.team, f.year), TeamSeasonKey(f.team, f.year)}
                 \union {PlayerSeasonKey(q, f.year) : q \in P(f)}
                 \union {StintKey(q, f.team, f.year) : q \in S(f)}
    BY DEF KeysOf
  <2>2. P(p) \subseteq P(e) /\ S(p) \subseteq S(e)
    BY <1>9
  <2> HIDE DEF P, S
  <2> QED BY <1>1, <1>5, <2>1, <2>2
<1> QED BY <1>4, <1>8, <1>10

(* A player that is added to the tables is not one that the calls so far    *)
(* have found or made: everything else is expected as before.               *)
LEMMA ExpectedBeside ==
  ASSUME NEW t, IsTable(t), NEW x \in Keys, x[1] = "players", NEW v, NEW y, Added(y, t, x, v),
         NEW e, IsLoadable(e), KeysOf(e) \subseteq Keys, NEW at,
         at.row \in 0..(Len(e.rows) + 1), ~CalledHere(e, at, x), Expected(t, e, at, x) = Absent
  PROVE  /\ \A k \in Keys : Expected(y, e, at, k) = IF k = x THEN v ELSE Expected(t, e, at, k)
         /\ Later(y, e, 0)[TeamKey(e.team)] = Later(t, e, 0)[TeamKey(e.team)]
<1>1. Len(e.rows) \in Nat
  BY ListShape DEF IsLoadable, IsParsed
<1>2. Changed(y, t, x, v)
  BY DEF Added, Changed
<1>3. PICK n : n = at.row
  OBVIOUS
<1>4. \A m \in 0..Len(e.rows) : IsParsed(Prefix(e, m)) /\ KeysOf(Prefix(e, m)) \subseteq Keys
  BY PrefixFacts
<1>5. \A m \in 0..Len(e.rows) :
        /\ \A k \in Keys : k # x => Loaded(y, Prefix(e, m))[k] = Loaded(t, Prefix(e, m))[k]
        /\ x \notin KeysOf(Prefix(e, m)) => Loaded(y, Prefix(e, m))[x] = v
  <2> SUFFICES ASSUME NEW p, KeysOf(p) \subseteq Keys
               PROVE  /\ \A k \in Keys : k # x => Loaded(y, p)[k] = Loaded(t, p)[k]
                      /\ x \notin KeysOf(p) => Loaded(y, p)[x] = v
    BY <1>4
  <2> QED BY <1>2, LoadedElsewhere
<1>6. \A m \in 0..Len(e.rows) : Loaded(t, Prefix(e, m))[x] = Absent => x \notin KeysOf(Prefix(e, m))
  <2> SUFFICES ASSUME NEW p, IsParsed(p), KeysOf(p) \subseteq Keys, Loaded(t, p)[x] = Absent
               PROVE  x \notin KeysOf(p)
    BY <1>4
  <2> QED BY LoadedFacts
<1>7. \A s, k : Expected(s, e, at, k) = IF CalledHere(e, at, k) THEN Later(s, e, n)[k] ELSE Prior(s, e, n)[k]
  BY <1>3 DEF Expected
<1>8. ASSUME NEW k \in Keys
      PROVE  Expected(y, e, at, k) = IF k = x THEN v ELSE Expected(t, e, at, k)
  <2>1. CASE CalledHere(e, at, k)
    <3>1. n \in 0..Len(e.rows)
      BY <1>3, <2>1 DEF CalledHere, IsCall
    <3>2. k # x
      BY <2>1
    <3>3. Later(y, e, n)[k] = Later(t, e, n)[k]
      BY <1>5, <3>1, <3>2 DEF Later
    <3> QED BY <1>7, <2>1, <3>2, <3>3
  <2>2. CASE ~CalledHere(e, at, k) /\ n = 0
    <3>1. Prior(y, e, n) = y /\ Prior(t, e, n) = t
      BY <2>2 DEF Prior
    <3> QED BY <1>2, <1>7, <2>2, <3>1 DEF Changed
  <2>3. CASE ~CalledHere(e, at, k) /\ n # 0
    <3>1. PICK m : m = n - 1
      OBVIOUS
    <3>2. m \in 0..Len(e.rows)
      BY <1>1, <1>3, <2>3, <3>1
    <3>3. Prior(y, e, n) = Loaded(y, Prefix(e, m)) /\ Prior(t, e, n) = Loaded(t, Prefix(e, m))
      BY <2>3, <3>1 DEF Prior
    <3>4. CASE k = x
      <4>1. Loaded(t, Prefix(e, m))[x] = Absent
        BY <1>7, <3>3
      <4> QED BY <1>5, <1>6, <1>7, <2>3, <3>2, <3>3, <3>4, <4>1
    <3>5. CASE k # x
      BY <1>5, <1>7, <2>3, <3>2, <3>3, <3>5
    <3> QED BY <3>4, <3>5
  <2> QED BY <2>1, <2>2, <2>3
<1>9. Later(y, e, 0)[TeamKey(e.team)] = Later(t, e, 0)[TeamKey(e.team)]
  <2>1. TeamKey(e.team) \in Keys
    BY DEF IsLoadable, KeysOf
  <2>2. TeamKey(e.team) # x
    BY DEF TeamKey, Key
  <2>3. 0 \in 0..Len(e.rows)
    BY <1>1
  <2> QED BY <1>5, <2>1, <2>2, <2>3 DEF Later
<1> QED BY <1>8, <1>9

(* What a box player leaves of the tables.                                  *)
LEMMA BoxLoads ==
  ASSUME NEW t, IsTable(t), NEW box \in BoxPlayers, NEW x, x = PlayerKey(box.player), t[x] = Absent
  PROVE  Added(Loaded(t, BoxEntry(box)), t, x, box.name)
<1>1. IsParsed(BoxEntry(box)) /\ KeysOf(BoxEntry(box)) = {x} /\ x \in Keys
  BY BoxPage
<1>2. PICK e : e = BoxEntry(box)
  OBVIOUS
<1>3. /\ e.name = NONE /\ DOMAIN e.rows = {1}
      /\ e.rows[1].player = box.player /\ e.rows[1].name = box.name
  <2>1. DOMAIN <<[team |-> NONE, table |-> "box", player |-> box.player,
                  name |-> box.name, number |-> NONE]>> = {1}
    OBVIOUS
  <2> QED BY <1>2, <2>1 DEF BoxEntry
<1>4. box.name \notin {Absent, Bare, Clean, NONE}
  BY CoreLoadAssumption
<1>5. Naming(e, box.player) = {1}
  BY <1>3, <1>4 DEF Naming
<1>6. First({1}) = 1
  <2>1. \A m \in {1} : 1 <= m
    OBVIOUS
  <2>2. First({1}) \in {1}
    BY <2>1 DEF First
  <2> QED BY <2>2
<1>7. NameOf(e, box.player) = box.name
  BY <1>3, <1>5, <1>6 DEF NameOf
<1>8. x[1] = "players" /\ x[3] = box.player
  BY DEF PlayerKey, Key
<1>9. NameGiven(t, e, x) = box.name
  BY <1>7, <1>8 DEF NameGiven
<1>10. PICK z : z = Loaded(t, e)
  OBVIOUS
<1>11. z = [k \in Keys |-> z[k]]
  BY <1>10 DEF Loaded
<1>12. \A k \in Keys : z[k] = IF k = x THEN box.name ELSE t[k]
  BY <1>1, <1>2, <1>4, <1>8, <1>9, <1>10 DEF Loaded, IsNamed
<1>13. DOMAIN t = Keys
  BY DEF IsTable
<1>14. z = [t EXCEPT ![x] = box.name]
  BY <1>11, <1>12, <1>13
<1> QED BY <1>2, <1>10, <1>13, <1>14 DEF Added

(* What a run sees when a player is added that it has not met.              *)
LEMMA SeesBeside ==
  ASSUME NEW r \in Runs, RunInv(r), Locks(r), Same(r), NEW t, IsTable(t), Sees(r, t),
         NEW x \in Keys, x[1] = "players", NEW v, NEW y, Added(y, t, x, v),
         core[x] = Absent, work[r][x] = Clean, Changed(core', core, x, v), pc[r] \in Loading
  PROVE  Sees(r, y)'
<1>1. /\ pc'[r] = pc[r] /\ parsed'[r] = parsed[r] /\ results'[r] = results[r]
      /\ work'[r] = work[r] /\ mark'[r] = mark[r]
      /\ step'[r] = step[r] /\ seen'[r] = seen[r] /\ team'[r] = team[r]
  BY DEF Same
<1>2. PICK e, at, w : e = Current(r) /\ at = step[r] /\ w = CurrentGet(r).key
  OBVIOUS
<1>3. Current(r)' = e /\ step'[r] = at
  BY <1>1, <1>2 DEF Current
<1>4. CurrentGet(r)'.key = w
  BY <1>1, <1>2, <1>3 DEF CurrentGet
<1>5. Changed(y, t, x, v)
  BY DEF Added, Changed
<1>6. View(r, x) = Absent
  BY DEF View
<1>7. \A k \in Keys : View(r, k)' = IF k = x THEN v ELSE View(r, k)
  BY <1>1 DEF View, Changed
<1>8. CASE pc[r] = "load"
  <2>1. \A k \in Keys : View(r, k) = t[k]
    BY <1>8 DEF Sees
  <2>2. \A k \in Keys : View(r, k)' = y[k]
    BY <1>5, <1>7, <2>1 DEF Changed
  <2> QED BY <1>1, <1>8, <2>2 DEF Sees, AtRow
<1>9. CASE pc[r] \in AtRow
  <2>1. /\ \A k \in Keys : Marked(r, k) = t[k] /\ View(r, k) = Expected(t, e, at, k)
        /\ at.row = 0 /\ at.call > 2 => team[r] = Later(t, e, 0)[TeamKey(e.team)]
        /\ pc[r] = "flush" /\ seen[r] # Absent => seen[r] = View(r, w)
    BY <1>2, <1>9 DEF Sees
  <2>2. mark[r][x] = Clean
    BY <1>9 DEF Locks
  <2>3. \A k \in Keys : Marked(r, k)' = IF k = x THEN v ELSE Marked(r, k)
    BY <1>1, <2>2 DEF Marked, Changed
  <2>4. \A k \in Keys : Marked(r, k)' = y[k]
    BY <1>5, <2>1, <2>3 DEF Changed
  <2>5. /\ IsLoadable(e) /\ KeysOf(e) \subseteq Keys
        /\ IsCall(e, at.row, at.call) \/ at.row = Len(e.rows) + 1
    BY <1>2, <1>9 DEF RunInv, Position
  <2>6. at.row \in 0..(Len(e.rows) + 1)
    <3>1. Len(e.rows) \in Nat
      BY <2>5, ListShape DEF IsLoadable, IsParsed
    <3>2. CASE IsCall(e, at.row, at.call)
      BY <3>1, <3>2 DEF IsCall
    <3>3. CASE at.row = Len(e.rows) + 1
      BY <3>1, <3>3
    <3> QED BY <2>5, <3>2, <3>3
  <2>7. ~CalledHere(e, at, x)
    <3> SUFFICES ASSUME CalledHere(e, at, x) PROVE FALSE
      OBVIOUS
    <3>1. Called(r, x)
      BY <1>2 DEF CalledHere, Called, Done
    <3> QED BY <1>6, <1>9, <3>1 DEF RunInv, Covered
  <2>8. Expected(t, e, at, x) = Absent
    BY <1>6, <2>1
  <2>9. /\ \A k \in Keys : Expected(y, e, at, k) = IF k = x THEN v ELSE Expected(t, e, at, k)
        /\ Later(y, e, 0)[TeamKey(e.team)] = Later(t, e, 0)[TeamKey(e.team)]
    BY <2>5, <2>6, <2>7, <2>8, ExpectedBeside
  <2>10. \A k \in Keys : View(r, k)' = Expected(y, e, at, k)
    BY <1>7, <2>1, <2>9
  <2>11. at.row = 0 /\ at.call > 2 => team'[r] = Later(y, e, 0)[TeamKey(e.team)]
    BY <1>1, <2>1, <2>9
  <2>12. pc'[r] = "flush" /\ seen'[r] # Absent => seen'[r] = View(r, w)'
    <3> SUFFICES ASSUME pc[r] = "flush", seen[r] # Absent PROVE seen[r] = View(r, w)'
      BY <1>1
    <3>1. w \in Keys
      BY <1>2, <1>9, PresentCall
    <3>2. w # x
      BY <1>6, <2>1
    <3> QED BY <1>7, <2>1, <3>1, <3>2
  <2> QED BY <1>1, <1>3, <1>4, <1>9, <2>4, <2>10, <2>11, <2>12 DEF Sees, AtRow
<1> QED BY <1>8, <1>9 DEF Loading, AtRow

(* A box player is loaded beside what runs do.                              *)
LEMMA SerialBox ==
  ASSUME IInv, AInv, SerialInv, NEW box \in BoxPlayers, CreateBoxPlayer(box)
  PROVE  SerialInv'
<1>1. Shapes /\ Logged /\ \A r \in Runs : RunInv(r) /\ Locks(r)
  BY DEF IInv, AInv, ValueInv
<1>2. PICK x, v : x = PlayerKey(box.player) /\ v = box.name
  OBVIOUS
<1>3. /\ core[x] = Absent /\ \A r \in Runs : work[r][x] = Clean
      /\ core' = [core EXCEPT ![x] = v] /\ log' = Append(log, BoxEntry(box))
      /\ overlap' = overlap /\ pc' = pc
      /\ inventory' = inventory /\ parsed' = parsed /\ results' = results /\ work' = work
      /\ mark' = mark /\ step' = step /\ seen' = seen /\ team' = team /\ report' = report
  BY <1>2 DEF CreateBoxPlayer, LockedBy, options, reading, session
<1>4. x \in Keys /\ x[1] = "players"
  BY <1>2, BoxPage DEF PlayerKey, Key
<1>5. PICK b, c, g, p : b = core /\ c = core' /\ g = log /\ p = BoxEntry(box)
  OBVIOUS
<1>6. IsTable(b) /\ DOMAIN b = Keys /\ IsList(g) /\ Len(g) \in Nat
  BY <1>1, <1>5, ListShape DEF Shapes, Logged, IsTable
<1>7. Added(c, b, x, v)
  BY <1>3, <1>5, <1>6 DEF Added
<1>8. Changed(core', core, x, v)
  BY <1>5, <1>7 DEF Added, Changed
<1> SUFFICES ASSUME ~overlap
             PROVE  /\ \A q, s \in Runs : pc'[q] \notin Ended /\ pc'[s] \notin Ended => q = s
                    /\ core' = Replay(log)'
                    /\ \A q \in Runs : RunSerial(q)'
  BY <1>3 DEF SerialInv
<1>9. /\ \A q, s \in Runs : pc[q] \notin Ended /\ pc[s] \notin Ended => q = s
      /\ b = Replay(g) /\ \A q \in Runs : RunSerial(q)
  BY <1>5 DEF SerialInv
<1>10. core' = Replay(log)'
  <2>1. PICK h : h = <<p>>
    OBVIOUS
  <2>2. IsList(h) /\ Len(h) = 1 /\ h[1] = p
    BY <2>1, OnePage
  <2>3. log' = g \o h
    <3>1. g \in Seq({g[i] : i \in DOMAIN g})
      BY <1>6 DEF IsList
    <3> QED BY <1>3, <1>5, <2>1, <3>1
  <2>4. IsList(g \o h) /\ Len(g \o h) \in Nat
    BY <1>6, <2>2, Joined, ListShape
  <2>5. Replay(g \o h) = After(Empty, g \o h) /\ Replay(g) = After(Empty, g)
    BY <1>6, <2>4, ReplayIsAfter
  <2>6. After(Empty, g \o h) = After(After(Empty, g), h)
    BY <1>6, <2>2, AfterJoined
  <2>7. After(b, h) = Loaded(b, p)
    BY <2>2, AfterFew
  <2>8. Replay(g \o h) = Loaded(b, p)
    BY <1>9, <2>5, <2>6, <2>7
  <2>9. b[x] = Absent
    BY <1>3, <1>5
  <2>10. Added(Loaded(b, BoxEntry(box)), b, x, box.name)
    BY <1>2, <1>6, <2>9, BoxLoads
  <2>11. Loaded(b, p) = c
    BY <1>2, <1>5, <1>7, <2>10 DEF Added
  <2>12. PICK f : f = g \o h
    OBVIOUS
  <2>13. log' = f /\ Replay(f) = c
    BY <2>3, <2>8, <2>11, <2>12
  <2>14. Replay(log)' = Replay(f)
    BY <2>13 DEF Replay, Loaded
  <2> QED BY <1>5, <2>13, <2>14
<1>11. ASSUME NEW q \in Runs PROVE RunSerial(q)'
  <2>1. RunInv(q) /\ Locks(q) /\ Same(q) /\ RunSerial(q) /\ work[q][x] = Clean
    BY <1>1, <1>3, <1>9 DEF Same
  <2>2. CASE pc[q] \notin Loading
    BY <1>3, <2>2, NotLoadingNext
  <2>3. CASE pc[q] \in Loading
    <3>1. PICK h, t : h = LoadedPages(q) /\ t = Before(q)
      OBVIOUS
    <3>2. IsList(h) /\ ArePages(h, Len(h)) /\ KeysOfAll(h) = RunKeys(q)
      BY <2>1, <3>1, LoadedPagesFacts
    <3>3. t = After(b, h) /\ IsTable(t)
      <4>1. t = After(b, h)
        BY <1>5, <3>1 DEF Before
      <4> QED BY <1>6, <3>2, <4>1, AfterIsTable
    <3>4. x \notin RunKeys(q)
      <4>1. View(q, x) = Absent
        BY <1>3, <2>1 DEF View
      <4> QED BY <2>1, <2>3, <4>1 DEF RunInv, Covered
    <3>5. \A i \in 1..Len(h) : x \notin KeysOf(h[i])
      <4>1. DOMAIN h = 1..Len(h)
        BY <3>2, ListShape
      <4> QED BY <3>2, <3>4, <4>1 DEF KeysOfAll
    <3>6. PICK y : y = After(c, h)
      OBVIOUS
    <3>7. Added(After(c, h), After(b, h), x, v)
      BY <1>4, <1>7, <3>2, <3>5, AfterElsewhere
    <3>8. Added(y, t, x, v)
      BY <3>3, <3>6, <3>7
    <3>9. LoadedPages(q)' = h
      BY <1>3, <3>1 DEF LoadedPages
    <3>10. Before(q)' = y
      BY <1>5, <3>6, <3>9 DEF Before
    <3>11. Sees(q, t)
      BY <2>1, <3>1 DEF RunSerial
    <3>12. Sees(q, y)'
      BY <1>3, <1>4, <1>8, <2>1, <2>3, <3>3, <3>8, <3>11, SeesBeside
    <3> QED BY <3>10, <3>12 DEF RunSerial
  <2> QED BY <2>2, <2>3
<1> QED BY <1>3, <1>9, <1>10, <1>11

-----------------------------------------------------------------------------
(* Nothing is in progress at the beginning.                                 *)
LEMMA InitSerialInv == Init => SerialInv
<1> SUFFICES ASSUME Init PROVE SerialInv
  OBVIOUS
<1>1. core = Replay(log) /\ \A r \in Runs : pc[r] = "idle"
  BY DEF Init
<1>2. \A r \in Runs : pc[r] \in Ended /\ pc[r] \notin Loading
  BY <1>1 DEF Ended, Loading
<1> QED BY <1>1, <1>2, NotLoading DEF SerialInv

(* A step that none of it concerns.                                         *)
LEMMA SerialStays ==
  ASSUME SerialInv, core' = core, log' = log, overlap' = overlap,
         UNCHANGED <<pc, reading, results, session, report>>
  PROVE  SerialInv'
<1>1. pc' = pc /\ \A q \in Runs : Same(q)
  BY DEF Same, reading, session
<1>2. Replay(log)' = Replay(log)
  BY DEF Replay, Loaded
<1>3. \A q \in Runs : RunSerial(q) => RunSerial(q)'
  BY <1>1, SerialFrame
<1> QED BY <1>1, <1>2, <1>3 DEF SerialInv

(* Every step keeps the tables those of the log.                            *)
LEMMA NextSerialInv ==
  ASSUME IInv, AInv, SerialInv, [Next]_vars
  PROVE  SerialInv'
<1>1. CASE UNCHANGED vars
  BY <1>1, SerialStays DEF vars, options
<1>2. CASE \E n \in DOMAIN Files : \E content \in MayHold[n] : ReplaceFile(n, content)
  BY <1>2, SerialStays DEF ReplaceFile, options
<1>3. CASE \E box \in BoxPlayers : CreateBoxPlayer(box)
  BY <1>3, SerialBox
<1>4. ASSUME NEW r \in Runs, Step(r)
      PROVE  SerialInv'
  <2>1. CASE \/ Start(r) \/ InventoryFile(r) \/ OpenPool(r)
             \/ \E i \in DOMAIN parsed[r] : ProcessPage(r, i)
             \/ SaveReport(r) \/ Crash(r)
    BY <2>1, SerialQuiet
  <2>2. CASE BeginLoad(r)
    BY <2>2, SerialBegin
  <2>3. CASE SkipPage(r) \/ RefusePage(r) \/ UniqueViolation(r) \/ StatementFault(r)
    <3>1. SkipPage(r) \/ RefusePage(r) \/ PageFails(r)
      BY <2>3 DEF UniqueViolation, StatementFault
    <3> QED BY <3>1, SerialRefused
  <2>4. CASE OpenPage(r)
    BY <2>4, SerialOpen
  <2>5. CASE SelectRow(r)
    BY <2>5, SerialSelect
  <2>6. CASE FlushRow(r)
    BY <2>6, SerialFlush
  <2>7. CASE ClosePage(r)
    BY <2>7, SerialClose
  <2>8. CASE Commit(r)
    BY <2>8, SerialCommit
  <2> QED BY <1>4, <2>1, <2>2, <2>3, <2>4, <2>5, <2>6, <2>7, <2>8 DEF Step
<1> QED BY <1>1, <1>2, <1>3, <1>4 DEF Next

(* While runs do not overlap, the core tables are those of loading the log, *)
(* page by page, and what a run in progress sees is what its pages and      *)
(* calls so far leave of them.                                              *)
THEOREM SerialInvariance == Spec => []SerialInv
<1>1. Init => SerialInv
  BY InitSerialInv
<1>2. IInv /\ AInv /\ SerialInv /\ [Next]_vars => SerialInv'
  BY NextSerialInv
<1> QED BY <1>1, <1>2, Invariance, ValueInvariance, PTL DEF Spec

(* Whatever pages fail, however runs interleave and crash, the core tables  *)
(* hold the rows of the pages that committed runs report as loaded and the  *)
(* box players, and no other; while runs do not overlap they are what       *)
(* loading those pages one after the other leaves, and with overlapping     *)
(* runs every attribute is one of those given, and no fallback once a name  *)
(* was given.                                                               *)
THEOREM CoreIsTheUnion == Spec => []CoreIsUnion
<1>1. IInv /\ AInv /\ SerialInv /\ TypeOK => CoreIsUnion
  <2> SUFFICES ASSUME IInv, AInv, SerialInv, TypeOK PROVE CoreIsUnion
    OBVIOUS
  <2>1. Present = KeysOfAll(log)
    BY DEF IInv, Logged
  <2>2. ~overlap => core = Replay(log)
    BY DEF SerialInv
  <2>3. ASSUME NEW k \in Present, k[1] \in {"teams", "players", "player_team_seasons"}
        PROVE  IF AllGiven(log, k) = {} THEN core[k] = Bare ELSE core[k] \in AllGiven(log, k)
    <3>1. k \in Keys /\ core[k] # Absent /\ k[1] \in Attributes
      BY <2>3 DEF Present, Attributes
    <3>2. /\ core[k] \in {Absent, Bare} \union AllGiven(log, k)
          /\ AllGiven(log, k) # {} => IsNamed(core[k])
      BY <3>1 DEF AInv, CoreValues
    <3> QED BY <3>1, <3>2 DEF IsNamed
  <2> QED BY <2>1, <2>2, <2>3 DEF CoreIsUnion
<1> QED BY <1>1, Invariance, ValueInvariance, SerialInvariance, TypeCorrect, PTL
=============================================================================
