-------------------------- MODULE StatsAuditProofs --------------------------
(***************************************************************************)
(* Proofs about StatsAudit, for any files, pages, histories and number of  *)
(* loads: a passed audit means that the tables hold exactly the keys that  *)
(* the pages imply, and that every row is what the current parser of its   *)
(* table reads on a page.                                                  *)
(***************************************************************************)
EXTENDS StatsAudit, FiniteSetTheorems, WellFoundedInduction, TLAPS

-----------------------------------------------------------------------------
(* What the parsers and the classifier say of a page is what it says.       *)

KeysOf(stats) == {s.key : s \in stats}
Untagged(s) == [key |-> s.key, code |-> s.code, val |-> s.val]

(* A set of row numbers that is not empty has a first one.                  *)
LEMMA FirstIsFirst ==
  ASSUME NEW S \in SUBSET Nat, S # {}
  PROVE  First(S) \in S
<1> DEFINE Less == OpToRel(<, Nat)
<1>1. \A i, j \in Nat : j < i => <<j, i>> \in Less
  BY DEF OpToRel
<1>2. IsWellFoundedOn(Less, Nat)
  BY NatLessThanWellFounded
<1> HIDE DEF Less
<1>3. PICK n \in S : \A m \in S : ~(<<m, n>> \in Less)
  BY <1>2, WFMin
<1>4. ASSUME NEW m \in S
      PROVE  n <= m
  <2>1. n \in Nat /\ m \in Nat
    OBVIOUS
  <2>2. ~(m < n)
    BY <1>1, <1>3, <2>1
  <2> QED BY <2>1, <2>2
<1> QED BY <1>4 DEF First

(* The full-season rows of a season are its marker's, or its one real row.  *)
LEMMA FullSeasonRows ==
  ASSUME NEW rows, IsList(rows), NEW y
  PROVE  /\ Expected(rows, y) <=> \E n \in InSeason(rows, y) : IsFullSeason(rows, n)
         /\ \A n \in _select_full_season_row(rows, InSeason(rows, y)) :
              n \in InSeason(rows, y) /\ IsFullSeason(rows, n)
<1> DEFINE S == InSeason(rows, y)
           M == MarkerRows(rows, S)
           R == RealRows(rows, S)
<1>1. S \subseteq DOMAIN rows /\ \A n \in DOMAIN rows : n \in S <=> rows[n].year = y
  BY DEF InSeason
<1>2. /\ M \subseteq S /\ \A n \in S : n \in M <=> is_multi_team_marker(rows[n].team)
      /\ R \subseteq S
      /\ \A n \in S : n \in R <=> /\ rows[n].team # NONE
                                  /\ ~is_synthetic_team_code(rows[n].team)
  BY DEF MarkerRows, RealRows
<1>3. IsFiniteSet(R)
  <2>1. Len(rows) \in Nat /\ R \subseteq 1..Len(rows)  BY <1>1, <1>2 DEF IsList
  <2>2. IsFiniteSet(1..Len(rows))  BY <2>1, FS_Interval
  <2> QED BY <2>1, <2>2, FS_Subset
<1>4. Cardinality(R) = 1 <=> \E n : R = {n}  BY <1>3, FS_Singleton
<1>5. \A n \in M : n \in S /\ IsFullSeason(rows, n)  BY <1>2 DEF IsFullSeason
<1>6. ASSUME M = {}, NEW n, R = {n}
      PROVE  n \in S /\ IsFullSeason(rows, n)
  <2>1. n \in S /\ rows[n].team # NONE /\ ~is_synthetic_team_code(rows[n].team)
    BY <1>2, <1>6
  <2>2. ASSUME NEW m \in DOMAIN rows \ {n}, rows[m].year = rows[n].year
        PROVE  rows[m].team \in {NONE, "TOT"}
    <3>1. m \in S /\ m \notin M /\ m \notin R  BY <1>1, <1>6, <2>1, <2>2
    <3>2. ~is_multi_team_marker(rows[m].team)  BY <1>2, <3>1
    <3>3. rows[m].team = NONE \/ is_synthetic_team_code(rows[m].team)  BY <1>2, <3>1
    <3> QED BY <3>2, <3>3 DEF is_synthetic_team_code, is_aggregate_only_team_code
  <2> QED BY <2>1, <2>2 DEF IsFullSeason
<1>7. ASSUME NEW n \in S, IsFullSeason(rows, n)
      PROVE  M # {} \/ R = {n}
  <2> SUFFICES ASSUME M = {} PROVE R = {n}
    OBVIOUS
  <2>1. ~is_multi_team_marker(rows[n].team)  BY <1>2
  <2>2. /\ rows[n].team # NONE /\ ~is_synthetic_team_code(rows[n].team)
        /\ \A m \in DOMAIN rows \ {n} :
             rows[m].year = rows[n].year => rows[m].team \in {NONE, "TOT"}
    BY <1>7, <2>1 DEF IsFullSeason
  <2>3. n \in R  BY <1>2, <2>2
  <2>4. ASSUME NEW m \in R, m # n PROVE FALSE
    <3>1. m \in DOMAIN rows \ {n} /\ rows[m].year = rows[n].year  BY <1>1, <1>2, <2>4
    <3>2. rows[m].team \in {NONE, "TOT"}  BY <2>2, <3>1
    <3>3. rows[m].team # NONE /\ rows[m].team # "TOT"
      BY <1>2 DEF is_synthetic_team_code, is_aggregate_only_team_code
    <3> QED BY <3>2, <3>3
  <2> QED BY <2>3, <2>4
<1>8. Expected(rows, y) <=> M # {} \/ Cardinality(R) = 1  BY DEF Expected
<1>9. /\ M # {} => _select_full_season_row(rows, S) = {First(M)}
      /\ M = {} /\ Cardinality(R) = 1 => _select_full_season_row(rows, S) = R
      /\ M = {} /\ Cardinality(R) # 1 => _select_full_season_row(rows, S) = {}
  BY DEF _select_full_season_row
<1>10. M # {} => First(M) \in M
  <2>1. M \subseteq Nat  BY <1>1, <1>2 DEF IsList
  <2> QED BY <2>1, FirstIsFirst
<1> HIDE DEF S, M, R
<1>11. Expected(rows, y) <=> \E n \in S : IsFullSeason(rows, n)
  BY <1>4, <1>5, <1>6, <1>7, <1>8
<1>12. \A n \in _select_full_season_row(rows, S) : n \in S /\ IsFullSeason(rows, n)
  <2>1. CASE M # {}  BY <2>1, <1>5, <1>9, <1>10
  <2>2. CASE M = {} /\ Cardinality(R) = 1  BY <2>2, <1>4, <1>6, <1>9
  <2>3. CASE M = {} /\ Cardinality(R) # 1  BY <2>3, <1>9
  <2> QED BY <2>1, <2>2, <2>3
<1> QED BY <1>11, <1>12 DEF S

(* The classifier expects the full seasons that a list has on record.       *)
LEMMA ClassifiedSeasons ==
  ASSUME NEW rows, IsList(rows), NEW dim, NEW p
  PROVE  _classify_aggregate(dim, p, rows).keys = KeysOf(Recorded(dim, p, rows))
<1> DEFINE Full == {m \in DOMAIN rows : rows[m].year # NONE /\ IsFullSeason(rows, m)}
           Due == {y \in Years(rows) : Expected(rows, y)}
<1>1. \A y : Expected(rows, y) <=> \E n \in InSeason(rows, y) : IsFullSeason(rows, n)
  BY FullSeasonRows
<1>2. \A y : y \in Due <=> \E n \in Full : rows[n].year = y
  BY <1>1 DEF Years, InSeason
<1>3. _classify_aggregate(dim, p, rows).keys = {Key(dim, p, y, NONE) : y \in Due}
  BY DEF _classify_aggregate
<1>4. /\ \A s \in Recorded(dim, p, rows) :
            \E n \in Full : s.key = Key(dim, p, rows[n].year, NONE)
      /\ \A n \in Full : \E s \in Recorded(dim, p, rows) :
            s.key = Key(dim, p, rows[n].year, NONE)
  <2> DEFINE say(n) == [key |-> Key(dim, p, rows[n].year, NONE),
                        code |-> rows[n].team, val |-> rows[n].val]
  <2>1. \A n : say(n).key = Key(dim, p, rows[n].year, NONE)
    OBVIOUS
  <2>2. Recorded(dim, p, rows) = {say(n) : n \in Full}
    BY DEF Recorded
  <2> HIDE DEF say, Full
  <2> QED BY <2>1, <2>2
<1> HIDE DEF Full, Due
<1> QED BY <1>2, <1>3, <1>4 DEF KeysOf

(* The full-season rows that the normalizer loads are on record.            *)
LEMMA LoadedSeasons ==
  ASSUME NEW rows, IsList(rows), NEW dim, NEW p, NEW s \in FullSeason(dim, p, rows)
  PROVE  Untagged(s) \in Recorded(dim, p, rows) /\ s.key.dim = dim
<1>1. PICK y \in Years(rows) :
        \E n \in _select_full_season_row(rows, InSeason(rows, y)) :
          s = Stat(Key(dim, p, y, NONE), n, rows[n].team, rows[n].val)
  BY DEF FullSeason
<1>0. PICK n \in _select_full_season_row(rows, InSeason(rows, y)) :
        s = Stat(Key(dim, p, y, NONE), n, rows[n].team, rows[n].val)
  BY <1>1
<1>2. n \in InSeason(rows, y) /\ IsFullSeason(rows, n)
  BY FullSeasonRows
<1>3. n \in DOMAIN rows /\ rows[n].year = y /\ y # NONE
  BY <1>2 DEF InSeason, Years
<1>4. Untagged(s) = [key |-> Key(dim, p, y, NONE), code |-> rows[n].team, val |-> rows[n].val]
  BY <1>0 DEF Untagged, Stat
<1>5. s.key.dim = dim
  BY <1>0 DEF Stat, Key
<1> QED BY <1>2, <1>3, <1>4, <1>5 DEF Recorded

(* The same for the stints: what the builder classifies of a team page or   *)
(* of a postseason table is what the page says.                             *)
LEMMA ClassifiedStints ==
  ASSUME NEW f, IsPage(cache[f])
  PROVE  /\ f.kind = "team" =>
              _classify_team_season_page(f, cache[f].roster) = KeysOf(Says(f, cache[f]))
         /\ _classify_team_stints(f.player, cache[f].postseason) =
              KeysOf({[key |-> Key("postseason_team_stint", f.player, cache[f].postseason[n].year,
                                   cache[f].postseason[n].team),
                       code |-> NONE, val |-> cache[f].postseason[n].val] :
                        n \in {m \in DOMAIN cache[f].postseason :
                                 /\ cache[f].postseason[m].year # NONE
                                 /\ RealTeam(cache[f].postseason[m])}})
<1> DEFINE roster == cache[f].roster
           post == cache[f].postseason
           On == {n \in DOMAIN roster : RealTeam(roster[n])}
           Played == {m \in DOMAIN post : post[m].year # NONE /\ RealTeam(post[m])}
<1>1. \A n \in DOMAIN roster : roster[n].player # NONE /\ roster[n].team # NONE
  BY DEF IsPage
<1>2. On = {m \in DOMAIN roster : /\ roster[m].player # NONE
                                  /\ ~is_synthetic_team_code(roster[m].team)}
  BY <1>1 DEF RealTeam
<1>3. Played = {m \in RealRows(post, DOMAIN post) : post[m].year # NONE}
  BY DEF RealRows, RealTeam
<1>4. ASSUME f.kind = "team"
      PROVE  KeysOf(Says(f, cache[f])) =
               {Key("regular_team_stint", roster[n].player, f.year, roster[n].team) : n \in On}
  <2>1. /\ \A s \in Says(f, cache[f]) : \E n \in On :
              s.key = Key("regular_team_stint", roster[n].player, f.year, roster[n].team)
        /\ \A n \in On : \E s \in Says(f, cache[f]) :
              s.key = Key("regular_team_stint", roster[n].player, f.year, roster[n].team)
    <3> DEFINE say(n) ==
          [key |-> Key("regular_team_stint", roster[n].player, f.year, roster[n].team),
           code |-> NONE, val |-> roster[n].val]
    <3>1. \A n : say(n).key = Key("regular_team_stint", roster[n].player, f.year, roster[n].team)
      OBVIOUS
    <3>2. Says(f, cache[f]) = {say(n) : n \in On}
      BY <1>4 DEF Says
    <3> HIDE DEF say, On
    <3> QED BY <3>1, <3>2
  <2> HIDE DEF On
  <2> QED BY <2>1 DEF KeysOf
<1>5. _classify_team_season_page(f, roster) =
        {Key("regular_team_stint", roster[n].player, f.year, roster[n].team) : n \in On}
  BY <1>2 DEF _classify_team_season_page
<1>6. _classify_team_stints(f.player, post) =
        {Key("postseason_team_stint", f.player, post[n].year, post[n].team) : n \in Played}
  BY <1>3 DEF _classify_team_stints
<1>7. KeysOf({[key |-> Key("postseason_team_stint", f.player, post[n].year, post[n].team),
               code |-> NONE, val |-> post[n].val] : n \in Played}) =
        {Key("postseason_team_stint", f.player, post[n].year, post[n].team) : n \in Played}
  <2> DEFINE stints ==
        {[key |-> Key("postseason_team_stint", f.player, post[n].year, post[n].team),
          code |-> NONE, val |-> post[n].val] : n \in Played}
  <2> HIDE DEF Played
  <2>1. /\ \A s \in stints : \E n \in Played :
              s.key = Key("postseason_team_stint", f.player, post[n].year, post[n].team)
        /\ \A n \in Played : \E s \in stints :
              s.key = Key("postseason_team_stint", f.player, post[n].year, post[n].team)
    <3> DEFINE say(n) ==
          [key |-> Key("postseason_team_stint", f.player, post[n].year, post[n].team),
           code |-> NONE, val |-> post[n].val]
    <3>1. \A n : say(n).key = Key("postseason_team_stint", f.player, post[n].year, post[n].team)
      OBVIOUS
    <3>2. stints = {say(n) : n \in Played}
      OBVIOUS
    <3> HIDE DEF say, stints
    <3> QED BY <3>1, <3>2
  <2> HIDE DEF stints
  <2>2. KeysOf(stints) =
          {Key("postseason_team_stint", f.player, post[n].year, post[n].team) : n \in Played}
    BY <2>1 DEF KeysOf
  <2> QED BY <2>2 DEF stints
<1> QED BY <1>4, <1>5, <1>6, <1>7

(* The classifier expects what a page says, no more and no less.            *)
LEMMA ClassifiedIsSaid ==
  ASSUME NEW f, IsPage(cache[f])
  PROVE  Classified(f).keys = KeysOf(Says(f, cache[f]))
<1>1. CASE f.kind = "team"
  BY <1>1, ClassifiedStints DEF Classified
<1>2. CASE f.kind # "team"
  <2> DEFINE regular == cache[f].regular
             post == cache[f].postseason
             stints == {[key |-> Key("postseason_team_stint", f.player, post[n].year,
                                     post[n].team),
                         code |-> NONE, val |-> post[n].val] :
                          n \in {m \in DOMAIN post : post[m].year # NONE /\ RealTeam(post[m])}}
             first == Recorded("regular_aggregate", f.player, regular)
             second == Recorded("postseason_aggregate", f.player, post)
  <2>1. Classified(f).keys =
          _classify_aggregate("regular_aggregate", f.player, regular).keys
          \union _classify_aggregate("postseason_aggregate", f.player, post).keys
          \union _classify_team_stints(f.player, post)
    BY <1>2 DEF Classified
  <2>2. Says(f, cache[f]) = first \union second \union stints
    BY <1>2 DEF Says
  <2>3. /\ _classify_aggregate("regular_aggregate", f.player, regular).keys = KeysOf(first)
        /\ _classify_aggregate("postseason_aggregate", f.player, post).keys = KeysOf(second)
    BY ClassifiedSeasons DEF IsPage
  <2>4. _classify_team_stints(f.player, post) = KeysOf(stints)
    BY ClassifiedStints
  <2> HIDE DEF first, second, stints, post, regular
  <2>5. KeysOf(first \union second \union stints) =
          KeysOf(first) \union KeysOf(second) \union KeysOf(stints)
    BY DEF KeysOf
  <2> QED BY <2>1, <2>2, <2>3, <2>4, <2>5
<1> QED BY <1>1, <1>2

(* A row that the expected producer of its table has loaded from a page is  *)
(* what that page says: neither the TOT row of a team page, which has its   *)
(* place in another table, nor a row under a marker.                        *)
LEMMA LoadedIsSaid ==
  ASSUME NEW kind \in Kinds, NEW f, IsPage(cache[f]),
         f.kind = IF kind = "team_stats" THEN "team" ELSE "player",
         NEW s \in StatsOf(kind, f),
         expected_parser_producer(s.key.dim) = Producer[kind],
         ~is_synthetic_team_code(s.key.team)
  PROVE  Untagged(s) \in Says(f, cache[f])
<1> DEFINE roster == cache[f].roster
           post == cache[f].postseason
<1>1. kind \in {"team_stats", "player_stats", "player_postseason_stats"}
  BY DEF Kinds, Producer
<1>2. CASE kind = "team_stats"
  <2>1. s \in normalize_team_season_page(f, cache[f])
    BY <1>2 DEF StatsOf
  <2>2. PICK n \in DOMAIN roster :
          s = IF is_aggregate_only_team_code(roster[n].team)
              THEN Stat(Key("regular_aggregate", roster[n].player, f.year, NONE), n,
                        roster[n].team, roster[n].val)
              ELSE Stat(Key("regular_team_stint", roster[n].player, f.year, roster[n].team), n,
                        NONE, roster[n].val)
    BY <2>1 DEF normalize_team_season_page
  <2>3. ~is_aggregate_only_team_code(roster[n].team)
    <3> SUFFICES ASSUME is_aggregate_only_team_code(roster[n].team) PROVE FALSE
      OBVIOUS
    <3>1. s.key.dim = "regular_aggregate"
      BY <2>2 DEF Stat, Key
    <3> QED BY <1>2, <3>1 DEF expected_parser_producer, Producer
  <2>4. s = Stat(Key("regular_team_stint", roster[n].player, f.year, roster[n].team), n,
                 NONE, roster[n].val)
    BY <2>2, <2>3
  <2>5. s.key.team = roster[n].team
    BY <2>4 DEF Stat, Key
  <2>6. RealTeam(roster[n])
    BY <2>5 DEF RealTeam, IsPage
  <2>7. Untagged(s) = [key |-> Key("regular_team_stint", roster[n].player, f.year,
                                   roster[n].team),
                       code |-> NONE, val |-> roster[n].val]
    BY <2>4 DEF Untagged, Stat
  <2> QED BY <1>2, <2>6, <2>7 DEF Says
<1>3. CASE kind = "player_stats"
  <2>1. s \in FullSeason("regular_aggregate", f.player, cache[f].regular)
    BY <1>3 DEF StatsOf, normalize_player_page_regular_season
  <2>2. Untagged(s) \in Recorded("regular_aggregate", f.player, cache[f].regular)
    BY <2>1, LoadedSeasons DEF IsPage
  <2> QED BY <1>3, <2>2 DEF Says
<1>4. CASE kind = "player_postseason_stats"
  <2>1. s \in normalize_player_page_postseason(f.player, cache[f])
    BY <1>4 DEF StatsOf
  <2>2. CASE s \in FullSeason("postseason_aggregate", f.player, post)
    <3>1. Untagged(s) \in Recorded("postseason_aggregate", f.player, post)
      BY <2>2, LoadedSeasons DEF IsPage
    <3> QED BY <1>4, <3>1 DEF Says
  <2>3. CASE s \notin FullSeason("postseason_aggregate", f.player, post)
    <3>1. PICK n \in {m \in RealRows(post, DOMAIN post) : post[m].year # NONE} :
            s = Stat(Key("postseason_team_stint", f.player, post[n].year, post[n].team), n,
                     NONE, post[n].val)
      BY <2>1, <2>3 DEF normalize_player_page_postseason
    <3>2. n \in DOMAIN post /\ post[n].year # NONE /\ RealTeam(post[n])
      BY DEF RealRows, RealTeam
    <3>3. Untagged(s) = [key |-> Key("postseason_team_stint", f.player, post[n].year,
                                     post[n].team),
                         code |-> NONE, val |-> post[n].val]
      BY <3>1 DEF Untagged, Stat
    <3> QED BY <1>4, <3>2, <3>3 DEF Says
  <2> QED BY <2>2, <2>3
<1> QED BY <1>1, <1>2, <1>3, <1>4

(* Every key has one of the four dimensions.                                *)
LEMMA SaidDims ==
  ASSUME NEW f, NEW page, NEW s \in Says(f, page)
  PROVE  s.key.dim \in Dims
<1>1. \A dim \in Dims : \A p, y, t : Key(dim, p, y, t).dim \in Dims
  BY DEF Key
<1>2. "regular_aggregate" \in Dims /\ "postseason_aggregate" \in Dims
      /\ "regular_team_stint" \in Dims /\ "postseason_team_stint" \in Dims
  BY DEF Dims
<1>3. \E dim \in Dims : \E p, y, t : s.key = Key(dim, p, y, t)
  <2>1. CASE f.kind = "team"
    <3>1. PICK n \in DOMAIN page.roster :
            s = [key |-> Key("regular_team_stint", page.roster[n].player, f.year,
                             page.roster[n].team),
                 code |-> NONE, val |-> page.roster[n].val]
      BY <2>1 DEF Says
    <3> QED BY <1>2, <3>1
  <2>2. CASE f.kind # "team"
    <3>1. \A dim, p, rows : \A r \in Recorded(dim, p, rows) :
            \E n : r.key = Key(dim, p, rows[n].year, NONE)
      BY DEF Recorded
    <3>2. CASE s \in Recorded("regular_aggregate", f.player, page.regular)
      BY <1>2, <3>1, <3>2
    <3>3. CASE s \in Recorded("postseason_aggregate", f.player, page.postseason)
      BY <1>2, <3>1, <3>3
    <3>4. CASE \E n \in DOMAIN page.postseason :
                 s = [key |-> Key("postseason_team_stint", f.player, page.postseason[n].year,
                                  page.postseason[n].team),
                      code |-> NONE, val |-> page.postseason[n].val]
      BY <1>2, <3>4
    <3> QED BY <2>2, <3>2, <3>3, <3>4 DEF Says
  <2> QED BY <2>1, <2>2
<1> QED BY <1>1, <1>3

(* A key that any page or history can give is of a known dimension.         *)
LEMMA AllKeysDims ==
  ASSUME NEW k \in AllKeys
  PROVE  k.dim \in Dims
<1>1. \A dim \in Dims : \A p, y, t, n, code, val :
        Stat(Key(dim, p, y, t), n, code, val).key.dim \in Dims
  BY DEF Key, Stat
<1>2. "regular_aggregate" \in Dims /\ "postseason_aggregate" \in Dims
      /\ "regular_team_stint" \in Dims /\ "postseason_team_stint" \in Dims
  BY DEF Dims
<1>3. \A dim \in Dims : \A p, rows : \A s \in FullSeason(dim, p, rows) : s.key.dim \in Dims
  BY <1>1 DEF FullSeason
<1>4. \A p, page : /\ \A s \in normalize_player_page_regular_season(p, page) : s.key.dim \in Dims
                   /\ \A s \in normalize_player_page_postseason(p, page) : s.key.dim \in Dims
  BY <1>1, <1>2, <1>3
     DEF normalize_player_page_regular_season, normalize_player_page_postseason
<1>5. \A f, page : \A s \in normalize_team_season_page(f, page) : s.key.dim \in Dims
  BY <1>1, <1>2 DEF normalize_team_season_page
<1>6. \A h \in Histories : \A key \in DOMAIN h : key.dim \in Dims
  BY StatsAuditAssumption
<1> DEFINE stats(f, page) ==
             IF f.kind = "team" THEN normalize_team_season_page(f, page)
             ELSE normalize_player_page_regular_season(f.player, page)
                  \union normalize_player_page_postseason(f.player, page)
           all == UNION {UNION {stats(f, page) : page \in MayHold[f]} : f \in Files}
           old == UNION {DOMAIN h : h \in Histories}
<1>7. AllKeys = old \union {s.key : s \in all}
  BY DEF AllKeys
<1>8. \A f, page : \A s \in stats(f, page) : s.key.dim \in Dims
  BY <1>4, <1>5
<1> HIDE DEF stats
<1>9. \A s \in all : s.key.dim \in Dims
  BY <1>8
<1>10. \A key \in old : key.dim \in Dims
  BY <1>6
<1> HIDE DEF all, old
<1> QED BY <1>7, <1>9, <1>10

-----------------------------------------------------------------------------
(* The inductive invariant, part by part.                                   *)

(* What is cached may be there, and no step takes a key out of the tables'  *)
(* reach.                                                                   *)
Typed ==
  /\ cache \in [Files -> (UNION {MayHold[f] : f \in Files}) \union {NONE}]
  /\ \A f \in Files : cache[f] \in MayHold[f] \union {NONE}
  /\ \A k \in DOMAIN table : k.dim \in Dims
  /\ touched \in BOOLEAN

(* The pages that the backfill of a kind reads.                             *)
PagesOf(kind) ==
  IF kind = "team_stats" THEN ValidTeamEntries ELSE discover_player_cache_entries

(* A row is what its producer reads on a page that is still there.          *)
FromPage(k, kind, f, s) ==
  /\ s.key = k
  /\ table[k] = [by |-> Producer[kind], current |-> TRUE, code |-> s.code, val |-> s.val]

Lineage ==
  \A k \in Persisted : table[k].current =>
    \E kind \in Kinds : \E f \in PagesOf(kind) : \E s \in StatsOf(kind, f) :
      FromPage(k, kind, f, s)

Building == build.pc = "read" => build.players \subseteq {f \in Files : Present(f)}

(* An artifact holds what the pages of its digest say.                      *)
Derived(a) == a.keys = KeysOf(Said(a.digest))

ArtifactIsDerived == artifact # NONE => Derived(artifact)

AuditShape ==
  /\ audit.pc \in {"idle", "oracle", "compare", "done"}
  /\ audit.pc # "idle" =>
       audit = [pc |-> audit.pc, oracle |-> audit.oracle, seen |-> audit.seen,
                scope |-> audit.scope, todo |-> audit.todo, issues |-> audit.issues]
  /\ audit.pc = "compare" =>
       audit.todo \in {<<"regular_aggregate", "postseason_aggregate",
                         "regular_team_stint", "postseason_team_stint">>,
                       <<"postseason_aggregate", "regular_team_stint",
                         "postseason_team_stint">>,
                       <<"regular_team_stint", "postseason_team_stint">>,
                       <<"postseason_team_stint">>}

OracleIsDerived == audit.pc # "idle" /\ audit.oracle # NONE => Derived(audit.oracle)

(* The first checks found nothing, and nothing has changed since.           *)
RowIsVetted(k) ==
  /\ table[k].by = expected_parser_producer(k.dim)
  /\ table[k].current
  /\ table[k].val = "ok"
  /\ ~is_synthetic_team_code(k.team)

Vetted ==
  audit.pc # "idle" /\ audit.issues = {} /\ ~touched => \A k \in Persisted : RowIsVetted(k)

(* The oracle was accepted: it was built from the pages that were there.    *)
Accepted ==
  audit.pc \in {"compare", "done"} /\ audit.issues = {} =>
    /\ audit.oracle # NONE
    /\ audit.seen = audit.oracle.digest
    /\ ~touched => audit.seen = LivePages

(* What is left to compare, and what the comparisons so far have shown.     *)
Left == IF audit.pc = "compare" THEN {audit.todo[i] : i \in DOMAIN audit.todo} ELSE {}

Agrees(dim) ==
  /\ _expected_keys(dim) \subseteq _actual_keys(dim)
  /\ ~touched => _actual_keys(dim) = _expected_keys(dim)

Compared ==
  audit.pc \in {"compare", "done"} /\ audit.issues = {} =>
    \A dim \in Dims \ Left : Agrees(dim)

IInv ==
  /\ Typed /\ Lineage /\ Building /\ ArtifactIsDerived
  /\ AuditShape /\ OracleIsDerived /\ Vetted /\ Accepted /\ Compared

-----------------------------------------------------------------------------
(* What an audit that has passed establishes.                               *)

(* What a backfill lists are readable pages of its own kind, and part of    *)
(* what an audit would see.                                                 *)
LEMMA Listings ==
  ASSUME Typed
  PROVE  \A kind \in Kinds : \A f \in PagesOf(kind) :
           /\ f \in Files /\ IsPage(cache[f]) /\ cache[f].readable
           /\ f.kind = IF kind = "team_stats" THEN "team" ELSE "player"
           /\ <<f, cache[f]>> \in LivePages
<1>1. \A f \in Files : cache[f] # NONE => IsPage(cache[f])
  BY StatsAuditAssumption DEF Typed
<1>2. \A kind \in {"player", "team"} : \A f \in Listed(kind) :
        f \in Files /\ IsPage(cache[f]) /\ cache[f].readable /\ f.kind = kind
  BY <1>1 DEF Listed, Present
<1>3. \A f \in Listed("player") \union Listed("team") : <<f, cache[f]>> \in LivePages
  BY DEF LivePages, discover_player_cache_entries, ValidTeamEntries
<1>4. \A kind : PagesOf(kind) = Listed(IF kind = "team_stats" THEN "team" ELSE "player")
  BY DEF PagesOf, discover_player_cache_entries, ValidTeamEntries
<1> QED BY <1>2, <1>3, <1>4

(* The invariant implies the first promise of a passed audit.               *)
LEMMA PassedIsCovered ==
  ASSUME IInv
  PROVE  PassMeansCovered
<1> SUFFICES ASSUME Passed
             PROVE  LET due == {k \in {s.key : s \in Said(audit.seen)} : k.year \in audit.scope}
                    IN  /\ due \subseteq Persisted
                        /\ ~touched => Persisted = due
  BY DEF PassMeansCovered
<1> DEFINE due == {k \in {s.key : s \in Said(audit.seen)} : k.year \in audit.scope}
           keys == audit.oracle.keys
<1>1. audit.pc = "done" /\ audit.issues = {}
  BY DEF Passed
<1>2. audit.oracle # NONE /\ audit.seen = audit.oracle.digest
  BY <1>1 DEF IInv, Accepted
<1>3. keys = {s.key : s \in Said(audit.seen)}
  BY <1>1, <1>2 DEF IInv, OracleIsDerived, Derived, KeysOf
<1>4. due = {k \in keys : k.year \in audit.scope}
  BY <1>3
<1>5. \A k \in due : k.dim \in Dims
  <2>1. \A s \in Said(audit.seen) : s.key.dim \in Dims
    BY SaidDims DEF Said
  <2> HIDE DEF keys
  <2> QED BY <2>1, <1>3, <1>4
<1>6. \A dim : _expected_keys(dim) = {k \in due : k.dim = dim}
  BY <1>4 DEF _expected_keys
<1>7. \A dim \in Dims : Agrees(dim)
  BY <1>1 DEF IInv, Compared, Left
<1>8. \A k \in Persisted : k.dim \in Dims
  BY DEF IInv, Typed, Persisted
<1> HIDE DEF due
<1>9. due \subseteq Persisted
  BY <1>5, <1>6, <1>7 DEF Agrees, _actual_keys
<1>10. ASSUME ~touched
       PROVE  Persisted \subseteq due
  BY <1>6, <1>7, <1>8, <1>10 DEF Agrees, _actual_keys
<1> QED BY <1>9, <1>10 DEF due

(* The invariant implies the second promise of a passed audit.              *)
LEMMA PassedIsCurrent ==
  ASSUME IInv
  PROVE  PassMeansCurrent
<1> SUFFICES ASSUME Passed, ~touched, NEW k \in Persisted
             PROVE  \E s \in Said(audit.seen) :
                      s.key = k /\ table[k].code \in {s.code} /\ table[k].val = s.val
                      /\ s.val = "ok"
  BY DEF PassMeansCurrent
<1>1. RowIsVetted(k) /\ audit.seen = LivePages
  BY DEF IInv, Vetted, Accepted, Passed
<1>2. PICK kind \in Kinds : \E f \in PagesOf(kind) : \E s \in StatsOf(kind, f) :
        FromPage(k, kind, f, s)
  BY <1>1 DEF IInv, Lineage, RowIsVetted
<1>3. PICK f \in PagesOf(kind) : \E s \in StatsOf(kind, f) : FromPage(k, kind, f, s)
  BY <1>2
<1>4. PICK s \in StatsOf(kind, f) : FromPage(k, kind, f, s)
  BY <1>3
<1>5. /\ IsPage(cache[f]) /\ <<f, cache[f]>> \in LivePages
      /\ f.kind = IF kind = "team_stats" THEN "team" ELSE "player"
  BY Listings DEF IInv
<1>6. /\ s.key = k /\ table[k].by = Producer[kind]
      /\ table[k].code = s.code /\ table[k].val = s.val
  BY <1>4 DEF FromPage
<1>7. /\ expected_parser_producer(s.key.dim) = Producer[kind]
      /\ ~is_synthetic_team_code(s.key.team)
      /\ table[k].val = "ok"
  BY <1>1, <1>6 DEF RowIsVetted
<1>8. Untagged(s) \in Says(f, cache[f])
  BY <1>5, <1>7, LoadedIsSaid
<1>9. Untagged(s) \in Said(audit.seen)
  BY <1>1, <1>5, <1>8 DEF Said
<1>10. Untagged(s).key = k /\ Untagged(s).code = s.code /\ Untagged(s).val = s.val
  BY <1>6 DEF Untagged
<1> QED BY <1>6, <1>7, <1>9, <1>10

-----------------------------------------------------------------------------
(* No artifact, no audit, and rows that the histories allow.                *)
LEMMA InitIInv == Init => IInv
<1> SUFFICES ASSUME Init PROVE IInv
  OBVIOUS
<1>1. PICK h \in Histories :
        table = [k \in AllKeys |-> IF k \in DOMAIN h THEN h[k] ELSE NoRow]
  BY DEF Init
<1>2. cache \in Caches /\ touched = FALSE /\ build = [pc |-> "idle"] /\ artifact = NONE
      /\ audit = [pc |-> "idle", issues |-> {}]
  BY DEF Init, NoBuild, NoAudit
<1>3. Typed
  <2>1. \A k \in DOMAIN table : k.dim \in Dims
    BY <1>1, AllKeysDims
  <2> QED BY <1>2, <2>1, StatsAuditAssumption DEF Typed
<1>4. \A k \in Persisted : ~table[k].current
  <2>1. \A k \in Persisted : k \in DOMAIN h /\ table[k] = h[k]
    BY <1>1 DEF Persisted
  <2> QED BY <2>1, StatsAuditAssumption
<1>5. audit.pc = "idle" /\ build.pc = "idle"
  BY <1>2
<1> QED BY <1>2, <1>3, <1>4, <1>5
        DEF IInv, Lineage, Building, ArtifactIsDerived, AuditShape, OracleIsDerived, Vetted,
            Accepted, Compared

(* A step that leaves the tables, the cache and the audit as they are.      *)
LEMMA ElsewhereIInv ==
  ASSUME IInv, UNCHANGED <<cache, table, audit, touched>>, Building', ArtifactIsDerived'
  PROVE  IInv'
<1>1. Typed' /\ AuditShape'
  BY DEF IInv, Typed, AuditShape
<1>2. OracleIsDerived'
  BY DEF IInv, OracleIsDerived, Derived, KeysOf, Said
<1>3. Lineage'
  BY DEF IInv, Lineage, Persisted, NoRow, PagesOf, ValidTeamEntries, StatsOf,
         discover_player_cache_entries, Listed, Present, FromPage
<1>4. Vetted'
  BY DEF IInv, Vetted, RowIsVetted, Persisted, NoRow
<1>6. Compared'
  <2>1. \A dim : Agrees(dim) => Agrees(dim)'
    BY DEF Agrees, _expected_keys, _actual_keys, Persisted, NoRow
  <2>2. Left' = Left
    BY DEF Left
  <2> QED BY <2>1, <2>2 DEF IInv, Compared
<1>5. Accepted'
  BY DEF IInv, Accepted, LivePages, ValidTeamEntries, discover_player_cache_entries, Listed,
         Present
<1> QED BY <1>1, <1>2, <1>3, <1>4, <1>5, <1>6 DEF IInv

(* Building the artifact: it is derived from pages that were in the cache.  *)
LEMMA BuildIInv ==
  ASSUME IInv, BuildDiscover \/ BuildArtifact \/ BuildCrash
  PROVE  IInv'
<1>1. \A f \in discover_player_cache_entries : f \in Files /\ Present(f)
  BY DEF discover_player_cache_entries, Listed
<1>2. ASSUME BuildDiscover
      PROVE  IInv'
  <2>1. Building'
    BY <1>1, <1>2 DEF BuildDiscover, Building, Present
  <2>2. ArtifactIsDerived' /\ UNCHANGED <<cache, table, audit, touched>>
    BY <1>2 DEF BuildDiscover, IInv, ArtifactIsDerived, Derived, database, disk, history,
                KeysOf, Said
  <2> QED BY <2>1, <2>2, ElsewhereIInv
<1>3. ASSUME BuildCrash
      PROVE  IInv'
  <2>1. Building'
    BY <1>3 DEF BuildCrash, NoBuild, Building
  <2>2. ArtifactIsDerived' /\ UNCHANGED <<cache, table, audit, touched>>
    BY <1>3 DEF BuildCrash, IInv, ArtifactIsDerived, Derived, database, disk, history,
                KeysOf, Said
  <2> QED BY <2>1, <2>2, ElsewhereIInv
<1>4. ASSUME BuildArtifact
      PROVE  IInv'
  <2> DEFINE pages == build.players \union ValidTeamEntries
             used == {f \in pages : ~Blank(f)}
             digest == {<<f, cache[f]>> : f \in pages}
             keys == UNION {Classified(f).keys : f \in used}
  <2>1. artifact'.digest = digest /\ artifact'.keys = keys
    BY <1>4 DEF BuildArtifact, _fingerprint_from_rows
  <2>2. \A f \in pages : IsPage(cache[f])
    <3>1. \A f \in Files : cache[f] # NONE => IsPage(cache[f])
      BY StatsAuditAssumption DEF IInv, Typed
    <3>2. \A f \in pages : f \in Files /\ cache[f] # NONE
      BY <1>4 DEF BuildArtifact, IInv, Building, ValidTeamEntries, Listed, Present
    <3> QED BY <3>1, <3>2
  <2>3. \A f \in used : Classified(f).keys = KeysOf(Says(f, cache[f]))
    BY <2>2, ClassifiedIsSaid
  <2>4. \A f \in pages \ used : Says(f, cache[f]) = {}
    <3> SUFFICES ASSUME NEW f \in pages, Blank(f) PROVE Says(f, cache[f]) = {}
      OBVIOUS
    <3>1. cache[f].regular = <<>> /\ cache[f].postseason = <<>> /\ cache[f].roster = <<>>
      BY DEF Blank, _has_any_rows
    <3>2. DOMAIN cache[f].regular = {} /\ DOMAIN cache[f].postseason = {}
          /\ DOMAIN cache[f].roster = {}
      BY <3>1
    <3> QED BY <3>2 DEF Says, Recorded
  <2>5. keys = KeysOf(Said(digest))
    <3>1. Said(digest) = UNION {Says(f, cache[f]) : f \in pages}
      <4>1. \A f : Says(<<f, cache[f]>>[1], <<f, cache[f]>>[2]) = Says(f, cache[f])
        OBVIOUS
      <4>2. \A p \in digest : \E f \in pages : Says(p[1], p[2]) = Says(f, cache[f])
        BY <4>1
      <4>3. \A f \in pages : \E p \in digest : Says(p[1], p[2]) = Says(f, cache[f])
        BY <4>1
      <4> HIDE DEF digest, pages
      <4> QED BY <4>2, <4>3 DEF Said
    <3> HIDE DEF pages, used, digest
    <3>2. \A f \in used : f \in pages
      BY DEF used
    <3>3. KeysOf(Said(digest)) = UNION {KeysOf(Says(f, cache[f])) : f \in used}
      BY <2>4, <3>1, <3>2 DEF KeysOf
    <3> QED BY <2>3, <3>3
  <2>6. ArtifactIsDerived'
    <3> HIDE DEF digest, keys
    <3> QED BY <2>1, <2>5 DEF ArtifactIsDerived, Derived, KeysOf, Said
  <2>7. Building' /\ UNCHANGED <<cache, table, audit, touched>>
    BY <1>4 DEF BuildArtifact, Building, NoBuild, database, history
  <2> QED BY <2>6, <2>7, ElsewhereIInv
<1> QED BY <1>2, <1>3, <1>4

(* A page or a load that comes while the audit runs is remembered, and it   *)
(* takes no row away.                                                       *)
LEMMA TouchedIInv ==
  ASSUME IInv, Touch, UNCHANGED <<audit, artifact, build>>,
         Typed', Lineage', Building', Persisted \subseteq Persisted'
  PROVE  IInv'
<1>1. AuditShape'
  BY DEF IInv, AuditShape
<1>2. OracleIsDerived' /\ ArtifactIsDerived'
  BY DEF IInv, OracleIsDerived, ArtifactIsDerived, Derived, KeysOf, Said
<1>3. audit.pc # "idle" => touched'
  BY DEF Touch
<1>4. Vetted'
  BY <1>3 DEF Vetted
<1>5. Accepted'
  BY <1>3 DEF IInv, Accepted
<1>6. Compared'
  <2>1. audit.pc \in {"compare", "done"} => \A dim : Agrees(dim) => Agrees(dim)'
    BY <1>3 DEF Agrees, _expected_keys, _actual_keys
  <2>2. Left' = Left
    BY DEF Left
  <2> QED BY <2>1, <2>2 DEF IInv, Compared
<1> QED BY <1>1, <1>2, <1>4, <1>5, <1>6 DEF IInv

(* A page appears: the fingerprint of the cache changes, no row does.       *)
LEMMA AddPageIInv ==
  ASSUME IInv, NEW f \in Files, AddPage(f)
  PROVE  IInv'
<1>1. PICK page \in MayHold[f] : cache' = [cache EXCEPT ![f] = page]
  BY DEF AddPage
<1>2. IsPage(page) /\ page # NONE
  BY StatsAuditAssumption DEF IsPage
<1>3. UNCHANGED <<core, table, audit, artifact, build>> /\ Touch
  BY DEF AddPage, database, disk
<1>4. ~Present(f) \/ cache[f] = Partial
  BY DEF AddPage
<1>5. /\ cache \in [Files -> (UNION {MayHold[g] : g \in Files}) \union {NONE}]
      /\ \A g \in Files : cache[g] \in MayHold[g] \union {NONE}
  BY DEF IInv, Typed
<1>6. cache'[f] = page /\ \A g \in Files \ {f} : cache'[g] = cache[g]
  BY <1>1, <1>5
<1>7. Typed'
  <2>1. page \in UNION {MayHold[g] : g \in Files}
    OBVIOUS
  <2>2. cache' \in [Files -> (UNION {MayHold[g] : g \in Files}) \union {NONE}]
    BY <1>1, <1>5, <2>1
  <2> QED BY <1>3, <1>5, <1>6, <2>2 DEF IInv, Typed, Touch
<1>8. Building'
  BY <1>2, <1>3, <1>6 DEF IInv, Building, Present
<1>9. Persisted' = Persisted
  BY <1>3 DEF Persisted, NoRow
<1>10. ASSUME NEW kind \in Kinds, NEW g \in PagesOf(kind)
       PROVE  g \in PagesOf(kind)' /\ StatsOf(kind, g)' = StatsOf(kind, g)
  <2>1. g \in Files /\ g.named /\ Present(g) /\ cache[g].readable
    BY DEF PagesOf, ValidTeamEntries, discover_player_cache_entries, Listed
  <2>2. g # f
    BY <1>4, <2>1 DEF Partial
  <2>3. cache'[g] = cache[g]
    BY <1>6, <2>1, <2>2
  <2>4. g \in PagesOf(kind)'
    BY <2>1, <2>3 DEF PagesOf, ValidTeamEntries, discover_player_cache_entries, Listed, Present
  <2>5. StatsOf(kind, g)' = StatsOf(kind, g)
    BY <2>3 DEF StatsOf
  <2> QED BY <2>4, <2>5
<1>11. Lineage'
  BY <1>3, <1>9, <1>10 DEF IInv, Lineage, FromPage
<1> QED BY <1>3, <1>7, <1>8, <1>9, <1>11, TouchedIInv

(* A core load extends what a row may refer to, and touches no row.         *)
LEMMA LoadCoreIInv ==
  ASSUME IInv, LoadCore
  PROVE  IInv'
<1>1. UNCHANGED <<cache, table, audit, artifact, build>> /\ Touch
  BY DEF LoadCore, disk
<1>2. Typed' /\ Building'
  BY <1>1 DEF IInv, Typed, Building, Present, Touch
<1>3. Lineage' /\ Persisted' = Persisted
  BY <1>1 DEF IInv, Lineage, Persisted, NoRow, PagesOf, ValidTeamEntries, StatsOf,
         discover_player_cache_entries, Listed, Present, FromPage
<1> QED BY <1>1, <1>2, <1>3, TouchedIInv

(* A row after a load is the row before it, or comes from one of the pages. *)
LEMMA LoadedRows ==
  ASSUME NEW kind, NEW pages, NEW failed, Load(kind, pages, failed)
  PROVE  /\ DOMAIN table' = DOMAIN table
         /\ \A k \in DOMAIN table :
              \/ table'[k] = table[k]
              \/ \E f \in pages : \E s \in StatsOf(kind, f) :
                   /\ s.key = k
                   /\ table'[k] = [by |-> Producer[kind], current |-> TRUE,
                                   code |-> s.code, val |-> s.val]
<1> DEFINE rows == UNION {{<<f, s>> : s \in StatsOf(kind, f)} : f \in pages}
           of(outcome) == {r \in rows : Outcome(kind, r[1], r[2], failed) = outcome}
           of_key(k) == {r \in of("loaded") : r[2].key = k}
<1>1. table' = [k \in DOMAIN table |->
           IF of_key(k) = {} THEN table[k]
           ELSE LET r == CHOOSE q \in of_key(k) : TRUE
                IN  [by |-> Producer[kind], current |-> TRUE,
                     code |-> r[2].code, val |-> r[2].val]]
  BY DEF Load
<1>2. \A r \in rows : \E f \in pages : \E s \in StatsOf(kind, f) : r[2] = s
  OBVIOUS
<1>3. \A k : \A r \in of_key(k) : r \in rows /\ r[2].key = k
  OBVIOUS
<1> HIDE DEF rows, of_key
<1>4. ASSUME NEW k \in DOMAIN table, of_key(k) # {}
      PROVE  \E f \in pages : \E s \in StatsOf(kind, f) :
               /\ s.key = k
               /\ table'[k] = [by |-> Producer[kind], current |-> TRUE,
                               code |-> s.code, val |-> s.val]
  <2> DEFINE r == CHOOSE q \in of_key(k) : TRUE
  <2>1. r \in of_key(k)
    BY <1>4
  <2>2. table'[k] = [by |-> Producer[kind], current |-> TRUE,
                     code |-> r[2].code, val |-> r[2].val]
    BY <1>1, <1>4
  <2> HIDE DEF r
  <2>3. r \in rows /\ r[2].key = k
    BY <1>3, <2>1
  <2>4. PICK f \in pages : \E s \in StatsOf(kind, f) : r[2] = s
    BY <1>2, <2>3
  <2>5. PICK s \in StatsOf(kind, f) : r[2] = s
    BY <2>4
  <2> QED BY <2>2, <2>3, <2>5
<1> QED BY <1>1, <1>4

(* A backfill: a row it writes is what its parser reads on a page.          *)
LEMMA BackfillIInv ==
  ASSUME IInv, NEW kind \in Kinds, Backfill(kind)
  PROVE  IInv'
<1> DEFINE listed == IF kind = "team_stats" THEN ValidTeamEntries
                     ELSE discover_player_cache_entries
<1>1. PICK failed : Load(kind, listed, failed)
  BY DEF Backfill
<1>2. UNCHANGED <<cache, core, audit, artifact, build>> /\ Touch
  BY DEF Backfill
<1>3. listed = PagesOf(kind)
  BY DEF PagesOf
<1> HIDE DEF listed
<1>4. /\ DOMAIN table' = DOMAIN table
      /\ \A k \in DOMAIN table :
           \/ table'[k] = table[k]
           \/ \E f \in PagesOf(kind) : \E s \in StatsOf(kind, f) :
                /\ s.key = k
                /\ table'[k] = [by |-> Producer[kind], current |-> TRUE,
                                code |-> s.code, val |-> s.val]
  BY <1>1, <1>3, LoadedRows
<1>5. Typed' /\ Building'
  BY <1>2, <1>4 DEF IInv, Typed, Building, Present, Touch
<1>6. \A code, val : [by |-> Producer[kind], current |-> TRUE, code |-> code, val |-> val] # NoRow
  BY DEF NoRow
<1>7. Persisted \subseteq Persisted'
  BY <1>4, <1>6 DEF Persisted, NoRow
<1>8. \A k2 \in Kinds : /\ PagesOf(k2)' = PagesOf(k2)
                        /\ \A f : StatsOf(k2, f)' = StatsOf(k2, f)
  BY <1>2 DEF PagesOf, ValidTeamEntries, discover_player_cache_entries, Listed, Present, StatsOf
<1>9. ASSUME NEW k \in Persisted', table'[k].current
      PROVE  \E k2 \in Kinds : \E f \in PagesOf(k2)' : \E s \in StatsOf(k2, f)' :
               FromPage(k, k2, f, s)'
  <2>1. k \in DOMAIN table
    BY <1>4 DEF Persisted
  <2>2. CASE table'[k] = table[k]
    <3>1. k \in Persisted
      BY <2>1, <2>2 DEF Persisted, NoRow
    <3>2. \E k2 \in Kinds : \E f \in PagesOf(k2) : \E s \in StatsOf(k2, f) :
            FromPage(k, k2, f, s)
      BY <1>9, <2>2, <3>1 DEF IInv, Lineage
    <3> QED BY <1>8, <2>2, <3>2 DEF FromPage
  <2>3. CASE table'[k] # table[k]
    <3>1. PICK f \in PagesOf(kind) : \E s \in StatsOf(kind, f) :
            /\ s.key = k
            /\ table'[k] = [by |-> Producer[kind], current |-> TRUE,
                            code |-> s.code, val |-> s.val]
      BY <1>4, <2>1, <2>3
    <3> QED BY <1>8, <3>1 DEF FromPage
  <2> QED BY <2>2, <2>3
<1>10. Lineage'
  BY <1>9 DEF Lineage
<1> QED BY <1>2, <1>5, <1>7, <1>10, TouchedIInv

-----------------------------------------------------------------------------
(* The steps of the audit leave all else as it is.                          *)
LEMMA AuditOnly ==
  ASSUME IInv, UNCHANGED <<cache, table, artifact, build, touched>>
  PROVE  Typed' /\ Lineage' /\ Building' /\ ArtifactIsDerived' /\ Persisted' = Persisted
<1>1. Typed' /\ Building' /\ Persisted' = Persisted
  BY DEF IInv, Typed, Building, Present, Persisted, NoRow
<1>2. ArtifactIsDerived'
  BY DEF IInv, ArtifactIsDerived, Derived, KeysOf, Said
<1>3. Lineage'
  BY DEF IInv, Lineage, Persisted, NoRow, PagesOf, ValidTeamEntries, StatsOf,
         discover_player_cache_entries, Listed, Present, FromPage
<1> QED BY <1>1, <1>2, <1>3

(* A condition that gave no issue does not hold.                            *)
LEMMA NoIssue ==
  ASSUME NEW condition, NEW code, When(condition, code) = {}
  PROVE  ~condition
BY DEF When

(* The checks of the rows: without an issue every row is vetted.            *)
LEMMA CheckTablesIInv ==
  ASSUME IInv, CheckTables
  PROVE  IInv'
<1>1. UNCHANGED <<cache, table, artifact, build, touched>>
  BY DEF CheckTables, database, disk, history
<1>2. PICK others :
        audit' = [pc |-> "oracle", oracle |-> artifact, seen |-> {}, scope |-> {},
                  todo |-> <<>>,
                  issues |-> others \union _team_stint_synthetic_code_issues
                             \union _aggregate_source_team_code_issues
                             \union _regular_postseason_separation_issues
                             \union _parser_version_issues \union _row_content_issues]
  BY DEF CheckTables
<1>3. /\ audit'.pc = "oracle" /\ audit'.oracle = artifact
      /\ audit' = [pc |-> audit'.pc, oracle |-> audit'.oracle, seen |-> audit'.seen,
                   scope |-> audit'.scope, todo |-> audit'.todo, issues |-> audit'.issues]
  BY <1>2
<1>4. ASSUME audit'.issues = {}, NEW k \in Persisted
      PROVE  RowIsVetted(k)
  <2>1. /\ _team_stint_synthetic_code_issues = {}
        /\ _parser_version_issues = {} /\ _row_content_issues = {}
    BY <1>2, <1>4
  <2>2. ~is_synthetic_team_code(k.team)
    BY <2>1, NoIssue DEF _team_stint_synthetic_code_issues
  <2>3. table[k].val = "ok"
    BY <2>1, NoIssue DEF _row_content_issues
  <2>4. table[k].by = expected_parser_producer(k.dim)
    BY <2>1, NoIssue DEF _parser_version_issues
  <2>5. table[k].current
    BY <2>1, NoIssue DEF _parser_version_issues
  <2> QED BY <2>2, <2>3, <2>4, <2>5 DEF RowIsVetted
<1>5. Vetted'
  BY <1>1, <1>4, AuditOnly DEF Vetted, RowIsVetted
<1>6. AuditShape' /\ Accepted' /\ Compared'
  BY <1>3 DEF AuditShape, Accepted, Compared
<1>7. OracleIsDerived'
  BY <1>1, <1>3 DEF IInv, ArtifactIsDerived, OracleIsDerived, Derived, KeysOf, Said
<1> QED BY <1>1, <1>5, <1>6, <1>7, AuditOnly DEF IInv

(* The artifact is checked: without an issue it is of the cache that the    *)
(* audit sees.                                                              *)
LEMMA CheckOracleIInv ==
  ASSUME IInv, CheckOracle
  PROVE  IInv'
<1>1. UNCHANGED <<cache, table, artifact, build, touched>>
  BY DEF CheckOracle, database, disk, history
<1>2. audit.pc = "oracle"
      /\ audit = [pc |-> audit.pc, oracle |-> audit.oracle, seen |-> audit.seen,
                  scope |-> audit.scope, todo |-> audit.todo, issues |-> audit.issues]
  BY DEF CheckOracle, IInv, AuditShape
<1>3. CASE OracleRefused # NONE
  <2>1. audit' = [audit EXCEPT !.pc = "done", !.issues = @ \union {OracleRefused}]
    BY <1>3 DEF CheckOracle
  <2>2. /\ audit'.pc = "done" /\ audit'.oracle = audit.oracle
        /\ audit'.issues = audit.issues \union {OracleRefused}
        /\ audit' = [pc |-> audit'.pc, oracle |-> audit'.oracle, seen |-> audit'.seen,
                     scope |-> audit'.scope, todo |-> audit'.todo, issues |-> audit'.issues]
    BY <1>2, <2>1
  <2>3. audit'.issues # {}
    BY <2>2
  <2>4. AuditShape' /\ Vetted' /\ Accepted' /\ Compared'
    BY <2>2, <2>3 DEF AuditShape, Vetted, Accepted, Compared
  <2>5. OracleIsDerived'
    BY <1>2, <2>2 DEF IInv, OracleIsDerived, Derived, KeysOf, Said
  <2> QED BY <1>1, <2>4, <2>5, AuditOnly DEF IInv
<1>4. CASE OracleRefused = NONE
  <2> DEFINE all == <<"regular_aggregate", "postseason_aggregate",
                      "regular_team_stint", "postseason_team_stint">>
  <2>1. PICK others :
          audit' = [audit EXCEPT !.pc = "compare", !.seen = LivePages, !.scope = core.seasons,
                                 !.todo = all, !.issues = audit.issues \union others]
    <3> DEFINE others == When(audit.oracle.unexplained # {}, "coverage_unexplained_source")
                 \union When(audit.oracle.source_issues # {}, "coverage_source_issues_present")
                 \union When(core.seasons = {}, "coverage_scope_empty")
    <3>1. audit' = [audit EXCEPT !.pc = "compare", !.seen = LivePages, !.scope = core.seasons,
                                 !.todo = all, !.issues = audit.issues \union others]
      BY <1>2, <1>4 DEF CheckOracle
    <3> QED BY <3>1
  <2>2. /\ audit'.pc = "compare" /\ audit'.oracle = audit.oracle /\ audit'.seen = LivePages
        /\ audit'.todo = all /\ audit'.issues = audit.issues \union others
        /\ audit' = [pc |-> audit'.pc, oracle |-> audit'.oracle, seen |-> audit'.seen,
                     scope |-> audit'.scope, todo |-> audit'.todo, issues |-> audit'.issues]
    BY <1>2, <2>1
  <2>3. audit.oracle # NONE /\ audit.oracle.digest = compute_cache_fingerprint
    BY <1>4, StatsAuditAssumption DEF OracleRefused
  <2>4. LivePages = compute_cache_fingerprint
    BY DEF LivePages, compute_cache_fingerprint, _fingerprint_from_rows
  <2>5. LivePages' = LivePages
    BY <1>1 DEF LivePages, ValidTeamEntries, discover_player_cache_entries, Listed, Present
  <2>6. Accepted'
    BY <1>1, <2>2, <2>3, <2>4, <2>5 DEF Accepted
  <2>7. Dims \subseteq Left'
    <3>1. all[1] = "regular_aggregate" /\ all[2] = "postseason_aggregate"
          /\ all[3] = "regular_team_stint" /\ all[4] = "postseason_team_stint"
          /\ DOMAIN all = 1..4
      OBVIOUS
    <3>2. Left' = {all[i] : i \in 1..4}
      BY <2>2, <3>1 DEF Left
    <3> QED BY <3>1, <3>2 DEF Dims
  <2>8. Compared'
    BY <2>7 DEF Compared
  <2>9. AuditShape'
    BY <2>2 DEF AuditShape
  <2>10. Vetted'
    BY <1>1, <1>2, <2>2 DEF IInv, Vetted, RowIsVetted, Persisted, NoRow
  <2>11. OracleIsDerived'
    BY <1>2, <2>2 DEF IInv, OracleIsDerived, Derived, KeysOf, Said
  <2> QED BY <1>1, <2>6, <2>8, <2>9, <2>10, <2>11, AuditOnly DEF IInv
<1> QED BY <1>3, <1>4

(* A dimension is compared: without an issue expected and actual keys       *)
(* agree.                                                                   *)
LEMMA CompareDimensionIInv ==
  ASSUME IInv, CompareDimension
  PROVE  IInv'
<1> DEFINE dim == Head(audit.todo)
           missing == _expected_keys(dim) \ _actual_keys(dim)
           unexpected == _actual_keys(dim) \ _expected_keys(dim)
<1>1. UNCHANGED <<cache, table, artifact, build, touched>>
  BY DEF CompareDimension, database, disk, history
<1>2. audit.pc = "compare"
      /\ audit = [pc |-> audit.pc, oracle |-> audit.oracle, seen |-> audit.seen,
                  scope |-> audit.scope, todo |-> audit.todo, issues |-> audit.issues]
  BY DEF CompareDimension, IInv, AuditShape
<1>3. audit' = [audit EXCEPT !.todo = Tail(@),
           !.pc = IF Tail(audit.todo) = <<>> THEN "done" ELSE @,
           !.issues = @ \union When(missing # {}, "coverage_missing_row")
                        \union When(unexpected # {}, "coverage_unexpected_row")]
  BY DEF CompareDimension
<1> HIDE DEF dim, missing, unexpected
<1>4. /\ audit'.todo = Tail(audit.todo)
      /\ audit'.pc = IF Tail(audit.todo) = <<>> THEN "done" ELSE "compare"
      /\ audit'.oracle = audit.oracle /\ audit'.seen = audit.seen
      /\ audit'.scope = audit.scope
      /\ audit'.issues = audit.issues \union When(missing # {}, "coverage_missing_row")
                           \union When(unexpected # {}, "coverage_unexpected_row")
      /\ audit' = [pc |-> audit'.pc, oracle |-> audit'.oracle, seen |-> audit'.seen,
                   scope |-> audit'.scope, todo |-> audit'.todo, issues |-> audit'.issues]
  BY <1>2, <1>3
<1>5. audit'.issues = {} => audit.issues = {} /\ missing = {} /\ unexpected = {}
  <2>1. audit'.issues = {} => /\ audit.issues = {}
                              /\ When(missing # {}, "coverage_missing_row") = {}
                              /\ When(unexpected # {}, "coverage_unexpected_row") = {}
    BY <1>4
  <2> QED BY <2>1, NoIssue
<1>6. AuditShape' /\ Left \subseteq Left' \union {dim}
  <2> DEFINE l4 == <<"regular_aggregate", "postseason_aggregate",
                     "regular_team_stint", "postseason_team_stint">>
             l3 == <<"postseason_aggregate", "regular_team_stint", "postseason_team_stint">>
             l2 == <<"regular_team_stint", "postseason_team_stint">>
             l1 == <<"postseason_team_stint">>
  <2>1. audit.todo \in {l4, l3, l2, l1}
    BY <1>2 DEF IInv, AuditShape
  <2>2. /\ Tail(l4) = l3 /\ Tail(l3) = l2 /\ Tail(l2) = l1 /\ Tail(l1) = <<>>
        /\ Head(l4) = l4[1] /\ Head(l3) = l3[1] /\ Head(l2) = l2[1] /\ Head(l1) = l1[1]
        /\ l3 # <<>> /\ l2 # <<>> /\ l1 # <<>>
    OBVIOUS
  <2>3. /\ DOMAIN l4 = 1..4 /\ DOMAIN l3 = 1..3 /\ DOMAIN l2 = 1..2 /\ DOMAIN l1 = 1..1
        /\ l4[2] = l3[1] /\ l4[3] = l3[2] /\ l4[4] = l3[3]
        /\ l3[2] = l2[1] /\ l3[3] = l2[2] /\ l2[2] = l1[1]
    OBVIOUS
  <2> HIDE DEF l4, l3, l2, l1
  <2>4. CASE audit.todo = l4
    <3>1. audit'.pc = "compare" /\ audit'.todo = l3
      BY <1>4, <2>2, <2>4
    <3>2. Left = {l4[i] : i \in 1..4} /\ Left' = {l3[i] : i \in 1..3} /\ dim = l4[1]
      BY <1>2, <2>2, <2>3, <2>4, <3>1 DEF Left, dim
    <3>3. AuditShape'
      BY <1>4, <3>1 DEF AuditShape, l3
    <3> QED BY <2>3, <3>2, <3>3
  <2>5. CASE audit.todo = l3
    <3>1. audit'.pc = "compare" /\ audit'.todo = l2
      BY <1>4, <2>2, <2>5
    <3>2. Left = {l3[i] : i \in 1..3} /\ Left' = {l2[i] : i \in 1..2} /\ dim = l3[1]
      BY <1>2, <2>2, <2>3, <2>5, <3>1 DEF Left, dim
    <3>3. AuditShape'
      BY <1>4, <3>1 DEF AuditShape, l2
    <3> QED BY <2>3, <3>2, <3>3
  <2>6. CASE audit.todo = l2
    <3>1. audit'.pc = "compare" /\ audit'.todo = l1
      BY <1>4, <2>2, <2>6
    <3>2. Left = {l2[i] : i \in 1..2} /\ Left' = {l1[i] : i \in 1..1} /\ dim = l2[1]
      BY <1>2, <2>2, <2>3, <2>6, <3>1 DEF Left, dim
    <3>3. AuditShape'
      BY <1>4, <3>1 DEF AuditShape, l1
    <3> QED BY <2>3, <3>2, <3>3
  <2>7. CASE audit.todo = l1
    <3>1. audit'.pc = "done"
      BY <1>4, <2>2, <2>7
    <3>2. Left = {l1[i] : i \in 1..1} /\ dim = l1[1]
      BY <1>2, <2>2, <2>3, <2>7 DEF Left, dim
    <3>3. AuditShape'
      BY <1>4, <3>1 DEF AuditShape
    <3> QED BY <3>2, <3>3
  <2> QED BY <2>1, <2>4, <2>5, <2>6, <2>7
<1>7. audit'.pc \in {"compare", "done"}
  BY <1>4
<1>8. Compared'
  <2> SUFFICES ASSUME audit'.issues = {}, NEW d \in Dims \ Left' PROVE Agrees(d)'
    BY DEF Compared
  <2>1. Agrees(d)
    <3>1. CASE d = dim
      BY <1>5, <3>1 DEF Agrees, missing, unexpected
    <3>2. CASE d # dim
      BY <1>2, <1>5, <1>6, <3>2 DEF IInv, Compared
    <3> QED BY <3>1, <3>2
  <2> QED BY <1>1, <1>4, <2>1 DEF Agrees, _expected_keys, _actual_keys, Persisted, NoRow
<1>9. LivePages' = LivePages
  BY <1>1 DEF LivePages, ValidTeamEntries, discover_player_cache_entries, Listed, Present
<1>10. Accepted'
  BY <1>1, <1>2, <1>4, <1>5, <1>9 DEF IInv, Accepted
<1>11. Vetted'
  BY <1>1, <1>2, <1>5 DEF IInv, Vetted, RowIsVetted, Persisted, NoRow
<1>12. OracleIsDerived'
  BY <1>2, <1>4 DEF IInv, OracleIsDerived, Derived, KeysOf, Said
<1> QED BY <1>1, <1>6, <1>8, <1>10, <1>11, <1>12, AuditOnly DEF IInv

-----------------------------------------------------------------------------
(* Every step keeps the invariant.                                          *)
LEMMA NextIInv ==
  ASSUME IInv, [Next]_vars
  PROVE  IInv'
<1>1. CASE \E f \in Files : AddPage(f)  BY <1>1, AddPageIInv
<1>2. CASE LoadCore  BY <1>2, LoadCoreIInv
<1>3. CASE \E kind \in Kinds : Backfill(kind)  BY <1>3, BackfillIInv
<1>4. CASE BuildDiscover \/ BuildArtifact \/ BuildCrash  BY <1>4, BuildIInv
<1>5. CASE CheckTables  BY <1>5, CheckTablesIInv
<1>6. CASE CheckOracle  BY <1>6, CheckOracleIInv
<1>7. CASE CompareDimension  BY <1>7, CompareDimensionIInv
<1>8. CASE UNCHANGED vars
  <2>1. UNCHANGED <<cache, table, audit, touched, artifact, build>>
    BY <1>8 DEF vars, database, disk, history
  <2>2. Building' /\ ArtifactIsDerived'
    BY <2>1, AuditOnly
  <2> QED BY <2>1, <2>2, ElsewhereIInv
<1> QED BY <1>1, <1>2, <1>3, <1>4, <1>5, <1>6, <1>7, <1>8 DEF Next

(* The invariant holds at any time.                                         *)
LEMMA Invariance == Spec => []IInv
<1> QED BY InitIInv, NextIInv, PTL DEF Spec

(* A passed audit means that the tables hold every key that the pages imply *)
(* for the loaded seasons, and no other key while they are at rest: for any *)
(* pages, whatever was added, loaded, built or left half-built meanwhile.   *)
THEOREM Covered == Spec => []PassMeansCovered
<1> QED BY Invariance, PassedIsCovered, PTL

(* A passed audit of tables at rest means that every row is what the        *)
(* current parser of its table reads on a page that the audit has seen.     *)
THEOREM Current == Spec => []PassMeansCurrent
<1> QED BY Invariance, PassedIsCurrent, PTL

-----------------------------------------------------------------------------
(* No false alarm.  What an honest load leaves behind: every row comes from *)
(* a page, under a key that no other row has.                               *)

OwnTeam(f) == f.kind = "team" => \A n \in DOMAIN cache[f].roster :
  RealTeam(cache[f].roster[n]) /\ cache[f].roster[n].team = f.team

(* The rows that a backfill of a kind reads, and those it has to load.      *)
RowsOf(kind) == UNION {{<<f, s>> : s \in StatsOf(kind, f)} : f \in PagesOf(kind)}
Due(kind) == {r \in RowsOf(kind) : SeasonIn(r[2].key.year) /\ HasGrain(r[2].key)}

(* A season total has no team in its key, a code of its own, and comes from *)
(* a row of the page.                                                       *)
LEMMA FullSeasonShape ==
  ASSUME NEW rows, IsList(rows), NEW dim, NEW p, NEW s \in FullSeason(dim, p, rows)
  PROVE  /\ s.key.dim = dim /\ s.key.player = p /\ s.key.team = NONE
         /\ is_multi_team_marker(s.code) \/ s.code # NONE
         /\ \E n \in DOMAIN rows :
              s = Stat(Key(dim, p, rows[n].year, NONE), n, rows[n].team, rows[n].val)
<1>1. PICK y \in Years(rows) :
        \E n \in _select_full_season_row(rows, InSeason(rows, y)) :
          s = Stat(Key(dim, p, y, NONE), n, rows[n].team, rows[n].val)
  BY DEF FullSeason
<1>2. PICK n \in _select_full_season_row(rows, InSeason(rows, y)) :
        s = Stat(Key(dim, p, y, NONE), n, rows[n].team, rows[n].val)
  BY <1>1
<1>3. n \in InSeason(rows, y) /\ IsFullSeason(rows, n)
  BY FullSeasonRows
<1>4. n \in DOMAIN rows /\ rows[n].year = y
  BY <1>3 DEF InSeason
<1>5. is_multi_team_marker(rows[n].team) \/ rows[n].team # NONE
  BY <1>3 DEF IsFullSeason
<1>6. s.key.dim = dim /\ s.key.player = p /\ s.key.team = NONE /\ s.code = rows[n].team
  BY <1>2 DEF Stat, Key
<1> QED BY <1>2, <1>4, <1>5, <1>6

(* A loaded statistic is of the dimension, the owner and the producer of    *)
(* its backfill.                                                            *)
LEMMA StatShape ==
  ASSUME NEW kind \in Kinds, NEW f, IsPage(cache[f]), OwnTeam(f),
         f.kind = IF kind = "team_stats" THEN "team" ELSE "player",
         NEW s \in StatsOf(kind, f)
  PROVE  /\ expected_parser_producer(s.key.dim) = Producer[kind]
         /\ ~is_synthetic_team_code(s.key.team)
         /\ IF kind = "team_stats" THEN s.key.team = f.team /\ s.key.year = f.year
                                   ELSE s.key.player = f.player
         /\ s.key.team = NONE => is_multi_team_marker(s.code) \/ s.code # NONE
<1> DEFINE roster == cache[f].roster
           post == cache[f].postseason
<1>1. kind \in {"team_stats", "player_stats", "player_postseason_stats"}
  BY DEF Kinds, Producer
<1>2. ~is_synthetic_team_code(NONE)
  BY StatsAuditAssumption
     DEF is_synthetic_team_code, is_aggregate_only_team_code, is_multi_team_marker
<1>3. CASE kind = "team_stats"
  <2>1. s \in normalize_team_season_page(f, cache[f])
    BY <1>3 DEF StatsOf
  <2>2. PICK n \in DOMAIN roster :
          s = IF is_aggregate_only_team_code(roster[n].team)
              THEN Stat(Key("regular_aggregate", roster[n].player, f.year, NONE), n,
                        roster[n].team, roster[n].val)
              ELSE Stat(Key("regular_team_stint", roster[n].player, f.year, roster[n].team), n,
                        NONE, roster[n].val)
    BY <2>1 DEF normalize_team_season_page
  <2>3. RealTeam(roster[n]) /\ roster[n].team = f.team
    BY <1>3 DEF OwnTeam
  <2>4. s = Stat(Key("regular_team_stint", roster[n].player, f.year, roster[n].team), n,
                 NONE, roster[n].val)
    BY <2>2, <2>3 DEF RealTeam, is_synthetic_team_code
  <2>5. s.key.team = f.team /\ s.key.year = f.year /\ s.key.dim = "regular_team_stint"
    BY <2>3, <2>4 DEF Stat, Key
  <2>6. expected_parser_producer(s.key.dim) = Producer[kind]
    BY <1>3, <2>5 DEF expected_parser_producer, Producer
  <2> QED BY <1>3, <2>3, <2>5, <2>6 DEF RealTeam
<1>4. CASE kind = "player_stats"
  <2>1. s \in FullSeason("regular_aggregate", f.player, cache[f].regular)
    BY <1>4 DEF StatsOf, normalize_player_page_regular_season
  <2>2. /\ s.key.dim = "regular_aggregate" /\ s.key.player = f.player /\ s.key.team = NONE
        /\ is_multi_team_marker(s.code) \/ s.code # NONE
    BY <2>1, FullSeasonShape DEF IsPage
  <2>3. expected_parser_producer(s.key.dim) = Producer[kind]
    BY <1>4, <2>2 DEF expected_parser_producer, Producer
  <2> QED BY <1>2, <1>4, <2>2, <2>3
<1>5. CASE kind = "player_postseason_stats"
  <2>1. s \in normalize_player_page_postseason(f.player, cache[f])
    BY <1>5 DEF StatsOf
  <2>2. CASE s \in FullSeason("postseason_aggregate", f.player, post)
    <3>1. /\ s.key.dim = "postseason_aggregate" /\ s.key.player = f.player
          /\ s.key.team = NONE
          /\ is_multi_team_marker(s.code) \/ s.code # NONE
      BY <2>2, FullSeasonShape DEF IsPage
    <3>2. expected_parser_producer(s.key.dim) = Producer[kind]
      BY <1>5, <3>1 DEF expected_parser_producer, Producer
    <3> QED BY <1>2, <1>5, <3>1, <3>2
  <2>3. CASE s \notin FullSeason("postseason_aggregate", f.player, post)
    <3>1. PICK n \in {m \in RealRows(post, DOMAIN post) : post[m].year # NONE} :
            s = Stat(Key("postseason_team_stint", f.player, post[n].year, post[n].team), n,
                     NONE, post[n].val)
      BY <2>1, <2>3 DEF normalize_player_page_postseason
    <3>2. post[n].team # NONE /\ ~is_synthetic_team_code(post[n].team)
      BY DEF RealRows
    <3>3. /\ s.key.dim = "postseason_team_stint" /\ s.key.player = f.player
          /\ s.key.team = post[n].team
      BY <3>1 DEF Stat, Key
    <3>4. expected_parser_producer(s.key.dim) = Producer[kind]
      BY <1>5, <3>3 DEF expected_parser_producer, Producer
    <3> QED BY <1>5, <3>2, <3>3, <3>4
  <2> QED BY <2>2, <2>3
<1> QED BY <1>1, <1>3, <1>4, <1>5

(* What a page says, a backfill reads: under the key that it has there.     *)
LEMMA SaidIsRead ==
  ASSUME NEW f, IsPage(cache[f]), OwnTeam(f), f.kind \in {"player", "team"},
         NEW s \in Says(f, cache[f])
  PROVE  \E kind \in Kinds :
           /\ f.kind = IF kind = "team_stats" THEN "team" ELSE "player"
           /\ \E t \in StatsOf(kind, f) : t.key = s.key
<1> DEFINE roster == cache[f].roster
           post == cache[f].postseason
<1>1. "team_stats" \in Kinds /\ "player_stats" \in Kinds /\ "player_postseason_stats" \in Kinds
  BY DEF Kinds, Producer
<1>2. ASSUME NEW rows, IsList(rows), NEW dim, NEW r \in Recorded(dim, f.player, rows)
      PROVE  \E t \in FullSeason(dim, f.player, rows) : t.key = r.key
  <2>1. PICK n \in DOMAIN rows :
          /\ rows[n].year # NONE /\ IsFullSeason(rows, n)
          /\ r.key = Key(dim, f.player, rows[n].year, NONE)
    BY <1>2 DEF Recorded
  <2> DEFINE y == rows[n].year
             S == InSeason(rows, y)
  <2>2. n \in S /\ y \in Years(rows)
    BY <2>1 DEF InSeason, Years
  <2>3. Expected(rows, y)
    BY <1>2, <2>1, <2>2, FullSeasonRows
  <2>4. _select_full_season_row(rows, S) # {}
    <3>1. CASE MarkerRows(rows, S) # {}
      BY <3>1 DEF _select_full_season_row
    <3>2. CASE MarkerRows(rows, S) = {}
      <4>1. Cardinality(RealRows(rows, S)) = 1
        BY <2>3, <3>2 DEF Expected
      <4>2. n \in RealRows(rows, S)
        <5>1. ~is_multi_team_marker(rows[n].team)
          BY <2>2, <3>2 DEF MarkerRows
        <5> QED BY <2>1, <2>2, <5>1 DEF IsFullSeason, RealRows
      <4> QED BY <3>2, <4>1, <4>2 DEF _select_full_season_row
    <3> QED BY <3>1, <3>2
  <2>5. PICK m : m \in _select_full_season_row(rows, S)
    BY <2>4
  <2> DEFINE t == Stat(Key(dim, f.player, y, NONE), m, rows[m].team, rows[m].val)
  <2>6. t \in FullSeason(dim, f.player, rows)
    BY <2>2, <2>5 DEF FullSeason
  <2>7. t.key = r.key
    BY <2>1 DEF Stat
  <2> QED BY <2>6, <2>7
<1>3. CASE f.kind = "team"
  <2>1. PICK n \in DOMAIN roster :
          s = [key |-> Key("regular_team_stint", roster[n].player, f.year, roster[n].team),
               code |-> NONE, val |-> roster[n].val]
    BY <1>3 DEF Says
  <2> DEFINE t == Stat(Key("regular_team_stint", roster[n].player, f.year, roster[n].team), n,
                       NONE, roster[n].val)
  <2>2. ~is_aggregate_only_team_code(roster[n].team)
    BY <1>3 DEF OwnTeam, RealTeam, is_synthetic_team_code
  <2>3. t \in normalize_team_season_page(f, cache[f])
    BY <2>2 DEF normalize_team_season_page
  <2>4. t \in StatsOf("team_stats", f) /\ t.key = s.key
    BY <2>1, <2>3 DEF StatsOf, Stat
  <2> HIDE DEF t
  <2> QED BY <1>1, <1>3, <2>4
<1>4. CASE f.kind = "player"
  <2>1. CASE s \in Recorded("regular_aggregate", f.player, cache[f].regular)
    <3>1. \E t \in FullSeason("regular_aggregate", f.player, cache[f].regular) : t.key = s.key
      BY <1>2, <2>1 DEF IsPage
    <3> QED BY <1>1, <1>4, <3>1 DEF StatsOf, normalize_player_page_regular_season
  <2>2. CASE s \in Recorded("postseason_aggregate", f.player, post)
    <3>1. \E t \in FullSeason("postseason_aggregate", f.player, post) : t.key = s.key
      BY <1>2, <2>2 DEF IsPage
    <3>2. \E t \in normalize_player_page_postseason(f.player, cache[f]) : t.key = s.key
      BY <3>1 DEF normalize_player_page_postseason
    <3> QED BY <1>1, <1>4, <3>2 DEF StatsOf
  <2>3. CASE /\ s \notin Recorded("regular_aggregate", f.player, cache[f].regular)
             /\ s \notin Recorded("postseason_aggregate", f.player, post)
    <3>1. PICK n \in DOMAIN post :
            /\ post[n].year # NONE /\ RealTeam(post[n])
            /\ s = [key |-> Key("postseason_team_stint", f.player, post[n].year, post[n].team),
                    code |-> NONE, val |-> post[n].val]
      BY <1>4, <2>3 DEF Says
    <3> DEFINE t == Stat(Key("postseason_team_stint", f.player, post[n].year, post[n].team), n,
                         NONE, post[n].val)
    <3>2. n \in {m \in RealRows(post, DOMAIN post) : post[m].year # NONE}
      BY <3>1 DEF RealRows, RealTeam
    <3>3. t \in normalize_player_page_postseason(f.player, cache[f])
      BY <3>2 DEF normalize_player_page_postseason
    <3>4. t.key = s.key
      BY <3>1 DEF Stat
    <3> HIDE DEF t
    <3> QED BY <1>1, <1>4, <3>3, <3>4 DEF StatsOf
  <2> QED BY <2>1, <2>2, <2>3
<1> QED BY <1>3, <1>4

(* A function of a finite domain takes finitely many values.                *)
LEMMA RangeIsFinite ==
  ASSUME NEW g, IsFiniteSet(DOMAIN g)
  PROVE  IsFiniteSet({g[x] : x \in DOMAIN g})
<1> DEFINE S == DOMAIN g
           T == {g[x] : x \in S}
           h == [x \in S |-> g[x]]
<1>1. h \in Surjection(S, T)
  BY DEF Surjection
<1> QED BY <1>1, FS_Surjection

(* A table of a page has finitely many rows.                                *)
LEMMA ListIsFinite ==
  ASSUME NEW rows, IsList(rows)
  PROVE  IsFiniteSet(DOMAIN rows)
BY FS_Interval DEF IsList

(* So have the season totals,                                               *)
LEMMA FullSeasonIsFinite ==
  ASSUME NEW rows, IsList(rows), NEW dim, NEW p
  PROVE  IsFiniteSet(FullSeason(dim, p, rows))
<1> DEFINE g == [n \in DOMAIN rows |->
                   Stat(Key(dim, p, rows[n].year, NONE), n, rows[n].team, rows[n].val)]
           T == {g[n] : n \in DOMAIN g}
<1>1. IsFiniteSet(T)
  <2>1. IsFiniteSet(DOMAIN g)
    BY ListIsFinite
  <2> HIDE DEF g
  <2> QED BY <2>1, RangeIsFinite
<1>2. FullSeason(dim, p, rows) \subseteq T
  BY FullSeasonShape
<1> HIDE DEF T
<1> QED BY <1>1, <1>2, FS_Subset

(* the statistics of a page,                                                *)
LEMMA StatsAreFinite ==
  ASSUME NEW kind \in Kinds, NEW f, IsPage(cache[f])
  PROVE  IsFiniteSet(StatsOf(kind, f))
<1> DEFINE roster == cache[f].roster
           post == cache[f].postseason
<1>1. kind \in {"team_stats", "player_stats", "player_postseason_stats"}
  BY DEF Kinds, Producer
<1>2. IsList(roster) /\ IsList(post) /\ IsList(cache[f].regular)
  BY DEF IsPage
<1>3. CASE kind = "team_stats"
  <2> DEFINE g == [n \in DOMAIN roster |->
               IF is_aggregate_only_team_code(roster[n].team)
               THEN Stat(Key("regular_aggregate", roster[n].player, f.year, NONE), n,
                         roster[n].team, roster[n].val)
               ELSE Stat(Key("regular_team_stint", roster[n].player, f.year, roster[n].team), n,
                         NONE, roster[n].val)]
  <2>1. StatsOf(kind, f) = {g[n] : n \in DOMAIN g}
    BY <1>3 DEF StatsOf, normalize_team_season_page
  <2>2. IsFiniteSet(DOMAIN g)
    BY <1>2, ListIsFinite
  <2> HIDE DEF g
  <2> QED BY <2>1, <2>2, RangeIsFinite
<1>4. CASE kind = "player_stats"
  BY <1>2, <1>4, FullSeasonIsFinite DEF StatsOf, normalize_player_page_regular_season
<1>5. CASE kind = "player_postseason_stats"
  <2> DEFINE g == [n \in DOMAIN post |->
               Stat(Key("postseason_team_stint", f.player, post[n].year, post[n].team), n,
                    NONE, post[n].val)]
             T == {g[n] : n \in DOMAIN g}
             full == FullSeason("postseason_aggregate", f.player, post)
  <2>1. IsFiniteSet(T)
    <3>1. IsFiniteSet(DOMAIN g)
      BY <1>2, ListIsFinite
    <3> HIDE DEF g
    <3> QED BY <3>1, RangeIsFinite
  <2>2. IsFiniteSet(full)
    BY <1>2, FullSeasonIsFinite
  <2>3. StatsOf(kind, f) \subseteq full \union T
    BY <1>5 DEF StatsOf, normalize_player_page_postseason, RealRows
  <2> HIDE DEF full, T
  <2>4. IsFiniteSet(full \union T)
    BY <2>1, <2>2, FS_Union
  <2> QED BY <2>3, <2>4, FS_Subset
<1> QED BY <1>1, <1>3, <1>4, <1>5

(* and all that a backfill reads.                                           *)
LEMMA RowsAreFinite ==
  ASSUME Typed, NEW kind \in Kinds
  PROVE  IsFiniteSet(RowsOf(kind))
<1>1. \A f \in PagesOf(kind) : f \in Files /\ IsPage(cache[f])
  BY Listings
<1>2. IsFiniteSet(PagesOf(kind))
  BY <1>1, FS_Subset, StatsAuditAssumption
<1> DEFINE g == [f \in PagesOf(kind) |-> {<<f, s>> : s \in StatsOf(kind, f)}]
           T == {g[f] : f \in DOMAIN g}
<1>3. IsFiniteSet(T)
  <2>1. IsFiniteSet(DOMAIN g)
    BY <1>2
  <2> HIDE DEF g
  <2> QED BY <2>1, RangeIsFinite
<1>4. ASSUME NEW f \in PagesOf(kind)
      PROVE  IsFiniteSet({<<f, s>> : s \in StatsOf(kind, f)})
  <2> DEFINE h == [s \in StatsOf(kind, f) |-> <<f, s>>]
  <2>1. IsFiniteSet(DOMAIN h)
    BY <1>1, StatsAreFinite
  <2>2. {<<f, s>> : s \in StatsOf(kind, f)} = {h[s] : s \in DOMAIN h}
    OBVIOUS
  <2> HIDE DEF h
  <2> QED BY <2>1, <2>2, RangeIsFinite
<1>5. \A S \in T : IsFiniteSet(S)
  BY <1>4
<1>6. RowsOf(kind) = UNION T
  BY DEF RowsOf
<1> HIDE DEF T
<1> QED BY <1>3, <1>5, <1>6, FS_UNION

(* Rows that do not collide have keys of their own.                         *)
DueKeys(kind) == {r[2].key : r \in Due(kind)}

(* Rows that do not collide have one key each: a clean report counts the    *)
(* keys it has written.                                                     *)
LEMMA KeysAreCounted ==
  ASSUME Typed, NEW kind \in Kinds,
         \A f \in PagesOf(kind) : OwnTeam(f),
         \A r \in Due(kind) : ~Collides(kind, r[1], r[2])
  PROVE  /\ IsFiniteSet(Due(kind)) /\ IsFiniteSet(DueKeys(kind))
         /\ Cardinality(DueKeys(kind)) = Cardinality(Due(kind))
<1> DEFINE S == Due(kind)
           T == DueKeys(kind)
           g == [r \in S |-> r[2].key]
<1>1. IsFiniteSet(S)
  BY RowsAreFinite, FS_Subset DEF Due
<1>2. \A f \in PagesOf(kind) :
        /\ f \in Files /\ f.named /\ IsPage(cache[f])
        /\ f.kind = IF kind = "team_stats" THEN "team" ELSE "player"
  BY Listings DEF PagesOf, ValidTeamEntries, discover_player_cache_entries, Listed
<1>3. \A r \in S : r = <<r[1], r[2]>> /\ r[1] \in PagesOf(kind) /\ r[2] \in StatsOf(kind, r[1])
  BY DEF Due, RowsOf
<1>4. \A r \in S : /\ kind = "team_stats" => /\ r[2].key.team = r[1].team
                                             /\ r[2].key.year = r[1].year
                   /\ kind # "team_stats" => r[2].key.player = r[1].player
  BY <1>2, <1>3, StatShape
<1>5. ASSUME NEW r \in S, NEW q \in S, r[2].key = q[2].key
      PROVE  r = q
  <2>1. /\ kind = "team_stats" => r[1].team = q[1].team /\ r[1].year = q[1].year
        /\ kind # "team_stats" => r[1].player = q[1].player
    BY <1>4, <1>5
  <2>2. r[1].kind = q[1].kind /\ SameSource(r[1], q[1])
    BY <1>2, <1>3, <2>1 DEF SameSource
  <2>3. r[1] = q[1]
    BY <1>2, <1>3, <2>2, StatsAuditAssumption
  <2>4. r[2] = q[2]
    BY <1>3, <1>5, <2>3 DEF Collides
  <2> QED BY <1>3, <2>3, <2>4
<1>6. g \in Bijection(S, T)
  <2>1. g \in [S -> T]
    BY DEF DueKeys
  <2>2. \A r, q \in S : g[r] = g[q] => r = q
    BY <1>5
  <2>3. \A t \in T : \E r \in S : g[r] = t
    BY DEF DueKeys
  <2> QED BY <2>1, <2>2, <2>3 DEF Bijection, Injection, IsInjective, Surjection
<1>7. ExistsBijection(S, T)
  BY <1>6 DEF ExistsBijection
<1> HIDE DEF S, T, g
<1>8. IsFiniteSet(T) /\ Cardinality(T) = Cardinality(S)
  BY <1>1, <1>7, FS_Bijection
<1> QED BY <1>1, <1>8 DEF S, T

-----------------------------------------------------------------------------
(* The invariant behind it, part by part.                                   *)

(* A row of the current parser is of a loaded season and has its core row.  *)
Scoped == \A k \in Persisted : table[k].current => SeasonIn(k.year) /\ HasGrain(k)

(* A clean last run over all that there is has loaded what it had to.       *)
RanOver(kind) ==
  /\ reports[kind].total = Cardinality(Due(kind))
  /\ \A r \in Due(kind) : r[2].key \in Persisted /\ ~Collides(kind, r[1], r[2])

Ran ==
  /\ complete \subseteq Kinds /\ DOMAIN reports = Kinds /\ DOMAIN table = AllKeys
  /\ \A kind \in complete : reports[kind] # NONE /\ (reports[kind].clean => RanOver(kind))

(* What an artifact complains about is there to be seen: no file that a     *)
(* complaint is about was read with rows in it, and every season without an *)
(* explanation is on a page that was read.                                  *)
Grounded(a) ==
  /\ \A f \in a.source_issues : /\ f \in Files /\ Present(f)
                                /\ \A p \in a.digest : p[1] = f => ~_has_any_rows(p[2])
  /\ \A u \in a.unexplained : \E p \in a.digest : \E dim \in Dims :
       /\ p[1].kind # "team"
       /\ \/ u \in _classify_aggregate(dim, p[1].player, p[2].regular).unexplained
          \/ u \in _classify_aggregate(dim, p[1].player, p[2].postseason).unexplained

Sources ==
  /\ artifact # NONE => Grounded(artifact)
  /\ audit.pc # "idle" /\ audit.oracle # NONE => Grounded(audit.oracle)
  /\ build.pc = "read" => \A f \in build.players : f.kind = "player"

ScopeIsKept ==
  audit.pc \in {"compare", "done"} /\ audit.issues = {} /\ ~touched =>
    audit.scope = core.seasons

(* An honest load, but for the artifact that the audit has read.            *)
HonestTables ==
  /\ \A f \in Files : Sound(f)
  /\ \A s \in Said({<<f, cache[f]>> : f \in {g \in Files : Present(g)}}) :
       s.key.year \in core.seasons =>
         /\ HasGrain(s.key) /\ s.val = "ok"
         /\ s.code \in core.teams \union {NONE} \/ is_multi_team_marker(s.code)
  /\ complete = Kinds /\ \A kind \in Kinds : reports[kind].clean
  /\ \A k \in Persisted : table[k].current
  /\ core.seasons # {}

HonestOracle == audit.oracle # NONE /\ audit.oracle.digest = compute_cache_fingerprint

NoAlarm ==
  audit.pc # "idle" /\ ~touched /\ HonestTables /\ HonestOracle => audit.issues = {}

JInv == IInv /\ Scoped /\ Ran /\ Sources /\ ScopeIsKept /\ NoAlarm

(* The invariant implies that an honest load passes.                        *)
LEMMA NoAlarmIsEnough == JInv => HonestLoadPasses
BY DEF JInv, NoAlarm, HonestLoadPasses, HonestLoad, HonestTables, HonestOracle, AuditShape, IInv

-----------------------------------------------------------------------------
(* What an honest load looks like.                                          *)

(* With honest tables every page is readable, of its own team, listed by    *)
(* its backfill, and the cache is exactly these pages.                      *)
LEMMA HonestPages ==
  ASSUME Typed, HonestTables
  PROVE  /\ \A f \in Files : Present(f) =>
              /\ OwnTeam(f) /\ ~Blank(f) /\ IsPage(cache[f])
              /\ f \in (IF f.kind = "team" THEN ValidTeamEntries
                                           ELSE discover_player_cache_entries)
         /\ LivePages = {<<f, cache[f]>> : f \in {g \in Files : Present(g)}}
<1>1. ASSUME NEW f \in Files, Present(f)
      PROVE  /\ OwnTeam(f) /\ ~Blank(f) /\ IsPage(cache[f])
             /\ f \in (IF f.kind = "team" THEN ValidTeamEntries
                                          ELSE discover_player_cache_entries)
  <2>1. Sound(f) /\ f.kind \in {"player", "team"}
    BY StatsAuditAssumption DEF HonestTables
  <2>2. f.named /\ cache[f].readable /\ ~Blank(f) /\ OwnTeam(f)
    BY <1>1, <2>1 DEF Sound, OwnTeam
  <2>3. IsPage(cache[f])
    BY <1>1, StatsAuditAssumption DEF Typed, Present
  <2> QED BY <1>1, <2>1, <2>2, <2>3 DEF ValidTeamEntries, discover_player_cache_entries, Listed
<1>2. LivePages = {<<f, cache[f]>> : f \in {g \in Files : Present(g)}}
  <2>1. discover_player_cache_entries \union ValidTeamEntries = {g \in Files : Present(g)}
    BY <1>1 DEF ValidTeamEntries, discover_player_cache_entries, Listed
  <2> QED BY <2>1 DEF LivePages
<1> QED BY <1>1, <1>2

(* Every row was read on a page, under a key of its producer's tables, and  *)
(* says what that page says.                                                *)
LEMMA HonestRows ==
  ASSUME JInv, HonestTables, NEW k \in Persisted
  PROVE  \E kind \in Kinds : \E r \in Due(kind) :
           /\ r[2].key = k /\ table[k].by = Producer[kind]
           /\ table[k].code = r[2].code /\ table[k].val = r[2].val
           /\ expected_parser_producer(k.dim) = Producer[kind]
           /\ ~is_synthetic_team_code(k.team)
           /\ k.team = NONE => is_multi_team_marker(r[2].code) \/ r[2].code # NONE
           /\ Untagged(r[2]) \in Said(LivePages)
<1>1. table[k].current
  BY DEF HonestTables
<1>2. PICK kind \in Kinds : \E f \in PagesOf(kind) : \E s \in StatsOf(kind, f) :
        FromPage(k, kind, f, s)
  BY <1>1 DEF JInv, IInv, Lineage
<1>3. PICK f \in PagesOf(kind) : \E s \in StatsOf(kind, f) : FromPage(k, kind, f, s)
  BY <1>2
<1>4. PICK s \in StatsOf(kind, f) : FromPage(k, kind, f, s)
  BY <1>3
<1>5. /\ f \in Files /\ IsPage(cache[f]) /\ <<f, cache[f]>> \in LivePages
      /\ f.kind = IF kind = "team_stats" THEN "team" ELSE "player"
  BY Listings DEF JInv, IInv
<1>6. Present(f)
  BY DEF PagesOf, ValidTeamEntries, discover_player_cache_entries, Listed
<1>7. OwnTeam(f)
  BY <1>5, <1>6, HonestPages DEF JInv, IInv
<1>8. /\ s.key = k /\ table[k].by = Producer[kind]
      /\ table[k].code = s.code /\ table[k].val = s.val
  BY <1>4 DEF FromPage
<1>9. /\ expected_parser_producer(k.dim) = Producer[kind]
      /\ ~is_synthetic_team_code(k.team)
      /\ k.team = NONE => is_multi_team_marker(s.code) \/ s.code # NONE
  BY <1>5, <1>7, <1>8, StatShape
<1>10. Untagged(s) \in Says(f, cache[f])
  BY <1>5, <1>8, <1>9, LoadedIsSaid
<1>11. Untagged(s) \in Said(LivePages)
  BY <1>5, <1>10 DEF Said
<1> DEFINE r == <<f, s>>
<1>12. r \in RowsOf(kind) /\ r[2] = s
  BY DEF RowsOf
<1>13. SeasonIn(k.year) /\ HasGrain(k)
  BY <1>1 DEF JInv, Scoped
<1>14. r \in Due(kind)
  BY <1>8, <1>12, <1>13 DEF Due
<1> HIDE DEF r
<1> QED BY <1>8, <1>9, <1>11, <1>12, <1>14

(* The tables hold the keys that the pages imply for the loaded seasons.    *)
LEMMA HonestKeys ==
  ASSUME JInv, HonestTables
  PROVE  /\ Persisted = {k \in KeysOf(Said(LivePages)) : k.year \in core.seasons}
         /\ Persisted = UNION {DueKeys(kind) : kind \in Kinds}
<1>1. \A kind \in Kinds : DueKeys(kind) \subseteq Persisted
  <2> SUFFICES ASSUME NEW kind \in Kinds, NEW r \in Due(kind) PROVE r[2].key \in Persisted
    BY DEF DueKeys
  <2>1. kind \in complete /\ reports[kind].clean
    BY DEF HonestTables
  <2>2. RanOver(kind)
    BY <2>1 DEF JInv, Ran
  <2> QED BY <2>2 DEF RanOver
<1>2. ASSUME NEW k \in Persisted
      PROVE  /\ \E kind \in Kinds : k \in DueKeys(kind)
             /\ k \in KeysOf(Said(LivePages)) /\ k.year \in core.seasons
  <2>1. PICK kind \in Kinds : \E r \in Due(kind) :
          r[2].key = k /\ Untagged(r[2]) \in Said(LivePages)
    BY HonestRows
  <2>2. PICK r \in Due(kind) : r[2].key = k /\ Untagged(r[2]) \in Said(LivePages)
    BY <2>1
  <2>3. k \in DueKeys(kind) /\ k.year \in core.seasons
    BY <2>2 DEF DueKeys, Due, SeasonIn
  <2>4. Untagged(r[2]).key = k
    BY <2>2 DEF Untagged
  <2>5. k \in KeysOf(Said(LivePages))
    BY <2>2, <2>4 DEF KeysOf
  <2> QED BY <2>3, <2>5
<1>3. ASSUME NEW s \in Said(LivePages), s.key.year \in core.seasons
      PROVE  s.key \in Persisted
  <2>1. PICK f \in Files : Present(f) /\ s \in Says(f, cache[f])
    <3>1. \A f : Says(<<f, cache[f]>>[1], <<f, cache[f]>>[2]) = Says(f, cache[f])
      OBVIOUS
    <3>2. \A p \in LivePages : \E f \in Files : Present(f) /\ Says(p[1], p[2]) = Says(f, cache[f])
      BY <3>1, HonestPages DEF JInv, IInv
    <3> QED BY <3>2 DEF Said
  <2>2. /\ OwnTeam(f) /\ IsPage(cache[f]) /\ f.kind \in {"player", "team"}
        /\ f \in (IF f.kind = "team" THEN ValidTeamEntries
                                     ELSE discover_player_cache_entries)
    BY <2>1, HonestPages, StatsAuditAssumption DEF JInv, IInv
  <2>3. PICK kind \in Kinds :
          /\ f.kind = IF kind = "team_stats" THEN "team" ELSE "player"
          /\ \E t \in StatsOf(kind, f) : t.key = s.key
    BY <2>1, <2>2, SaidIsRead
  <2>4. PICK t \in StatsOf(kind, f) : t.key = s.key
    BY <2>3
  <2>5. f \in PagesOf(kind)
    BY <2>2, <2>3 DEF PagesOf
  <2>6. HasGrain(s.key)
    BY <1>3, HonestPages DEF HonestTables, JInv, IInv
  <2> DEFINE r == <<f, t>>
  <2>7. r \in RowsOf(kind) /\ r[2].key = s.key
    BY <2>4, <2>5 DEF RowsOf
  <2>8. r \in Due(kind)
    BY <1>3, <2>6, <2>7 DEF Due, SeasonIn
  <2> HIDE DEF r
  <2>9. s.key \in DueKeys(kind)
    BY <2>7, <2>8 DEF DueKeys
  <2> QED BY <1>1, <2>9
<1>4. Persisted = {k \in KeysOf(Said(LivePages)) : k.year \in core.seasons}
  BY <1>2, <1>3 DEF KeysOf
<1> QED BY <1>1, <1>2, <1>4

(* And as many of them as the three reports count.                          *)
LEMMA HonestCount ==
  ASSUME JInv, HonestTables
  PROVE  reports["team_stats"].total + reports["player_stats"].total
           + reports["player_postseason_stats"].total = Cardinality(Persisted)
<1> DEFINE a == DueKeys("team_stats")
           b == DueKeys("player_stats")
           c == DueKeys("player_postseason_stats")
<1>1. Kinds = {"team_stats", "player_stats", "player_postseason_stats"}
  BY DEF Kinds, Producer
<1>2. \A kind \in Kinds : \A f \in PagesOf(kind) : OwnTeam(f) /\ IsPage(cache[f])
        /\ f.kind = IF kind = "team_stats" THEN "team" ELSE "player"
  <2>1. \A kind \in Kinds : \A f \in PagesOf(kind) : f \in Files /\ Present(f)
    BY DEF PagesOf, ValidTeamEntries, discover_player_cache_entries, Listed
  <2> QED BY <2>1, HonestPages, Listings DEF JInv, IInv
<1>3. \A kind \in Kinds : RanOver(kind)
  BY DEF JInv, Ran, HonestTables
<1>4. \A kind \in Kinds : /\ IsFiniteSet(DueKeys(kind))
                          /\ Cardinality(DueKeys(kind)) = reports[kind].total
  BY <1>2, <1>3, KeysAreCounted DEF RanOver, JInv, IInv
<1>5. ASSUME NEW kind \in Kinds, NEW k \in DueKeys(kind)
      PROVE  expected_parser_producer(k.dim) = Producer[kind]
  <2>1. PICK r \in Due(kind) : k = r[2].key
    BY DEF DueKeys
  <2>2. r[1] \in PagesOf(kind) /\ r[2] \in StatsOf(kind, r[1])
    BY DEF Due, RowsOf
  <2> QED BY <1>2, <2>1, <2>2, StatShape
<1>6. a \cap b = {} /\ (a \union b) \cap c = {}
  BY <1>1, <1>5 DEF Producer
<1>7. Persisted = (a \union b) \union c
  BY <1>1, HonestKeys
<1>8. /\ IsFiniteSet(a) /\ IsFiniteSet(b) /\ IsFiniteSet(c)
      /\ Cardinality(a) = reports["team_stats"].total
      /\ Cardinality(b) = reports["player_stats"].total
      /\ Cardinality(c) = reports["player_postseason_stats"].total
  BY <1>1, <1>4
<1> HIDE DEF a, b, c
<1>9. Cardinality(a) \in Nat /\ Cardinality(b) \in Nat /\ Cardinality(c) \in Nat
  BY <1>8, FS_CardinalityType
<1>10. Cardinality({}) = 0
  BY FS_EmptySet
<1>11. IsFiniteSet(a \union b) /\ Cardinality(a \union b) = Cardinality(a) + Cardinality(b)
  <2>1. IsFiniteSet(a \union b)
        /\ Cardinality(a \union b) = Cardinality(a) + Cardinality(b) - Cardinality(a \cap b)
    BY <1>8, FS_Union
  <2>2. Cardinality(a \cap b) = 0
    BY <1>6, <1>10
  <2> QED BY <1>9, <2>1, <2>2
<1>12. Cardinality((a \union b) \union c) = Cardinality(a) + Cardinality(b) + Cardinality(c)
  <2>1. Cardinality((a \union b) \union c)
          = Cardinality(a \union b) + Cardinality(c) - Cardinality((a \union b) \cap c)
    BY <1>8, <1>11, FS_Union
  <2>2. Cardinality((a \union b) \cap c) = 0
    BY <1>6, <1>10
  <2> QED BY <1>9, <1>11, <2>1, <2>2
<1> QED BY <1>7, <1>8, <1>12

(* So the first checks of the audit find nothing.                           *)
LEMMA NoCondition ==
  ASSUME NEW condition, NEW code, ~condition
  PROVE  When(condition, code) = {}
BY DEF When

(* The checks of the rows find nothing in honest tables.                    *)
LEMMA HonestTablesPass ==
  ASSUME JInv, HonestTables
  PROVE  /\ _team_stint_synthetic_code_issues = {}
         /\ _aggregate_source_team_code_issues = {}
         /\ _regular_postseason_separation_issues = {}
         /\ _parser_version_issues = {} /\ _row_content_issues = {}
<1>1. ASSUME NEW k \in Persisted
      PROVE  /\ ~is_synthetic_team_code(k.team)
             /\ table[k].by = expected_parser_producer(k.dim)
             /\ table[k].current /\ table[k].val = "ok"
             /\ k.team = NONE => \/ is_multi_team_marker(table[k].code)
                                 \/ table[k].code \in core.teams
  <2>1. PICK kind \in Kinds : \E r \in Due(kind) :
           /\ r[2].key = k /\ table[k].by = Producer[kind]
           /\ table[k].code = r[2].code /\ table[k].val = r[2].val
           /\ expected_parser_producer(k.dim) = Producer[kind]
           /\ ~is_synthetic_team_code(k.team)
           /\ k.team = NONE => is_multi_team_marker(r[2].code) \/ r[2].code # NONE
           /\ Untagged(r[2]) \in Said(LivePages)
    BY HonestRows
  <2>2. PICK r \in Due(kind) :
           /\ r[2].key = k /\ table[k].by = Producer[kind]
           /\ table[k].code = r[2].code /\ table[k].val = r[2].val
           /\ expected_parser_producer(k.dim) = Producer[kind]
           /\ ~is_synthetic_team_code(k.team)
           /\ k.team = NONE => is_multi_team_marker(r[2].code) \/ r[2].code # NONE
           /\ Untagged(r[2]) \in Said(LivePages)
    BY <2>1
  <2> DEFINE u == Untagged(r[2])
  <2>3. u \in Said(LivePages) /\ u.key = k /\ u.code = table[k].code /\ u.val = table[k].val
    BY <2>2 DEF Untagged
  <2>4. k.year \in core.seasons
    BY <2>2 DEF Due, SeasonIn
  <2> HIDE DEF u
  <2>5. /\ u.val = "ok"
        /\ u.code \in core.teams \union {NONE} \/ is_multi_team_marker(u.code)
    BY <2>3, <2>4, HonestPages DEF HonestTables, JInv, IInv
  <2>6. k.team = NONE => is_multi_team_marker(table[k].code) \/ table[k].code # NONE
    BY <2>2
  <2>7. table[k].current
    BY DEF HonestTables
  <2> QED BY <2>2, <2>3, <2>5, <2>6, <2>7
<1>2. _team_stint_synthetic_code_issues = {}
  BY <1>1, NoCondition DEF _team_stint_synthetic_code_issues
<1>3. _aggregate_source_team_code_issues = {}
  BY <1>1, NoCondition DEF _aggregate_source_team_code_issues
<1>4. _regular_postseason_separation_issues = {}
  <2>1. \A k \in Persisted : (expected_parser_producer(k.dim) = "player_page_postseason")
                               <=> (table[k].by = "player_page_postseason")
    BY <1>1
  <2> QED BY <2>1, NoCondition DEF _regular_postseason_separation_issues
<1>5. _parser_version_issues = {}
  <2>1. When(\E k \in Persisted : table[k].by # expected_parser_producer(k.dim),
             "wrong_producer_parser_version") = {}
    BY <1>1, NoCondition
  <2>2. When(\E k \in Persisted : ~table[k].current, "stale_parser_version") = {}
    BY <1>1, NoCondition
  <2> QED BY <2>1, <2>2 DEF _parser_version_issues
<1>6. _row_content_issues = {}
  BY <1>1, NoCondition DEF _row_content_issues
<1> QED BY <1>2, <1>3, <1>4, <1>5, <1>6

(* The comparison with the reports, given all of them or none, finds        *)
(* nothing.                                                                 *)
LEMMA HonestReportsPass ==
  ASSUME JInv, HonestTables, NEW given \in {{}, {kind \in Kinds : reports[kind] # NONE}}
  PROVE  _backfill_report_issues([kind \in given |-> reports[kind]]) = {}
<1> DEFINE r == [kind \in given |-> reports[kind]]
<1>1. DOMAIN r = given /\ \A kind \in given : r[kind] = reports[kind]
  OBVIOUS
<1> HIDE DEF r
<1>2. CASE given = {}
  BY <1>1, <1>2 DEF _backfill_report_issues, r
<1>3. CASE given = {kind \in Kinds : reports[kind] # NONE}
  <2>1. \A kind \in Kinds : reports[kind] # NONE /\ reports[kind].clean
    BY DEF JInv, Ran, HonestTables
  <2>2. given = Kinds
    BY <1>3, <2>1
  <2>3. Kinds = {"team_stats", "player_stats", "player_postseason_stats"}
    BY DEF Kinds, Producer
  <2>4. reported_total_rows(r) = Cardinality(Persisted)
    BY <1>1, <2>2, <2>3, HonestCount DEF reported_total_rows
  <2>5. _report_failure_counter_issues(r) = {}
    BY <1>1, <2>1, <2>2, NoCondition DEF _report_failure_counter_issues
  <2>6. When(DOMAIN r # Kinds, "stats_backfill_report_missing_producer") = {}
    BY <1>1, <2>2, NoCondition
  <2>7. When(DOMAIN r = Kinds /\ reported_total_rows(r) # Cardinality(Persisted),
             "backfill_row_mismatch") = {}
    BY <2>4, NoCondition
  <2> QED BY <2>5, <2>6, <2>7 DEF _backfill_report_issues, r
<1> QED BY <1>2, <1>3

(* An artifact of the pages that are there now has nothing to complain of:  *)
(* every season has its full-season row, or was not played.                 *)
LEMMA HonestOraclePasses ==
  ASSUME JInv, HonestTables, HonestOracle, audit.pc # "idle"
  PROVE  audit.oracle.source_issues = {} /\ audit.oracle.unexplained = {}
<1> DEFINE o == audit.oracle
<1>1. o # NONE /\ Grounded(o)
  BY DEF HonestOracle, JInv, Sources
<1>2. o.digest = LivePages
  BY DEF HonestOracle, LivePages, compute_cache_fingerprint, _fingerprint_from_rows
<1>3. \A p \in LivePages : \E f \in Files : p = <<f, cache[f]>> /\ Present(f)
  BY HonestPages DEF JInv, IInv
<1>4. \A f \in Files : Present(f) =>
        <<f, cache[f]>> \in LivePages /\ ~Blank(f) /\ IsPage(cache[f])
  BY HonestPages DEF JInv, IInv
<1>5. o.source_issues = {}
  <2> SUFFICES ASSUME NEW f \in o.source_issues PROVE FALSE
    OBVIOUS
  <2> DEFINE p == <<f, cache[f]>>
  <2>1. f \in Files /\ Present(f) /\ (p \in LivePages => ~_has_any_rows(cache[f]))
    BY <1>1, <1>2 DEF Grounded
  <2> QED BY <1>4, <2>1 DEF Blank
<1>6. ASSUME NEW f \in Files, Present(f), NEW rows \in {cache[f].regular, cache[f].postseason},
             NEW dim \in Dims
      PROVE  _classify_aggregate(dim, f.player, rows).unexplained = {}
  <2>1. IsList(rows)
    BY <1>4, <1>6 DEF IsPage
  <2>2. ASSUME NEW y \in Years(rows)
        PROVE  Expected(rows, y) \/ DidNotPlay(rows, y)
    <3>1. \/ \E n \in InSeason(rows, y) : IsFullSeason(rows, n)
          \/ DidNotPlay(rows, y)
      BY <1>6 DEF HonestTables, Sound
    <3>2. Expected(rows, y) <=> \E n \in InSeason(rows, y) : IsFullSeason(rows, n)
      BY <2>1, FullSeasonRows
    <3> QED BY <3>1, <3>2
  <2> QED BY <2>2 DEF _classify_aggregate
<1>7. o.unexplained = {}
  <2> SUFFICES ASSUME NEW u \in o.unexplained PROVE FALSE
    OBVIOUS
  <2>1. PICK p \in LivePages : \E dim \in Dims :
       /\ p[1].kind # "team"
       /\ \/ u \in _classify_aggregate(dim, p[1].player, p[2].regular).unexplained
          \/ u \in _classify_aggregate(dim, p[1].player, p[2].postseason).unexplained
    BY <1>1, <1>2 DEF Grounded
  <2>2. PICK dim \in Dims :
          \/ u \in _classify_aggregate(dim, p[1].player, p[2].regular).unexplained
          \/ u \in _classify_aggregate(dim, p[1].player, p[2].postseason).unexplained
    BY <2>1
  <2>3. PICK f \in Files : p = <<f, cache[f]>> /\ Present(f)
    BY <1>3
  <2>4. p[1] = f /\ p[2] = cache[f]
    BY <2>3
  <2> QED BY <1>6, <2>2, <2>3, <2>4
<1> QED BY <1>5, <1>7

-----------------------------------------------------------------------------
(* Each step keeps the invariant.                                           *)

(* Initially no backfill is complete and no audit runs.                     *)
LEMMA InitJInv == Init => JInv
<1> SUFFICES ASSUME Init PROVE JInv
  OBVIOUS
<1>1. IInv
  BY InitIInv
<1>2. PICK h \in Histories :
        table = [k \in AllKeys |-> IF k \in DOMAIN h THEN h[k] ELSE NoRow]
  BY DEF Init
<1>3. /\ build = [pc |-> "idle"] /\ artifact = NONE /\ complete = {}
      /\ audit = [pc |-> "idle", issues |-> {}] /\ reports = [kind \in Kinds |-> NONE]
  BY DEF Init, NoBuild, NoAudit
<1>4. \A k \in Persisted : ~table[k].current
  <2>1. \A k \in Persisted : k \in DOMAIN h /\ table[k] = h[k]
    BY <1>2 DEF Persisted
  <2> QED BY <2>1, StatsAuditAssumption
<1>5. audit.pc = "idle" /\ build.pc = "idle"
  BY <1>3
<1>6. DOMAIN table = AllKeys
  BY <1>2
<1> QED BY <1>1, <1>3, <1>4, <1>5, <1>6 DEF JInv, Scoped, Ran, Sources, ScopeIsKept, NoAlarm

(* A change beside a running audit is remembered: no alarm is due.          *)
LEMMA TouchedJInv ==
  ASSUME JInv, Touch, UNCHANGED <<audit, artifact, build>>,
         \A f \in Files : Present(f) => Present(f)', IInv', Scoped', Ran'
  PROVE  JInv'
<1>1. \A a : Grounded(a) => Grounded(a)'
  BY DEF Grounded
<1>2. Sources'
  BY <1>1 DEF JInv, Sources
<1>3. audit.pc # "idle" => touched'
  BY DEF Touch
<1>4. ScopeIsKept' /\ NoAlarm'
  BY <1>3 DEF ScopeIsKept, NoAlarm
<1> QED BY <1>2, <1>4 DEF JInv

(* After a new page no load is complete any more.                           *)
LEMMA AddPageJInv ==
  ASSUME JInv, NEW f \in Files, AddPage(f)
  PROVE  JInv'
<1>1. PICK page \in MayHold[f] : cache' = [cache EXCEPT ![f] = page]
  BY DEF AddPage
<1>2. UNCHANGED <<core, table, reports, audit, artifact, build>> /\ Touch /\ complete' = {}
  BY DEF AddPage, database, disk
<1>3. IInv'
  BY AddPageIInv DEF JInv
<1>4. page # NONE
  BY StatsAuditAssumption DEF IsPage
<1>5. \A g \in Files : Present(g) => Present(g)'
  BY <1>1, <1>4 DEF Present, JInv, IInv, Typed
<1>6. Scoped'
  BY <1>2 DEF JInv, Scoped, Persisted, NoRow, SeasonIn, HasGrain
<1>7. Ran'
  BY <1>2 DEF JInv, Ran
<1> QED BY <1>2, <1>3, <1>5, <1>6, <1>7, TouchedJInv

(* Nor is one after a core load.                                            *)
LEMMA LoadCoreJInv ==
  ASSUME JInv, LoadCore
  PROVE  JInv'
<1>1. UNCHANGED <<cache, table, reports, audit, artifact, build>> /\ Touch /\ complete' = {}
  BY DEF LoadCore, disk
<1>2. IInv'
  BY LoadCoreIInv DEF JInv
<1>3. \A g \in Files : Present(g) => Present(g)'
  BY <1>1 DEF Present
<1>4. /\ core.seasons \subseteq core'.seasons /\ core.players \subseteq core'.players
      /\ core.stints \subseteq core'.stints
  BY DEF LoadCore
<1>5. Scoped'
  BY <1>1, <1>4 DEF JInv, Scoped, Persisted, NoRow, SeasonIn, HasGrain
<1>6. Ran'
  BY <1>1 DEF JInv, Ran
<1> QED BY <1>1, <1>2, <1>3, <1>5, <1>6, TouchedJInv

(* What a backfill loads, it had to load; and all of it if it ends clean.   *)
LEMMA DueKeysExist ==
  ASSUME Typed, NEW kind \in Kinds, NEW r \in Due(kind)
  PROVE  r[2].key \in AllKeys
<1> DEFINE stats(f, page) ==
             IF f.kind = "team" THEN normalize_team_season_page(f, page)
             ELSE normalize_player_page_regular_season(f.player, page)
                  \union normalize_player_page_postseason(f.player, page)
           all == UNION {UNION {stats(f, page) : page \in MayHold[f]} : f \in Files}
           old == UNION {DOMAIN h : h \in Histories}
<1>1. AllKeys = old \union {s.key : s \in all}
  BY DEF AllKeys
<1>2. PICK f \in PagesOf(kind) : r[2] \in StatsOf(kind, f)
  BY DEF Due, RowsOf
<1>3. /\ f \in Files /\ cache[f] \in MayHold[f]
      /\ f.kind = IF kind = "team_stats" THEN "team" ELSE "player"
  <2>1. cache[f] # NONE
    BY DEF PagesOf, ValidTeamEntries, discover_player_cache_entries, Listed, Present
  <2> QED BY <2>1, Listings DEF Typed
<1>4. r[2] \in stats(f, cache[f])
  BY <1>2, <1>3 DEF StatsOf
<1>5. r[2] \in all
  <2> HIDE DEF stats
  <2> QED BY <1>3, <1>4
<1> HIDE DEF all, old
<1> QED BY <1>1, <1>5

(* What a backfill does to rows and reports: a clean one has written every  *)
(* row that is due, each under a key of its own.                            *)
LEMMA LoadIsDue ==
  ASSUME JInv, NEW kind \in Kinds, NEW failed, Load(kind, PagesOf(kind), failed)
  PROVE  /\ \A k \in DOMAIN table : \/ table'[k] = table[k]
                                    \/ SeasonIn(k.year) /\ HasGrain(k)
         /\ DOMAIN reports' = Kinds /\ reports'[kind] # NONE
         /\ \A other \in Kinds \ {kind} : reports'[other] = reports[other]
         /\ reports'[kind].clean =>
              /\ reports'[kind].total = Cardinality(Due(kind))
              /\ \A r \in Due(kind) : r[2].key \in Persisted' /\ ~Collides(kind, r[1], r[2])
<1> DEFINE rows == UNION {{<<f, s>> : s \in StatsOf(kind, f)} : f \in PagesOf(kind)}
           of(outcome) == {r \in rows : Outcome(kind, r[1], r[2], failed) = outcome}
           of_key(k) == {r \in of("loaded") : r[2].key = k}
<1>1. /\ table' = [k \in DOMAIN table |->
           IF of_key(k) = {} THEN table[k]
           ELSE LET r == CHOOSE q \in of_key(k) : TRUE
                IN  [by |-> Producer[kind], current |-> TRUE,
                     code |-> r[2].code, val |-> r[2].val]]
      /\ reports' = [reports EXCEPT ![kind] =
           [total |-> Cardinality(of("loaded")),
            clean |-> of("failed") \union of("unresolved") = {}]]
  BY DEF Load
<1>2. rows = RowsOf(kind) /\ IsFiniteSet(RowsOf(kind))
  BY RowsAreFinite DEF RowsOf, JInv, IInv
<1>3. /\ \A o : of(o) = {r \in rows : Outcome(kind, r[1], r[2], failed) = o}
      /\ \A k : of_key(k) = {r \in of("loaded") : r[2].key = k}
  OBVIOUS
<1> HIDE DEF rows, of, of_key
<1>4. \A r \in rows :
        /\ Outcome(kind, r[1], r[2], failed) = "loaded" =>
             SeasonIn(r[2].key.year) /\ HasGrain(r[2].key)
        /\ SeasonIn(r[2].key.year) /\ HasGrain(r[2].key) =>
             \/ Outcome(kind, r[1], r[2], failed) = "failed"
             \/ Outcome(kind, r[1], r[2], failed) = "loaded" /\ ~Collides(kind, r[1], r[2])
  BY DEF Outcome
<1>5. \A k : of_key(k) # {} => SeasonIn(k.year) /\ HasGrain(k)
  BY <1>3, <1>4
<1>6. /\ DOMAIN reports' = Kinds
      /\ reports'[kind] = [total |-> Cardinality(of("loaded")),
                           clean |-> of("failed") \union of("unresolved") = {}]
      /\ \A other \in Kinds \ {kind} : reports'[other] = reports[other]
  BY <1>1 DEF JInv, Ran
<1>7. reports'[kind] # NONE
  <2>1. IsFiniteSet(of("loaded"))
    BY <1>2, <1>3, FS_Subset
  <2>2. Cardinality(of("loaded")) \in Nat
    BY <2>1, FS_CardinalityType
  <2>3. reports'[kind] \in [total : Nat, clean : BOOLEAN]
    BY <1>6, <2>2
  <2> QED BY <2>3, StatsAuditAssumption
<1>8. ASSUME reports'[kind].clean
      PROVE  /\ reports'[kind].total = Cardinality(Due(kind))
             /\ \A r \in Due(kind) : r[2].key \in Persisted' /\ ~Collides(kind, r[1], r[2])
  <2>1. of("failed") = {}
    <3> DEFINE b == of("failed") \union of("unresolved") = {}
    <3>1. reports'[kind] = [total |-> Cardinality(of("loaded")), clean |-> b]
      BY <1>6
    <3> HIDE DEF b
    <3>2. reports'[kind].clean = b
      BY <3>1
    <3>3. b
      BY <1>8, <3>2, Zenon
    <3> QED BY <3>3 DEF b
  <2>2. \A r \in Due(kind) : r \in of("loaded") /\ ~Collides(kind, r[1], r[2])
    BY <1>2, <1>3, <1>4, <2>1 DEF Due
  <2>3. of("loaded") = Due(kind)
    BY <1>2, <1>3, <1>4, <2>2 DEF Due
  <2>4. ASSUME NEW r \in Due(kind)
        PROVE  r[2].key \in Persisted'
    <3> DEFINE k == r[2].key
    <3>1. k \in DOMAIN table
      BY DueKeysExist DEF JInv, IInv, Ran
    <3>2. of_key(k) # {}
      BY <1>3, <2>3
    <3>3. k \in DOMAIN table' /\ table'[k].current
      BY <1>1, <3>1, <3>2
    <3> HIDE DEF k
    <3>4. k \in Persisted'
      BY <3>3 DEF Persisted, NoRow
    <3> QED BY <3>4 DEF k
  <2> QED BY <1>6, <2>2, <2>3, <2>4
<1>9. \A k \in DOMAIN table : table'[k] = table[k] \/ of_key(k) # {}
  BY <1>1
<1> QED BY <1>5, <1>6, <1>7, <1>8, <1>9

(* A backfill that ends cleanly is complete, and its report counts what it  *)
(* wrote.                                                                   *)
LEMMA BackfillJInv ==
  ASSUME JInv, NEW kind \in Kinds, Backfill(kind)
  PROVE  JInv'
<1>1. UNCHANGED <<cache, core, audit, artifact, build>> /\ Touch
  BY DEF Backfill
<1>2. IInv'
  BY BackfillIInv DEF JInv
<1>3. PICK failed : Load(kind, PagesOf(kind), failed)
  BY DEF Backfill, PagesOf
<1>4. complete' = complete \union {kind}
  BY <1>3 DEF Load
<1>5. /\ DOMAIN table' = DOMAIN table
      /\ \A k \in DOMAIN table : table'[k] = table[k] \/ table'[k].current
  <2>1. /\ DOMAIN table' = DOMAIN table
        /\ \A k \in DOMAIN table :
             \/ table'[k] = table[k]
             \/ \E f \in PagesOf(kind) : \E s \in StatsOf(kind, f) :
                  /\ s.key = k
                  /\ table'[k] = [by |-> Producer[kind], current |-> TRUE,
                                  code |-> s.code, val |-> s.val]
    BY <1>3, LoadedRows
  <2> QED BY <2>1
<1>6. /\ \A k \in DOMAIN table : \/ table'[k] = table[k]
                                 \/ SeasonIn(k.year) /\ HasGrain(k)
      /\ DOMAIN reports' = Kinds /\ reports'[kind] # NONE
      /\ \A other \in Kinds \ {kind} : reports'[other] = reports[other]
      /\ reports'[kind].clean =>
           /\ reports'[kind].total = Cardinality(Due(kind))
           /\ \A r \in Due(kind) : r[2].key \in Persisted' /\ ~Collides(kind, r[1], r[2])
  BY <1>3, LoadIsDue
<1>7. Persisted \subseteq Persisted'
  BY <1>5 DEF Persisted, NoRow
<1>8. Scoped'
  <2> SUFFICES ASSUME NEW k \in Persisted', table'[k].current
               PROVE  SeasonIn(k.year)' /\ HasGrain(k)'
    BY DEF Scoped
  <2>1. k \in DOMAIN table
    BY <1>5 DEF Persisted
  <2>2. SeasonIn(k.year) /\ HasGrain(k)
    <3>1. CASE table'[k] = table[k]
      BY <2>1, <3>1 DEF JInv, Scoped, Persisted, NoRow
    <3> QED BY <1>6, <2>1, <3>1
  <2> QED BY <1>1, <2>2 DEF SeasonIn, HasGrain
<1>9. \A other \in Kinds : /\ Due(other)' = Due(other)
                           /\ \A f, s : Collides(other, f, s)' <=> Collides(other, f, s)
  <2>1. \A other \in Kinds : \A f : StatsOf(other, f)' = StatsOf(other, f)
    BY <1>1 DEF StatsOf
  <2>2. \A other \in Kinds : PagesOf(other)' = PagesOf(other)
    BY <1>1 DEF PagesOf, ValidTeamEntries, discover_player_cache_entries, Listed, Present
  <2>3. \A k : (SeasonIn(k.year) /\ HasGrain(k))' <=> SeasonIn(k.year) /\ HasGrain(k)
    BY <1>1 DEF SeasonIn, HasGrain
  <2>4. \A other \in Kinds : RowsOf(other)' = RowsOf(other)
    BY <2>1, <2>2 DEF RowsOf
  <2>5. \A other \in Kinds : Due(other)' = Due(other)
    BY <2>3, <2>4 DEF Due
  <2> QED BY <2>1, <2>5 DEF Collides
<1>10. Ran'
  <2>1. ASSUME NEW other \in complete'
        PROVE  reports'[other] # NONE /\ (reports'[other].clean => RanOver(other)')
    <3>1. CASE other = kind
      BY <1>6, <1>9, <3>1 DEF RanOver
    <3>2. CASE other # kind
      <4>1. /\ other \in complete /\ other \in Kinds /\ reports'[other] = reports[other]
            /\ reports[other] # NONE /\ (reports[other].clean => RanOver(other))
        BY <1>4, <1>6, <3>2 DEF JInv, Ran
      <4> QED BY <1>7, <1>9, <4>1 DEF RanOver
    <3> QED BY <3>1, <3>2
  <2> QED BY <1>4, <1>5, <1>6, <2>1 DEF JInv, Ran
<1>11. \A f \in Files : Present(f) => Present(f)'
  BY <1>1 DEF Present
<1> QED BY <1>1, <1>2, <1>8, <1>10, <1>11, TouchedJInv

(* A step that leaves the tables, the cache and the reports as they are.    *)
Quiet == UNCHANGED <<cache, core, table, reports, complete, touched>>

(* A step that leaves cache, tables and reports alone leaves all judgements *)
(* about them.                                                              *)
LEMMA QuietKeeps ==
  ASSUME JInv, Quiet
  PROVE  /\ Scoped' /\ Ran' /\ (HonestTables' <=> HonestTables)
         /\ \A a : Grounded(a)' <=> Grounded(a)
         /\ compute_cache_fingerprint' = compute_cache_fingerprint
<1>1. Scoped'
  BY DEF Quiet, JInv, Scoped, Persisted, NoRow, SeasonIn, HasGrain
<1>2. \A kind \in Kinds : /\ Due(kind)' = Due(kind)
                          /\ \A f, s : Collides(kind, f, s)' <=> Collides(kind, f, s)
  <2>1. \A kind \in Kinds : \A f : StatsOf(kind, f)' = StatsOf(kind, f)
    BY DEF Quiet, StatsOf
  <2>2. \A kind \in Kinds : PagesOf(kind)' = PagesOf(kind)
    BY DEF Quiet, PagesOf, ValidTeamEntries, discover_player_cache_entries, Listed, Present
  <2>3. \A k : (SeasonIn(k.year) /\ HasGrain(k))' <=> SeasonIn(k.year) /\ HasGrain(k)
    BY DEF Quiet, SeasonIn, HasGrain
  <2>4. \A kind \in Kinds : RowsOf(kind)' = RowsOf(kind)
    BY <2>1, <2>2 DEF RowsOf
  <2>5. \A kind \in Kinds : Due(kind)' = Due(kind)
    BY <2>3, <2>4 DEF Due
  <2> QED BY <2>1, <2>5 DEF Collides
<1>3. Persisted' = Persisted
  BY DEF Quiet, Persisted, NoRow
<1>4. Ran'
  <2>1. \A kind \in Kinds : RanOver(kind) => RanOver(kind)'
    BY <1>2, <1>3 DEF Quiet, RanOver
  <2> QED BY <2>1 DEF Quiet, JInv, Ran
<1>5. HonestTables' <=> HonestTables
  <2>1. \A f : Sound(f)' <=> Sound(f)
    BY DEF Quiet, Sound, Present, Blank
  <2>2. {g \in Files : Present(g)}' = {g \in Files : Present(g)}
    BY DEF Quiet, Present
  <2>3. \A k : HasGrain(k)' <=> HasGrain(k)
    BY DEF Quiet, HasGrain
  <2>4. Said({<<f, cache[f]>> : f \in {g \in Files : Present(g)}})'
          = Said({<<f, cache[f]>> : f \in {g \in Files : Present(g)}})
    BY <2>2 DEF Quiet, Said
  <2> QED BY <1>3, <2>1, <2>3, <2>4 DEF Quiet, HonestTables
<1>6. \A a : Grounded(a)' <=> Grounded(a)
  BY DEF Quiet, Grounded, Present
<1>7. compute_cache_fingerprint' = compute_cache_fingerprint
  BY DEF Quiet, compute_cache_fingerprint, _fingerprint_from_rows, ValidTeamEntries,
         discover_player_cache_entries, Listed, Present
<1> QED BY <1>1, <1>4, <1>5, <1>6, <1>7

(* Building the artifact keeps the stronger invariant: it is grounded in    *)
(* pages that are present.                                                  *)
LEMMA BuildJInv ==
  ASSUME JInv, BuildDiscover \/ BuildArtifact \/ BuildCrash
  PROVE  JInv'
<1>1. Quiet /\ UNCHANGED audit
  BY DEF BuildDiscover, BuildArtifact, BuildCrash, Quiet, database, disk, history
<1>2. IInv'
  BY BuildIInv DEF JInv
<1>3. /\ Scoped' /\ Ran' /\ (HonestTables' <=> HonestTables)
      /\ \A a : Grounded(a)' <=> Grounded(a)
      /\ compute_cache_fingerprint' = compute_cache_fingerprint
  BY <1>1, QuietKeeps
<1>4. ScopeIsKept' /\ NoAlarm'
  BY <1>1, <1>3 DEF Quiet, JInv, ScopeIsKept, NoAlarm, HonestOracle
<1>5. artifact' # NONE => Grounded(artifact')
  <2>1. CASE BuildDiscover \/ BuildCrash
    BY <2>1 DEF BuildDiscover, BuildCrash, disk, JInv, Sources
  <2>2. CASE BuildArtifact
    <3> DEFINE pages == build.players \union ValidTeamEntries
               used == {f \in pages : ~Blank(f)}
    <3>1. artifact' =
           [digest |-> {<<f, cache[f]>> : f \in pages},
            keys |-> UNION {Classified(f).keys : f \in used},
            unexplained |-> UNION {Classified(f).unexplained : f \in used},
            source_issues |-> (_scan_unreadable_player_source_issues(build.players)
                              \union BadTeamEntries) \union (pages \ used)]
      BY <2>2 DEF BuildArtifact, _fingerprint_from_rows
    <3>2. build.players \subseteq {f \in Files : Present(f)}
          /\ \A f \in build.players : f.kind = "player"
      BY <2>2 DEF BuildArtifact, JInv, IInv, Building, Sources
    <3>3. \A f \in ValidTeamEntries : f \in Files /\ f.kind = "team" /\ Present(f)
      BY DEF ValidTeamEntries, Listed
    <3>4. ASSUME NEW f \in artifact'.source_issues
          PROVE  /\ f \in Files /\ Present(f)
                 /\ \A p \in artifact'.digest : p[1] = f => ~_has_any_rows(p[2])
      <4>1. ASSUME NEW p \in artifact'.digest, p[1] = f
            PROVE  f \in pages /\ p[2] = cache[f]
        <5>1. p \in {<<g, cache[g]>> : g \in pages}
          BY <3>1
        <5>2. PICK g \in pages : p = <<g, cache[g]>>
          BY <5>1
        <5> QED BY <4>1, <5>2
      <4>2. \/ f \in _scan_unreadable_player_source_issues(build.players)
            \/ f \in BadTeamEntries
            \/ f \in pages \ used
        BY <3>1, <3>4
      <4>3. CASE f \in _scan_unreadable_player_source_issues(build.players)
        <5>1. f \in Files /\ f.kind = "player" /\ Present(f) /\ f \notin build.players
          BY <4>3 DEF _scan_unreadable_player_source_issues
        <5>2. f \notin pages
          BY <3>3, <5>1
        <5> QED BY <4>1, <5>1, <5>2
      <4>4. CASE f \in BadTeamEntries
        <5>1. f \in Files /\ f.kind = "team" /\ Present(f) /\ f \notin ValidTeamEntries
          BY <4>4 DEF BadTeamEntries
        <5>2. f \notin pages
          BY <3>2, <5>1
        <5> QED BY <4>1, <5>1, <5>2
      <4>5. CASE f \in pages \ used
        <5>1. f \in Files /\ Present(f) /\ Blank(f)
          BY <3>2, <3>3, <4>5
        <5> QED BY <4>1, <5>1 DEF Blank
      <4> QED BY <4>2, <4>3, <4>4, <4>5
    <3>5. ASSUME NEW u \in artifact'.unexplained
          PROVE  \E p \in artifact'.digest : \E dim \in Dims :
             /\ p[1].kind # "team"
             /\ \/ u \in _classify_aggregate(dim, p[1].player, p[2].regular).unexplained
                \/ u \in _classify_aggregate(dim, p[1].player, p[2].postseason).unexplained
      <4>1. PICK f \in used : u \in Classified(f).unexplained
        <5> HIDE DEF used
        <5> QED BY <3>1, <3>5
      <4> DEFINE p == <<f, cache[f]>>
      <4>2. p \in artifact'.digest /\ p[1] = f /\ p[2] = cache[f]
        BY <3>1, <4>1
      <4>3. f.kind # "team"
        BY <4>1 DEF Classified
      <4>4. \/ u \in _classify_aggregate("regular_aggregate", f.player,
                                         cache[f].regular).unexplained
            \/ u \in _classify_aggregate("postseason_aggregate", f.player,
                                         cache[f].postseason).unexplained
        BY <4>1, <4>3 DEF Classified
      <4>5. "regular_aggregate" \in Dims /\ "postseason_aggregate" \in Dims
        BY DEF Dims
      <4> HIDE DEF p
      <4> QED BY <4>2, <4>3, <4>4, <4>5
    <3> QED BY <3>4, <3>5 DEF Grounded
  <2> QED BY <2>1, <2>2
<1>6. build'.pc = "read" => \A f \in build'.players : f.kind = "player"
  BY DEF BuildDiscover, BuildArtifact, BuildCrash, NoBuild, discover_player_cache_entries,
         Listed
<1>7. Sources'
  <2>1. audit'.pc # "idle" /\ audit'.oracle # NONE => Grounded(audit'.oracle)
    BY <1>1 DEF JInv, Sources
  <2>2. \A a : Grounded(a) => Grounded(a)'
    BY <1>3
  <2>3. /\ artifact' # NONE => Grounded(artifact)'
        /\ audit'.pc # "idle" /\ audit'.oracle # NONE => Grounded(audit.oracle)'
    BY <1>1, <1>5, <2>1 DEF Quiet, Grounded, Present
  <2> QED BY <1>6, <2>3 DEF Sources
<1> QED BY <1>2, <1>3, <1>4, <1>7 DEF JInv

(* The audit only reads.                                                    *)
LEMMA AuditStepQuiet ==
  ASSUME CheckTables \/ CheckOracle \/ CompareDimension
  PROVE  Quiet /\ UNCHANGED <<artifact, build>>
BY DEF CheckTables, CheckOracle, CompareDimension, Quiet, database, disk, history

(* A step of the audit, of which the oracle, the scope and the issues are   *)
(* accounted for.                                                           *)
LEMMA AuditJInv ==
  ASSUME JInv, CheckTables \/ CheckOracle \/ CompareDimension, ScopeIsKept',
         audit'.oracle \in {artifact, audit.oracle},
         audit'.oracle # artifact => audit.pc # "idle",
         ~touched /\ HonestTables /\ audit'.oracle # NONE
           /\ audit'.oracle.digest = compute_cache_fingerprint => audit'.issues = {}
  PROVE  JInv'
<1>1. Quiet /\ UNCHANGED <<artifact, build>>
  BY AuditStepQuiet
<1>2. IInv'
  BY CheckTablesIInv, CheckOracleIInv, CompareDimensionIInv DEF JInv
<1>3. /\ Scoped' /\ Ran' /\ (HonestTables' <=> HonestTables)
      /\ \A a : Grounded(a)' <=> Grounded(a)
      /\ compute_cache_fingerprint' = compute_cache_fingerprint
  BY <1>1, QuietKeeps
<1>4. NoAlarm'
  BY <1>1, <1>3 DEF Quiet, NoAlarm, HonestOracle
<1>5. audit'.oracle # NONE => Grounded(audit'.oracle)
  BY DEF JInv, Sources
<1>6. Sources'
  <2>1. artifact' # NONE => Grounded(artifact)'
    BY <1>1, <1>3 DEF JInv, Sources
  <2>2. audit'.oracle # NONE => Grounded(audit.oracle)'
    BY <1>1, <1>5 DEF Quiet, Grounded, Present
  <2> QED BY <1>1, <2>1, <2>2 DEF JInv, Sources
<1> QED BY <1>2, <1>3, <1>4, <1>6 DEF JInv

(* The checks of the rows raise no alarm about an honest load,              *)
LEMMA CheckTablesJInv ==
  ASSUME JInv, CheckTables
  PROVE  JInv'
<1>1. PICK given \in {{}, {kind \in Kinds : reports[kind] # NONE}} :
       audit' = [pc |-> "oracle", oracle |-> artifact, seen |-> {}, scope |-> {}, todo |-> <<>>,
                 issues |-> _backfill_report_issues([kind \in given |-> reports[kind]])
                            \union _team_stint_synthetic_code_issues
                            \union _aggregate_source_team_code_issues
                            \union _regular_postseason_separation_issues
                            \union _parser_version_issues \union _row_content_issues]
  BY DEF CheckTables
<1>2. HonestTables => audit'.issues = {}
  BY <1>1, HonestTablesPass, HonestReportsPass
<1>3. audit'.oracle = artifact /\ audit'.pc = "oracle"
  BY <1>1
<1>4. ScopeIsKept'
  BY <1>3 DEF ScopeIsKept
<1> QED BY <1>2, <1>3, <1>4, AuditJInv

(* nor does the check of the artifact,                                      *)
LEMMA CheckOracleJInv ==
  ASSUME JInv, CheckOracle
  PROVE  JInv'
<1>1. audit.pc = "oracle"
      /\ audit = [pc |-> audit.pc, oracle |-> audit.oracle, seen |-> audit.seen,
                  scope |-> audit.scope, todo |-> audit.todo, issues |-> audit.issues]
  BY DEF CheckOracle, JInv, IInv, AuditShape
<1>2. UNCHANGED core
  BY AuditStepQuiet DEF Quiet
<1>3. CASE OracleRefused # NONE
  <2>1. audit' = [audit EXCEPT !.pc = "done", !.issues = @ \union {OracleRefused}]
    BY <1>3 DEF CheckOracle
  <2>2. audit'.oracle = audit.oracle /\ audit'.issues = audit.issues \union {OracleRefused}
    BY <1>1, <2>1
  <2>3. ScopeIsKept'
    BY <2>2 DEF ScopeIsKept
  <2>4. ~(audit.oracle # NONE /\ audit.oracle.digest = compute_cache_fingerprint)
    BY <1>3 DEF OracleRefused
  <2> QED BY <1>1, <2>2, <2>3, <2>4, AuditJInv
<1>4. CASE OracleRefused = NONE
  <2> DEFINE others == (When(audit.oracle.unexplained # {}, "coverage_unexplained_source")
                 \union When(audit.oracle.source_issues # {}, "coverage_source_issues_present"))
                 \union When(core.seasons = {}, "coverage_scope_empty")
             all == <<"regular_aggregate", "postseason_aggregate",
                      "regular_team_stint", "postseason_team_stint">>
  <2>1. audit' = [audit EXCEPT !.pc = "compare", !.seen = LivePages, !.scope = core.seasons,
                               !.todo = all, !.issues = audit.issues \union others]
    BY <1>1, <1>4 DEF CheckOracle
  <2> HIDE DEF others, all
  <2>2. /\ audit'.oracle = audit.oracle /\ audit'.scope = core.seasons
        /\ audit'.issues = audit.issues \union others
    BY <1>1, <2>1
  <2>3. ScopeIsKept'
    BY <1>2, <2>2 DEF ScopeIsKept
  <2>4. ASSUME ~touched, HonestTables, HonestOracle
        PROVE  audit.issues \union others = {}
    <3>1. audit.issues = {}
      BY <1>1, <2>4 DEF JInv, NoAlarm
    <3>2. audit.oracle.source_issues = {} /\ audit.oracle.unexplained = {}
      BY <1>1, <2>4, HonestOraclePasses
    <3>3. core.seasons # {}
      BY <2>4 DEF HonestTables
    <3>4. others = {}
      BY <3>2, <3>3 DEF others, When
    <3> QED BY <3>1, <3>4
  <2> QED BY <1>1, <2>2, <2>3, <2>4, AuditJInv DEF HonestOracle
<1> QED BY <1>3, <1>4

(* nor any comparison of keys.                                              *)
LEMMA CompareDimensionJInv ==
  ASSUME JInv, CompareDimension
  PROVE  JInv'
<1> DEFINE dim == Head(audit.todo)
           missing == _expected_keys(dim) \ _actual_keys(dim)
           unexpected == _actual_keys(dim) \ _expected_keys(dim)
<1>1. audit.pc = "compare"
      /\ audit = [pc |-> audit.pc, oracle |-> audit.oracle, seen |-> audit.seen,
                  scope |-> audit.scope, todo |-> audit.todo, issues |-> audit.issues]
  BY DEF CompareDimension, JInv, IInv, AuditShape
<1>2. audit' = [audit EXCEPT !.todo = Tail(@),
           !.pc = IF Tail(audit.todo) = <<>> THEN "done" ELSE @,
           !.issues = @ \union When(missing # {}, "coverage_missing_row")
                        \union When(unexpected # {}, "coverage_unexpected_row")]
  BY DEF CompareDimension
<1> HIDE DEF dim, missing, unexpected
<1>3. /\ audit'.oracle = audit.oracle /\ audit'.scope = audit.scope
      /\ audit'.issues = (audit.issues \union When(missing # {}, "coverage_missing_row"))
                           \union When(unexpected # {}, "coverage_unexpected_row")
  BY <1>1, <1>2
<1>4. UNCHANGED <<core, touched>>
  BY AuditStepQuiet DEF Quiet
<1>5. ScopeIsKept'
  BY <1>1, <1>3, <1>4 DEF JInv, ScopeIsKept
<1>6. ASSUME ~touched, HonestTables, HonestOracle
      PROVE  audit'.issues = {}
  <2>1. audit.issues = {}
    BY <1>1, <1>6 DEF JInv, NoAlarm
  <2>2. audit.scope = core.seasons
    BY <1>1, <1>6, <2>1 DEF JInv, ScopeIsKept
  <2>3. audit.oracle # NONE /\ audit.oracle.digest = LivePages
    BY <1>6 DEF HonestOracle, LivePages, compute_cache_fingerprint, _fingerprint_from_rows
  <2>4. audit.oracle.keys = KeysOf(Said(LivePages))
    BY <1>1, <2>3 DEF JInv, IInv, OracleIsDerived, Derived
  <2>5. Persisted = {k \in KeysOf(Said(LivePages)) : k.year \in core.seasons}
    BY <1>6, HonestKeys
  <2>6. _expected_keys(dim) = _actual_keys(dim)
    BY <2>2, <2>4, <2>5 DEF _expected_keys, _actual_keys
  <2>7. missing = {} /\ unexpected = {}
    BY <2>6 DEF missing, unexpected
  <2>8. When(missing # {}, "coverage_missing_row") = {}
        /\ When(unexpected # {}, "coverage_unexpected_row") = {}
    BY <2>7, NoCondition
  <2> QED BY <1>3, <2>1, <2>8
<1> QED BY <1>1, <1>3, <1>5, <1>6, AuditJInv DEF HonestOracle

(* Every step keeps the stronger invariant.                                 *)
LEMMA NextJInv ==
  ASSUME JInv, [Next]_vars
  PROVE  JInv'
<1>1. CASE \E f \in Files : AddPage(f)  BY <1>1, AddPageJInv
<1>2. CASE LoadCore  BY <1>2, LoadCoreJInv
<1>3. CASE \E kind \in Kinds : Backfill(kind)  BY <1>3, BackfillJInv
<1>4. CASE BuildDiscover \/ BuildArtifact \/ BuildCrash  BY <1>4, BuildJInv
<1>5. CASE CheckTables  BY <1>5, CheckTablesJInv
<1>6. CASE CheckOracle  BY <1>6, CheckOracleJInv
<1>7. CASE CompareDimension  BY <1>7, CompareDimensionJInv
<1>8. CASE UNCHANGED vars
  <2>1. Quiet /\ UNCHANGED <<artifact, build, audit>>
    BY <1>8 DEF vars, database, disk, history, Quiet
  <2>2. IInv'
    BY <1>8, NextIInv DEF JInv
  <2>3. /\ Scoped' /\ Ran' /\ (HonestTables' <=> HonestTables)
        /\ \A a : Grounded(a)' <=> Grounded(a)
        /\ compute_cache_fingerprint' = compute_cache_fingerprint
    BY <2>1, QuietKeeps
  <2>4. ScopeIsKept' /\ NoAlarm'
    BY <2>1, <2>3 DEF Quiet, JInv, ScopeIsKept, NoAlarm, HonestOracle
  <2>5. Sources'
    BY <2>1 DEF Quiet, JInv, Sources, Grounded, Present
  <2> QED BY <2>2, <2>3, <2>4, <2>5 DEF JInv
<1> QED BY <1>1, <1>2, <1>3, <1>4, <1>5, <1>6, <1>7, <1>8 DEF Next

(* An honest load passes its audit, whatever trades, idle seasons and       *)
(* seasons out of scope its pages record: no check of the audit raises a    *)
(* false alarm, neither the comparison of keys nor the counts of reports.   *)
THEOREM NoFalseAlarm == Spec => []HonestLoadPasses
<1>1. Spec => []JInv
  BY InitJInv, NextJInv, PTL DEF Spec
<1> QED BY <1>1, NoAlarmIsEnough, PTL
=============================================================================
