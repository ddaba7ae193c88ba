------------------------------ MODULE MCQueries -----------------------------
(***************************************************************************)
(* Queries with two joiners of each kind and three text filters.           *)
(***************************************************************************)
EXTENDS QueriesInv

(* Game 1 is joined by joiner 0, the others by joiner 1.                   *)
MCShard == [g \in 1..4 |-> IF g = 1 THEN 0 ELSE 1]

Game(genres, year, playtime, platforms) ==
  [genres |-> genres, year |-> year, playtime |-> playtime, platforms |-> platforms]

MCCatalog ==
  << Game({"Indie", "Action"}, 2012, 5, {"windows"}),
     Game({"Indie"},           2015, 3, {"windows", "linux"}),
     Game({"Indie", "Action"}, 2010, 5, {"mac"}),
     Game({"Indie", "Action"}, 2020, 9, {"windows", "mac"}) >>

Good(g)  == [game |-> g, score |-> Scored.positive, english |-> TRUE]
Bad(g)   == [game |-> g, score |-> Scored.negative, english |-> TRUE]
Other(g) == [game |-> g, score |-> Scored.negative, english |-> FALSE]

GamesEof(c)   == EofMsg(c, "game", {})
ReviewsEof(c) == EofMsg(c, "review", {})

Upload(gs, rs) == [games |-> gs, reviews |-> rs]

(* Queries 1 and 2: two clients, the second without games in one upload.   *)
TwoClients ==
  { Upload(<< GamesMsg("A", <<1, 2>>), GamesMsg("B", <<4>>), GamesMsg("A", <<3>>),
              GamesEof("B"), GamesMsg("A", <<4>>), GamesEof("A") >>, << >>),
    Upload(<< GamesEof("B"), GamesMsg("A", <<3, 1>>), GamesMsg("A", <<2>>), GamesEof("A") >>, << >>) }

(* Query 3: the total of game 1 grows by batches; 2 evicts 3 and is in     *)
(* turn evicted by 1, or never gets in.                                    *)
Voted ==
  { Upload(<< GamesMsg("A", <<1, 2>>), GamesMsg("A", <<3>>), GamesEof("A") >>,
           << ReviewsMsg("A", <<Good(1), Good(2), Good(2)>>),
              ReviewsMsg("A", <<Good(1), Good(3), Good(1)>>),
              ReviewsEof("A") >>) }

(* Query 4: game 3 reaches the target of 2 over two batches, 2 in one but  *)
(* is no action game, and 1, which is one, has no review in English.       *)
Texted ==
  { Upload(<< GamesMsg("A", <<1, 2, 3>>), GamesEof("A") >>,
           << ReviewsMsg("A", <<Bad(2), Bad(3), Bad(2), Other(1)>>),
              ReviewsMsg("A", <<Bad(3)>>),
              ReviewsEof("A") >>) }

(* Query 4, three popular action games for batches of two.                 *)
ManyPopular ==
  { Upload(<< GamesMsg("A", <<1, 3, 4>>), GamesEof("A") >>,
           << ReviewsMsg("A", <<Bad(1), Bad(3), Bad(4), Bad(1), Bad(3), Bad(4)>>),
              ReviewsEof("A") >>) }

(* Query 5: of three voted action games two are above the percentile.      *)
Disliked ==
  { Upload(<< GamesMsg("A", <<1, 2, 3, 4>>), GamesEof("A") >>,
           << ReviewsMsg("A", <<Bad(1), Bad(2), Other(1)>>),
              ReviewsMsg("A", <<Bad(3), Bad(4), Bad(1), Bad(3)>>),
              ReviewsEof("A") >>) }

AllUploads == << TwoClients, TwoClients, Voted, Texted, Disliked >>

FirstReview == 4 :> Texted
Republish   == 4 :> ManyPopular
=============================================================================
