----------------------------- MODULE MCTransfers -----------------------------
(***************************************************************************)
(* The files of one table: a data file, the data file of a secondary index *)
(* with the same name, a summary and the statistics.  Contents of the same *)
(* size and different bodies, which are uploaded in one piece, a large one *)
(* that is uploaded in parts and digested in parts, and an empty one.      *)
(***************************************************************************)
EXTENDS Transfers

MCFiles ==
    << [dir |-> "table", name |-> "Data"], [dir |-> ".idx", name |-> "Data"],
       [dir |-> "table", name |-> "Summary"], [dir |-> "table", name |-> "Statistics"] >>

Small == [size |-> 1, body |-> "small"]
Other == [size |-> 1, body |-> "other"]
Large == [size |-> 4, body |-> "large"]
Empty == [size |-> 0, body |-> "empty"]
MCContents == {Small, Other, Large, Empty}

\* What a node has, and per file what the storage holds of it.
Snapshot == <<Small, Large, Small, Other>>
FileOf(s) == [k \in {Key(i) : i \in DOMAIN s} |-> (CHOOSE i \in DOMAIN s : Key(i) = k)]
InBucket(s) == [k \in {Key(i) : i \in DOMAIN s} |-> s[FileOf(s)[k]]]
Scenario(s) == [disk |-> Snapshot, bucket |-> InBucket(s)]
WithEmpty(s) == [s EXCEPT !.disk[3] = Empty]
WithStray(s) == [s EXCEPT !.bucket = [k \in DOMAIN @ \union {Stray} |->
                                          IF k = Stray THEN Small ELSE @[k]]]

MCScenarios ==
    { Scenario(<<Nothing, Nothing, Nothing, Nothing>>),
      Scenario(Snapshot),
      WithStray(Scenario(<<Other, Large, Nothing, Other>>)),
      Scenario(<<Large, Partial, Other, Nothing>>),
      WithEmpty(Scenario(<<Small, Nothing, Empty, Small>>)) }
=============================================================================
