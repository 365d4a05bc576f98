-------------------------------- MODULE MCMenu ------------------------------
(* A small menu configuration: two users, one of them listed twice, menus   *)
(* that lead back to each other, and an item hidden behind the key X.       *)
EXTENDS Menu

MCText == {"", "X", "x", "B", "b", "ann", "ANN", "bob", "pw1", "pw2", "PW1", "1", "2", "--"}

MCUpper ==
    [t \in MCText |->
        CASE t = "x" -> "X" [] t = "b" -> "B" [] t = "ann" -> "ANN" [] t = "pw1" -> "PW1"
          [] OTHER -> t]

MCUsers ==
    << [username |-> "ann", password |-> "pw1", menu |-> "main"],
       [username |-> "bob", password |-> "pw2", menu |-> "ops"],
       [username |-> "ANN", password |-> "pw2", menu |-> "ops"] >>

MCMenus ==
    [m \in {"main", "ops"} |->
        IF m = "main"
        THEN << [key |-> "1", menu |-> NoMenu], [key |-> "2", menu |-> "ops"] >>
        ELSE << [key |-> "1", menu |-> "main"], [key |-> "x", menu |-> NoMenu],
                [key |-> "ann", menu |-> "ops"] >>]

\* One word or none, two, a password with a colon, and a colon alone.
MCTyped ==
    {<<>>, <<"1", "2">>, <<"pw1", ":", "pw2">>, <<":">>} \cup {<<t>> : t \in MCText \ {""}}

\* Rows of two: lines that are empty, full, and wrapped once or twice.
MCFile == UNION {[1 .. n -> {0, 2, 5}] : n \in 1 .. 2} \cup {<<4, 0, 1>>}

=============================================================================
