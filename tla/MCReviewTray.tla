---------------------------- MODULE MCReviewTray ----------------------------
(* Libraries in which one or two more verdicts move a bar. *)
EXTENDS ReviewTray

MCTarget == 1..13
MCPair == 10..13
MCScore == [t \in 1..9 |-> CASE t = 1 -> 51 [] t \in {6, 7, 8} -> 80 [] OTHER -> 52]
MCSignals == [p \in MCPair |-> [cosine |-> 84, text |-> 82]]

Nobody == [t \in MCTarget |-> "none"]
Apart == [p \in MCPair |-> "apart"]
Untuned == [k \in {"admit", "single", "agree"} |-> 0]
On(ts, k, score, keep) == {[target |-> t, key |-> k, score |-> score, keep |-> keep] : t \in ts}

MCLibrary ==
    { \* claims well above the bar turned out wrong, those just above it right;
      \* a pair was parked while somebody told it apart
      [asked |-> [Nobody EXCEPT ![13] = "pair"], tuned |-> Untuned, merged |-> Apart, different |-> MCPair, unread |-> {9},
       evidence |-> On({1}, "admit", 51, FALSE) \cup On({2, 3, 4}, "admit", 52, TRUE)
                    \cup On({6, 7, 8}, "admit", 80, FALSE)],
      \* the bar was raised, then claims under it were kept; the tray is too long
      [asked |-> [Nobody EXCEPT ![9] = "low", ![1] = "modality"], tuned |-> [Untuned EXCEPT !["admit"] = 55],
       merged |-> Apart, different |-> MCPair,
       unread |-> {5}, evidence |-> On({2, 3, 4}, "admit", 52, TRUE)],
      \* pairs accepted from the tray, after undone merges
      [asked |-> Nobody, tuned |-> [Untuned EXCEPT !["agree"] = 85], different |-> {}, unread |-> {},
       merged |-> [Apart EXCEPT ![10] = "single", ![11] = "single", ![12] = "single"],
       evidence |-> On({10, 11, 12}, "single", 84, TRUE)],
      \* merges undone
      [asked |-> Nobody, tuned |-> Untuned, merged |-> Apart, different |-> {10, 11, 12}, unread |-> {},
       evidence |-> On({10, 11, 12}, "agree", 82, FALSE)] }

MCTrayBudgets == {[verdict |-> 1, undo |-> 1, close |-> 0, reset |-> 0, crash |-> 0],
                  [verdict |-> 1, undo |-> 0, close |-> 0, reset |-> 1, crash |-> 0],
                  [verdict |-> 0, undo |-> 0, close |-> 1, reset |-> 0, crash |-> 1]}
=============================================================================
