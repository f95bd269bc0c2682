---------------------------- MODULE MCSubmission ----------------------------
(* A dear model behind the primary's competitor, and a cheap one of the       *)
(* primary's own provider after it.                                           *)
EXTENDS Submission

MCProviderOf(m) == IF m = "dear" THEN "b" ELSE "a"
MCPrice(m) == IF m = "dear" THEN 2 ELSE 1
(* Two tasks of the fleet, one beside a board's under the ceiling, and one     *)
(* beside a user's without a ceiling.                                         *)
MCSettings ==
    {<<5, [j \in {"j1", "j2"} |-> "fleet"]>>,
     <<5, [j \in {"j1", "j2"} |-> IF j = "j1" THEN "fleet" ELSE "board"]>>,
     <<0, [j \in {"j1", "j2"} |-> IF j = "j1" THEN "fleet" ELSE "user"]>>}
MCChain == <<"dear", "cheap">>
=============================================================================
