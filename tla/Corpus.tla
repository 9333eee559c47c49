------------------------------- MODULE Corpus -------------------------------
(***************************************************************************)
(* What a search may see of the index.  A page appears, or changes its     *)
(* text, in one step, its words with it, and keeps its rank.  A ranking    *)
(* gives its rank at once to every page that was there when it began, and  *)
(* to no page that is not there; until then, and if it is given up,        *)
(* nothing of it is seen.  Nothing else ever changes what a search sees.   *)
(***************************************************************************)

CONSTANTS Urls, Texts, NoText, Rankings, NoRank

VARIABLES
    shown,      \* shown[u]: the text, the words and the rank of page u
    ranking     \* ranking[r]: how far it is, and the pages it owes a rank

Blank == [text |-> NoText, words |-> NoText, rank |-> NoRank]
There == {u \in Urls : shown[u].text # NoText}

Init ==
    /\ \E known \in [Urls -> Texts \cup {NoText}] :
          shown = [u \in Urls |-> [text |-> known[u], words |-> known[u],
                                   rank |-> NoRank]]
    /\ ranking = [r \in Rankings |-> [state |-> "new", owed |-> {}]]

(* A crawl stores a page, new or known.                                    *)
Store == \E u \in Urls, t \in Texts :
    /\ shown' = [shown EXCEPT ![u] = [text |-> t, words |-> t, rank |-> @.rank]]
    /\ UNCHANGED ranking

(* A ranking begins: it owes a rank to the pages that are there.           *)
Begin(r) ==
    /\ ranking[r].state = "new"
    /\ ranking' = [ranking EXCEPT ![r] = [state |-> "begun", owed |-> There]]
    /\ UNCHANGED shown

(* Its ranks become visible, all at once.                                  *)
Publish(r) ==
    /\ ranking[r].state = "begun"
    /\ \E S \in SUBSET There :
          /\ ranking[r].owed \subseteq S
          /\ shown' = [u \in Urls |-> IF u \in S THEN [shown[u] EXCEPT !.rank = r]
                                                 ELSE shown[u]]
    /\ ranking' = [ranking EXCEPT ![r] = [state |-> "over", owed |-> {}]]

GiveUp(r) ==
    /\ ranking[r].state = "begun"
    /\ ranking' = [ranking EXCEPT ![r] = [state |-> "over", owed |-> {}]]
    /\ UNCHANGED shown

Next == Store \/ \E r \in Rankings : Begin(r) \/ Publish(r) \/ GiveUp(r)

Spec == Init /\ [][Next]_<<shown, ranking>>

=============================================================================
