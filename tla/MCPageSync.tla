------------------------------ MODULE MCPageSync ------------------------------
(***************************************************************************)
(* How a page follows the host, in two parts side by side: three frames of *)
(* the semantic plane through attaches, faults and replacements            *)
(* (AuthoritySync), and the branch a navigation leads to until a page has  *)
(* shown it (NavigationPresentation).  They share no state: a behaviour    *)
(* exercises one of them and the other stands still.                       *)
(***************************************************************************)
EXTENDS AuthoritySync

SemanticFrames == [p \in {"semantic"} |-> 3]

CONSTANTS MaxNavs, MaxPrompts, Plans   \* of NavigationPresentation

\* Plans are made of numbers, within the bounds.
ASSUME NavAssumption ==
    /\ MaxNavs \in Nat /\ MaxPrompts \in Nat
    /\ Plans \subseteq [navs : 0..MaxNavs, prompts : 0..MaxPrompts, foreign : Nat, faults : Nat,
                        fences : Nat, reloads : Nat, crashes : Nat, fair : BOOLEAN]

VARIABLES
    part,                                    \* the part that the behaviour exercises
    host, feed, page, walk, sent, navLog     \* of NavigationPresentation

NavPlan(navs, prompts, foreign, failures, fences, reloads, crashes, fair) ==
    [navs |-> navs, prompts |-> prompts, foreign |-> foreign, faults |-> failures, fences |-> fences,
     reloads |-> reloads, crashes |-> crashes, fair |-> fair]

\* Navigations: faults and fences; a reload and a crash with an extension at
\* work; faults up to the last retry, with fairness.
NavPlans == {
    NavPlan(2, 1, 0, 2, 1, 0, 0, FALSE),
    NavPlan(2, 1, 1, 0, 0, 1, 1, FALSE),
    NavPlan(1, 1, 0, 3, 0, 0, 0, TRUE)}

Nav == INSTANCE NavigationPresentation WITH wire <- feed, flight <- walk, log <- navLog

navVars == <<host, feed, page, walk, sent, navLog>>
all == <<part, vars, navVars>>

PartInit ==
    /\ part \in {"semantic", "navigation"} /\ Init /\ Nav!Init
    /\ part # "navigation" => navLog.may = NavPlan(1, 1, 0, 3, 0, 0, 0, TRUE)

PartNext ==
    \/ part = "semantic" /\ Next /\ UNCHANGED <<part, navVars>>
    \/ part = "navigation" /\ Nav!Next /\ UNCHANGED <<part, vars>>

\* The fairness of each part, for its own behaviours; that of a navigation only
\* for the plans that ask for it.
Syncs == part = "semantic" /\ UNCHANGED <<part, navVars>>
Live == part = "navigation" /\ navLog.may.fair
still == <<part, vars>>
PartFair ==
    /\ WF_all(Syncs /\ AnswerAttach) /\ WF_all(Syncs /\ Settle)
    /\ WF_all(Syncs /\ Receive) /\ WF_all(Syncs /\ ContinueAttach)
    /\ WF_all(Syncs /\ Deliver) /\ WF_all(Syncs /\ Rehydrate)
    /\ WF_all(Syncs /\ \E who \in Askers : Needed(who) /\ Ask(who))
    /\ WF_all(Live /\ Nav!Execute /\ UNCHANGED still)
    /\ WF_all(Live /\ Nav!NavigationEnds /\ UNCHANGED still)
    /\ WF_all(Live /\ Nav!Settle /\ UNCHANGED still)
    /\ WF_all(Live /\ Nav!Drain /\ UNCHANGED still)
    /\ WF_all(Live /\ Nav!Attach /\ UNCHANGED still)
    /\ WF_all(Live /\ Nav!Begin /\ UNCHANGED still)
    /\ WF_all(Live /\ Nav!Convert /\ UNCHANGED still)
    /\ WF_all(Live /\ Nav!Continue /\ UNCHANGED still)
    /\ WF_all(Live /\ Nav!Receive /\ UNCHANGED still)
    /\ \A nav \in Nav!Navs : WF_all(Live /\ Nav!Timer(nav) /\ UNCHANGED still)
    /\ WF_all(Live /\ Nav!AckArrives /\ UNCHANGED still)

PartSpec == PartInit /\ [][PartNext]_all /\ PartFair

\* Recovers of AuthoritySync, for its own behaviours; see there.
PageRecovers == part = "semantic" => Recovers

\* The properties of NavigationPresentation, by name; see there.
BranchShown == Nav!BranchShown
BranchHeals == Nav!BranchHeals
=============================================================================
