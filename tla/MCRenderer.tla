------------------------------ MODULE MCRenderer ------------------------------
(***************************************************************************)
(* Four protocols of a page with main and the host side by side: the       *)
(* coordinator of attaches (AuthorityAttachRetry), the transcript that is  *)
(* streamed to it (AuthoritySync, with no faults, two askers and a buffer  *)
(* that suffices), the keys typed into a panel (PanelInput), and the       *)
(* reading of a session's history (HistoryHydration).  They share no       *)
(* state: a behaviour exercises one of them and the others stand still.    *)
(***************************************************************************)
EXTENDS AuthorityAttachRetry, Naturals, Sequences

CONSTANT NoKey

SixRetries == 6

TranscriptEvents == [p \in {"transcript"} |-> 5]

VARIABLES
    part,                                   \* the part that the behaviour exercises
    hostOwner, hostSeq, stream, script, changing, hostWire, mainOwner, router, flight,
    rendererWire, generation, asking, waiting, view, early, faults, asks, \* of AuthoritySync
    page, main, host, net, panelLog,        \* of PanelInput
    runtime, wire, store, flows, readLog    \* of HistoryHydration

PanelPlan(timeouts, reloads, fences, retires, hides, revisions, hosts, fair) ==
    [timeouts |-> timeouts, reloads |-> reloads, fences |-> fences, retires |-> retires,
     hides |-> hides, revisions |-> revisions, hosts |-> hosts, fair |-> fair]
ReadPlan(entries, turns, epochs, files, flows_, drops, fences, navs, timeouts, errors, fair) ==
    [entries |-> entries, turns |-> turns, epochs |-> epochs, files |-> files, flows |-> flows_,
     drops |-> drops, fences |-> fences, navs |-> navs, timeouts |-> timeouts,
     errors |-> errors, fair |-> fair]

\* Timeouts with a reload and a retired panel, or with a hidden terminal; a
\* second host with a reload or a timeout; and, with fairness, timeouts and a
\* fence.
PanelPlans == {
    PanelPlan(1, 1, 0, 1, 0, 4, 1, FALSE),
    PanelPlan(1, 0, 0, 0, 1, 4, 1, FALSE),
    PanelPlan(0, 1, 0, 0, 0, 40, 2, FALSE),
    PanelPlan(1, 0, 0, 0, 0, 40, 2, FALSE),
    PanelPlan(1, 0, 1, 0, 0, 40, 1, TRUE)}

\* Turns with dropped events, navigations and timeouts, or with fences and
\* failed requests; a second runtime and a second file; and,
\* with fairness, dropped events and a restart.
ReadPlans == {
    ReadPlan(2, 1, 1, 1, 2, 1, 0, 1, 0, 0, FALSE),
    ReadPlan(1, 1, 1, 1, 2, 0, 1, 0, 1, 1, FALSE),
    ReadPlan(1, 1, 2, 2, 2, 0, 0, 0, 0, 0, FALSE),
    ReadPlan(2, 1, 2, 1, 3, 1, 0, 0, 0, 0, TRUE)}

Stream == INSTANCE AuthoritySync
            WITH Planes <- {"transcript"}, Successions <- {}, Askers <- {"retry", "direct"},
                 MaxOwner <- 1, MaxSeq <- TranscriptEvents, MaxGen <- 1, MaxFaults <- 0,
                 MaxAsks <- 1, maxBufferedPublications <- 5, maxBaselineAttempts <- 2
Panel == INSTANCE PanelInput
           WITH None <- NoKey, MaxKeys <- 2, MaxPending <- 1, MaxHosts <- 2, Plans <- PanelPlans, log <- panelLog
History == INSTANCE HistoryHydration
             WITH MaxFiles <- 2, MaxFlows <- 3, Plans <- ReadPlans,
                  host <- runtime, page <- store, log <- readLog

streamVars == <<hostOwner, hostSeq, stream, script, changing, hostWire, mainOwner, router, flight,
                rendererWire, generation, asking, waiting, view, early, faults, asks>>
panelVars == <<page, main, host, net, panelLog>>
historyVars == <<runtime, wire, store, flows, readLog>>
all == <<part, vars, streamVars, panelVars, historyVars>>

PartInit ==
    /\ part \in {"attach", "transcript", "panel", "history"}
    /\ Init /\ Stream!Init /\ Panel!Init /\ History!Init
    /\ part # "history" => readLog.may.fair
    /\ part # "panel" => panelLog.may.fair

\* All but the state of the keys, and all but the state of the reading.
still == <<part, vars, streamVars, historyVars>>
rest == <<part, vars, streamVars, panelVars>>

PartNext ==
    \/ part = "attach" /\ Next /\ UNCHANGED <<part, streamVars, panelVars, historyVars>>
    \/ part = "transcript" /\ Stream!Next /\ UNCHANGED <<part, vars, panelVars, historyVars>>
    \/ part = "panel" /\ Panel!Next /\ UNCHANGED still
    \/ part = "history" /\ History!Next /\ UNCHANGED rest

\* The fairness of each part, for the plans that ask for it.
Typing == part = "panel" /\ panelLog.may.fair
Reading == part = "history" /\ readLog.may.fair
PartFair ==
    /\ Fairness  \* of AuthorityAttachRetry; its actions are enabled in its part only
    /\ WF_all(Typing /\ Panel!ReleaseEffect /\ UNCHANGED still)
    /\ WF_all(Typing /\ Panel!Repaints /\ UNCHANGED still)
    /\ WF_all(Typing /\ Panel!Show /\ UNCHANGED still)
    /\ WF_all(Typing /\ Panel!Attempt /\ UNCHANGED still)
    /\ WF_all(Typing /\ Panel!Forward /\ UNCHANGED still)
    /\ WF_all(Typing /\ Panel!MainReceives /\ UNCHANGED still)
    /\ WF_all(Typing /\ Panel!Attaches /\ UNCHANGED still)
    /\ WF_all(Typing /\ Panel!HostReceives /\ UNCHANGED still)
    /\ WF_all(Typing /\ Panel!PageReceives /\ UNCHANGED still)
    /\ WF_all(Reading /\ History!Handled /\ UNCHANGED rest)
    /\ WF_all(Reading /\ History!TurnEnds /\ UNCHANGED rest)
    /\ WF_all(Reading /\ History!Start /\ UNCHANGED rest)
    /\ \A t \in History!Flows : WF_all(Reading /\ History!Advanced(t) /\ UNCHANGED rest)

PartSpec == PartInit /\ [][PartNext]_all /\ PartFair

\* The properties of AuthoritySync, PanelInput and HistoryHydration, by name; see
\* there.
TranscriptFaithful == Stream!TranscriptFaithful
KeysRunOnce == Panel!KeysRunOnce
EveryKeySettles == Panel!EveryKeySettles
HistoryExact == History!HistoryExact
HistoryHeals == part = "history" => History!HistoryHeals
=============================================================================
