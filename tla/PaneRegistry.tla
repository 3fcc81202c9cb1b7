----------------------------- MODULE PaneRegistry -----------------------------
(***************************************************************************)
(* What a run's pane ledger promises, with no processes, no lock, no       *)
(* copies of state.json and no failures. A pane that drovr opens is in one *)
(* pair of hands, and no other is, until it is registered for its phase,   *)
(* given up for closing, or gone. A registration ends only in the list of  *)
(* panes to close, and that list forgets a pane only when it is gone.      *)
(***************************************************************************)
CONSTANTS Phases, Panes, Root, None

VARIABLES pane,    \* the pane registered for each phase
          retired, \* the panes to close
          hand,    \* the pane that is opened and not yet recorded
          live, human, issued, \* herdr's panes, those of the human's, and those there ever were
          agent    \* the phase whose agent runs in each pane

vars == <<pane, retired, hand, live, human, issued, agent>>
record == <<pane, retired>>
herdr == <<live, human, issued, agent>>

Init == /\ pane \in [Phases -> Panes \cup {None}]
        /\ \A a, b \in Phases : a # b /\ pane[a] # None => pane[a] # pane[b]
        /\ retired \subseteq {Root}
        /\ hand = {} /\ human = {}
        /\ live = {Root} \cup ({pane[ph] : ph \in Phases} \ {None})
        /\ issued = live
        /\ agent \in [Panes -> Phases \cup {None}]
        /\ \A i \in Panes, ph \in Phases : agent[i] = ph <=> pane[ph] = i

Closed(S) == /\ live' = live \ S /\ human' = human \ S /\ UNCHANGED issued
             /\ agent' = [i \in Panes |-> IF i \in S THEN None ELSE agent[i]]

\* A pane is opened only while no other is waiting to be recorded.
Open == /\ hand = {}
        /\ \E i \in Panes \ issued : /\ hand' = {i}
                                     /\ live' = live \cup {i} /\ issued' = issued \cup {i}
        /\ UNCHANGED <<record, human, agent>>

\* An agent is launched only for a phase that has no pane, into a pane that has no agent.
Launch == /\ \E i \in hand \cap live, ph \in Phases :
                /\ agent[i] = None /\ pane[ph] = None
                /\ agent' = [agent EXCEPT ![i] = ph]
          /\ UNCHANGED <<record, hand, live, human, issued>>

\* What is registered for a phase is the pane its agent runs in, if it still does.
Register == /\ \E i \in hand, ph \in Phases : /\ pane[ph] = None
                                              /\ i \in live => agent[i] = ph
                                              /\ pane' = [pane EXCEPT ![ph] = i]
            /\ hand' = {}
            /\ UNCHANGED <<retired, herdr>>

GiveUp == /\ \E i \in hand : retired' = retired \cup {i}
          /\ hand' = {}
          /\ UNCHANGED <<pane, herdr>>

\* The one way out of a hand without a record.
CloseUnrecorded == \E i \in hand : Closed({i}) /\ hand' = {} /\ UNCHANGED record

Release == /\ \E ph \in Phases : /\ pane[ph] \notin {None, Root}
                                 /\ pane' = [pane EXCEPT ![ph] = None]
                                 /\ retired' = retired \cup {pane[ph]}
           /\ UNCHANGED <<hand, herdr>>

Forget == /\ \E S \in SUBSET (retired \ live) : retired' = retired \ S
          /\ UNCHANGED <<pane, hand, herdr>>

\* Panes are closed by a sweep, a reap, a cleanup or the human.
Close == \E S \in SUBSET live : Closed(S) /\ UNCHANGED <<record, hand>>

HumanOpens == /\ \E i \in Panes \ issued : /\ live' = live \cup {i} /\ human' = human \cup {i}
                                           /\ issued' = issued \cup {i}
              /\ UNCHANGED <<record, hand, agent>>

Next == \/ Open \/ Launch \/ Register \/ GiveUp \/ CloseUnrecorded
        \/ Release \/ Forget \/ Close \/ HumanOpens

Spec == Init /\ [][Next]_vars
=============================================================================
