---------------------------- MODULE SolarMarket ----------------------------
(***************************************************************************)
(* The market of the hybrid-solar service (serviceExeHybridSolar.py,       *)
(* asset_types.py): solar panels look for the batteries among their peers, *)
(* solicit capacity from them, poll each of them for its ask, and accept   *)
(* one.  It runs on the peer ports of utils/mdpeer.py.                     *)
(*                                                                         *)
(* A battery has the thread of its service, which makes one pass over the  *)
(* solicitations, and receiving threads, which note solicitations, hand    *)
(* out asks and run ask_accepted.  They share state_space, open_offers and *)
(* commitments without a lock.  A panel is one thread: request_from_peers  *)
(* is all it does with its peers, so that "call" holds at most one request *)
(* of a panel to each of them.                                             *)
(*                                                                         *)
(* Prices are left out: a panel may accept any of the asks it received.    *)
(* Without a battery among its peers it has none, and an assertion ends    *)
(* it; there is at least one here.                                         *)
(* All peers answer truthfully what asset they are, as they populate their *)
(* state space before they tie; so a panel that has heard from all knows   *)
(* the batteries, and the answers to this first question are not kept.     *)
(***************************************************************************)
EXTENDS Naturals, FiniteSets, FiniteSetsExt

CONSTANTS
    Battery, Panel,
    Room,       \* rated_capacity - capacity of each battery
    Amount,     \* capacities that may be requested
    Mortal,     \* agents whose process may end
    NoBattery

ASSUME MarketAssumption ==
    /\ IsFiniteSet(Battery) /\ IsFiniteSet(Panel)
    /\ Battery # {} /\ Battery \cap Panel = {}
    /\ NoBattery \notin Battery
    /\ Room \in [Battery -> Nat]
    /\ Amount \subseteq Nat
    /\ Mortal \subseteq Battery \cup Panel

VARIABLES
    at,           \* where each agent's process() is
    call,         \* a panel's request to each peer
    holds,        \* did the battery's last answer hold an ask?
    want,         \* the capacity a panel solicits
    received,     \* the batteries whose ask a panel has
    chosen,       \* the battery whose ask it accepts
    heard,        \* solicitations in a battery's other_peer_data
    pass,         \* those that were there when its pass began
    todo,         \* and that it has not come to yet
    asks,         \* panels whose ask is in the battery's state space
    offers,       \* the keys of its open_offers
    commitments   \* panels whose ask it is committed to

panelVars == <<want, received, chosen>>
passVars  == <<pass, todo, asks>>
dealVars  == <<offers, commitments>>
vars == <<at, call, holds, panelVars, heard, passVars, dealVars>>

Agent == Battery \cup Panel

PanelAt   == {"idle", "ready", "find", "solicit", "poll", "accept", "contracted", "gone"}
BatteryAt == {"idle", "watch", "pass", "open", "failed", "gone"}
CallState == {"none", "sent", "checked", "answered", "seen", "lost"}

TypeOK ==
    /\ at \in [Agent -> PanelAt \cup BatteryAt]
    /\ call \in [Panel -> [Agent -> CallState]]
    /\ holds \in [Panel -> [Battery -> BOOLEAN]]
    /\ want \in [Panel -> Amount \cup {0}]
    /\ received \in [Panel -> SUBSET Battery]
    /\ chosen \in [Panel -> Battery \cup {NoBattery}]
    /\ heard \in [Battery -> SUBSET Panel]
    /\ pass \in [Battery -> SUBSET Panel]
    /\ todo \in [Battery -> SUBSET Panel]
    /\ asks \in [Battery -> SUBSET Panel]
    /\ offers \in [Battery -> SUBSET Panel]
    /\ commitments \in [Battery -> SUBSET Panel]

Init ==
    /\ at = [x \in Agent |-> "idle"]
    /\ call = [p \in Panel |-> [x \in Agent |-> "none"]]
    /\ holds = [p \in Panel |-> [b \in Battery |-> FALSE]]
    /\ want = [p \in Panel |-> 0]
    /\ received = [p \in Panel |-> {}]
    /\ chosen = [p \in Panel |-> NoBattery]
    /\ heard = [b \in Battery |-> {}]
    /\ pass = [b \in Battery |-> {}]
    /\ todo = [b \in Battery |-> {}]
    /\ asks = [b \in Battery |-> {}]
    /\ offers = [b \in Battery |-> {}]
    /\ commitments = [b \in Battery |-> {}]
-----------------------------------------------------------------------------
Goes(x, from, to) == at[x] = from /\ at' = [at EXCEPT ![x] = to]

\* process() up to asset_handler: the state space is populated, then tied.
Join(x) ==
    /\ Goes(x, "idle", IF x \in Battery THEN "watch" ELSE "ready")
    /\ UNCHANGED <<call, holds, panelVars, heard, passVars, dealVars>>

Tied(x) == at[x] \notin {"idle", "gone"}
-----------------------------------------------------------------------------
(***************************************************************************)
(* A panel: four times request_from_peers, the third time in a loop.       *)
(***************************************************************************)
\* Requests to all of "to", none of them answered yet.
Request(p, to) ==
    call' = [call EXCEPT ![p] = [x \in Agent |-> IF x \in to THEN "sent" ELSE "none"]]

\* request_from_peers returns when all it asked have been seen.
AllSeen(p) == \A x \in Agent : call[p][x] \in {"none", "seen"}

PanelLeaves == UNCHANGED <<holds, heard, passVars, dealVars>>

\* find_battery_peers.
Find(p) ==
    /\ Goes(p, "ready", "find")
    /\ Request(p, Agent \ {p})
    /\ UNCHANGED panelVars /\ PanelLeaves

ConstructSolicitation(p) == \E c \in Amount : want' = [want EXCEPT ![p] = c]

\* solicit, as far as the solicitation itself.
Solicit(p) ==
    /\ Goes(p, "find", "solicit") /\ AllSeen(p)
    /\ ConstructSolicitation(p)
    /\ Request(p, Battery)
    /\ UNCHANGED <<received, chosen>> /\ PanelLeaves

Poll(p) ==
    /\ \/ Goes(p, "solicit", "poll")
       \/ at[p] = "poll" /\ received[p] # Battery /\ UNCHANGED at
    /\ AllSeen(p)
    /\ Request(p, Battery)
    /\ UNCHANGED panelVars /\ PanelLeaves

\* accept_best_ask, with the ask that select_best_ask returns.
SelectBestAsk(p, b) == b \in received[p] /\ chosen' = [chosen EXCEPT ![p] = b]

Accept(p) ==
    /\ Goes(p, "poll", "accept") /\ AllSeen(p)
    /\ received[p] = Battery
    /\ \E b \in Battery : SelectBestAsk(p, b) /\ Request(p, {b})
    /\ UNCHANGED <<want, received>> /\ PanelLeaves

Contract(p) ==
    /\ Goes(p, "accept", "contracted") /\ AllSeen(p)
    /\ UNCHANGED <<call, panelVars>> /\ PanelLeaves

\* Mutant of Collect: an answer counts as an ask, whatever it holds.
CollectAnything(p, x) ==
    /\ at[p] \in {"find", "solicit", "poll", "accept"}
    /\ call[p][x] = "answered"
    /\ call' = [call EXCEPT ![p][x] = "seen"]
    /\ received' = IF at[p] = "poll" THEN [received EXCEPT ![p] = @ \cup {x}] ELSE received
    /\ UNCHANGED <<at, want, chosen>> /\ PanelLeaves

\* process_reply; solicit() goes through what it has learned for asks.
Collect(p, x) ==
    /\ at[p] \in {"find", "solicit", "poll", "accept"}
    /\ call[p][x] = "answered"
    /\ call' = [call EXCEPT ![p][x] = "seen"]
    /\ received' = IF at[p] = "poll" /\ holds[p][x]
                   THEN [received EXCEPT ![p] = @ \cup {x}] ELSE received
    /\ UNCHANGED <<at, want, chosen>> /\ PanelLeaves

PanelStep(p) ==
    \/ Find(p) \/ Solicit(p) \/ Poll(p) \/ Accept(p) \/ Contract(p)
    \/ \E x \in Agent : Collect(p, x)
-----------------------------------------------------------------------------
(***************************************************************************)
(* The receiving threads of an agent x.                                    *)
(***************************************************************************)
Answers(p, x) == call' = [call EXCEPT ![p][x] = "answered"]

\* my_asset_type is asked for.
Tell(x, p) ==
    /\ Tied(x) /\ call[p][x] = "sent" /\ at[p] = "find"
    /\ Answers(p, x)
    /\ UNCHANGED <<at, holds, panelVars, heard, passVars, dealVars>>

\* Mutant of Note: it is answered and forgotten.
NoteNothing(b, p) ==
    /\ Tied(b) /\ call[p][b] = "sent" /\ at[p] = "solicit"
    /\ Answers(p, b)
    /\ UNCHANGED <<at, holds, panelVars, heard, passVars, dealVars>>

\* A solicitation is noted in other_peer_data.
Note(b, p) ==
    /\ Tied(b) /\ call[p][b] = "sent" /\ at[p] = "solicit"
    /\ heard' = [heard EXCEPT ![b] = @ \cup {p}]
    /\ Answers(p, b)
    /\ UNCHANGED <<at, holds, panelVars, passVars, dealVars>>

\* Mutant of HandOut: the ask is looked up under another name.
HandOutNone(b, p) ==
    /\ Tied(b) /\ call[p][b] = "sent" /\ at[p] = "poll"
    /\ holds' = [holds EXCEPT ![p][b] = FALSE]
    /\ Answers(p, b)
    /\ UNCHANGED <<at, panelVars, heard, passVars, dealVars>>

\* The ask for p is asked for: it is there, or None.
HandOut(b, p) ==
    /\ Tied(b) /\ call[p][b] = "sent" /\ at[p] = "poll"
    /\ holds' = [holds EXCEPT ![p][b] = p \in asks[b]]
    /\ Answers(p, b)
    /\ UNCHANGED <<at, panelVars, heard, passVars, dealVars>>

Total(b) == MapThenSumSet(LAMBDA p : want[p], commitments[b])

\* An exception ends a receiving thread.  Its socket goes with it, and the
\* requests the proxy has already put there.
ThreadEnds(b, p) ==
    \E others \in SUBSET {q \in Panel \ {p} : call[q][b] = "sent"} :
        call' = [q \in Panel |-> IF q \in others \cup {p}
                                 THEN [call[q] EXCEPT ![b] = "lost"] ELSE call[q]]

\* ask_accepted takes the offer away, a KeyError if it is not there, and then
\* checks the commitments there are for a violation.
Check(b, p) ==
    /\ Tied(b) /\ call[p][b] = "sent" /\ at[p] = "accept"
    /\ offers' = [offers EXCEPT ![b] = @ \ {p}]
    /\ IF p \in offers[b] /\ Total(b) <= Room[b]
       THEN call' = [call EXCEPT ![p][b] = "checked"]
       ELSE ThreadEnds(b, p)
    /\ UNCHANGED <<at, holds, panelVars, heard, passVars, commitments>>

\* Mutant of Commit: the reply is sent and nothing is committed to.
CommitNothing(b, p) ==
    /\ Tied(b) /\ call[p][b] = "checked"
    /\ commitments' = commitments
    /\ Answers(p, b)
    /\ UNCHANGED <<at, holds, panelVars, heard, passVars, offers>>

\* And only then it appends the new one.
Commit(b, p) ==
    /\ Tied(b) /\ call[p][b] = "checked"
    /\ commitments' = [commitments EXCEPT ![b] = @ \cup {p}]
    /\ Answers(p, b)
    /\ UNCHANGED <<at, holds, panelVars, heard, passVars, offers>>

ReceivingThread(x, p) ==
    \/ Tell(x, p)
    \/ x \in Battery /\ (Note(x, p) \/ HandOut(x, p) \/ Check(x, p) \/ Commit(x, p))
-----------------------------------------------------------------------------
(***************************************************************************)
(* The thread of a battery's service: one pass over other_peer_data, while *)
(* the receiving threads add to it.                                        *)
(***************************************************************************)
BatteryLeaves == UNCHANGED <<call, holds, panelVars, heard, commitments>>

\* "while not other_peer_data" ends.
StartPass(b) ==
    /\ Goes(b, "watch", "pass")
    /\ heard[b] # {}
    /\ pass' = [pass EXCEPT ![b] = heard[b]]
    /\ todo' = [todo EXCEPT ![b] = heard[b]]
    /\ UNCHANGED <<asks, offers>> /\ BatteryLeaves

Undisturbed(b) == heard[b] = pass[b]

\* Mutant of ConstructAsk: the ask is published without an offer of its own.
ConstructAskOnly(b, p) ==
    /\ at[b] = "pass" /\ p \in todo[b] /\ Undisturbed(b)
    /\ want[p] <= Room[b]
    /\ todo' = [todo EXCEPT ![b] = @ \ {p}]
    /\ asks' = [asks EXCEPT ![b] = @ \cup {p}]
    /\ UNCHANGED <<at, pass, offers>> /\ BatteryLeaves

ConstructAsk(b, p) ==
    /\ at[b] = "pass" /\ p \in todo[b] /\ Undisturbed(b)
    /\ want[p] <= Room[b]
    /\ todo' = [todo EXCEPT ![b] = @ \ {p}]
    /\ asks' = [asks EXCEPT ![b] = @ \cup {p}]
    /\ offers' = [offers EXCEPT ![b] = @ \cup {p}]
    /\ UNCHANGED <<at, pass>> /\ BatteryLeaves

\* Without the capacity construct_ask returns None, which has no recipient.
CannotAsk(b, p) ==
    /\ p \in todo[b] /\ Undisturbed(b)
    /\ want[p] > Room[b]
    /\ Goes(b, "pass", "failed")
    /\ UNCHANGED <<passVars, offers>> /\ BatteryLeaves

\* A solicitation came in meanwhile: the dictionary changed its size.
PassBreaks(b) ==
    /\ ~Undisturbed(b)
    /\ Goes(b, "pass", "failed")
    /\ UNCHANGED <<passVars, offers>> /\ BatteryLeaves

\* The main loop, which only prints.
EndPass(b) ==
    /\ todo[b] = {} /\ Undisturbed(b)
    /\ Goes(b, "pass", "open")
    /\ UNCHANGED <<passVars, offers>> /\ BatteryLeaves

BatteryStep(b) ==
    \/ StartPass(b) \/ PassBreaks(b) \/ EndPass(b)
    \/ \E p \in Panel : ConstructAsk(b, p) \/ CannotAsk(b, p)
-----------------------------------------------------------------------------
\* An agent's process ends, and with it what is in its socket.
Die(x) ==
    /\ x \in Mortal /\ at[x] # "gone"
    /\ at' = [at EXCEPT ![x] = "gone"]
    /\ \E lost \in SUBSET {p \in Panel : call[p][x] = "answered"} :
          call' = [p \in Panel |-> IF p \in lost \/ call[p][x] \in {"sent", "checked"}
                                   THEN [call[p] EXCEPT ![x] = "lost"] ELSE call[p]]
    /\ UNCHANGED <<holds, panelVars, heard, passVars, dealVars>>

Next ==
    \/ \E x \in Agent : Join(x) \/ Die(x)
    \/ \E p \in Panel : PanelStep(p)
    \/ \E b \in Battery : BatteryStep(b)
    \/ \E x \in Agent, p \in Panel : ReceivingThread(x, p)

Spec == Init /\ [][Next]_vars

\* The threads of a process that lives are scheduled.
FairSpec ==
    /\ Spec
    /\ \A x \in Agent : WF_vars(Join(x))
    /\ \A p \in Panel : WF_vars(PanelStep(p))
    /\ \A b \in Battery : WF_vars(BatteryStep(b))
    /\ \A x \in Agent, p \in Panel : WF_vars(ReceivingThread(x, p))
-----------------------------------------------------------------------------
\* The two sides agree: a panel with a contract is one of the commitments of the
\* battery it chose, and no battery is committed to a panel that did not choose
\* it, or for more than it could offer that panel.  (accept_best_ask in one
\* process, ask_accepted in a receiving thread of the other.)
Agreement ==
    /\ \A p \in Panel : at[p] = "contracted" => p \in commitments[chosen[p]]
    /\ \A b \in Battery : \A p \in commitments[b] : chosen[p] = b /\ want[p] <= Room[b]

\* The offer an acceptance is about is open until then: remove_offer, in a
\* receiving thread, never misses it.
OfferOpen ==
    \A p \in Panel, b \in Battery :
        at[p] = "accept" /\ call[p][b] = "sent" => p \in offers[b]

\* A panel that has solicited gets its contract, unless a battery will never
\* answer it: one that died, one whose pass ended, for good or with an
\* exception, without it, or one whose receiving thread ended under its request.
Silent(b, p) ==
    \/ at[b] = "gone"
    \/ at[b] \in {"open", "failed"} /\ p \notin asks[b]
    \/ call[p][b] = "lost"
Served ==
    \A p \in Panel :
        at[p] \in {"solicit", "poll", "accept"} ~>
            at[p] \in {"contracted", "gone"} \/ \E b \in Battery : Silent(b, p)
-----------------------------------------------------------------------------
(***************************************************************************)
(* The inductive invariant.                                                *)
(***************************************************************************)
\* A panel's choice is among the asks it received, which their batteries made;
\* none but batteries are asked.
ChoiceOK(p) ==
    /\ \A b \in Battery : holds[p][b] \/ b \in received[p] => p \in asks[b]
    /\ at[p] \in {"accept", "contracted"} =>
          chosen[p] \in Battery /\ p \in asks[chosen[p]]
    /\ at[p] \in {"idle", "ready", "find", "solicit", "poll"} =>
          chosen[p] = NoBattery
    /\ at[p] \in {"idle", "ready", "find"} => \A b \in Battery : p \notin heard[b]
    /\ at[p] \in {"solicit", "poll", "accept"} =>
          \A x \in Panel : call[p][x] = "none"

\* From the ask to the commitment there is an offer, then a checked call, then
\* a commitment, each in the place of the one before it.
DealOK(b, p) ==
    /\ p \in asks[b] => p \in heard[b] /\ want[p] <= Room[b]
    /\ p \in asks[b] /\ p \notin offers[b] => chosen[p] = b
    /\ p \in commitments[b] => p \in asks[b] /\ chosen[p] = b
    /\ call[p][b] = "checked" =>
          at[p] \in {"accept", "gone"} /\ chosen[p] = b /\ p \in asks[b]
    /\ at[p] = "accept" =>
          /\ b # chosen[p] => call[p][b] = "none"
          /\ b = chosen[p] =>
                /\ call[p][b] # "none"
                /\ call[p][b] = "sent" => p \in offers[b]
                /\ call[p][b] \in {"answered", "seen"} => p \in commitments[b]
    /\ at[p] = "contracted" /\ b = chosen[p] => p \in commitments[b]

\* A pass goes over what was heard, and asks once for each.
PassOK(b) ==
    /\ todo[b] \subseteq pass[b] /\ pass[b] \subseteq heard[b]
    /\ todo[b] \cap asks[b] = {}
    /\ at[b] \in {"idle", "watch"} => asks[b] = {}

\* The invariant from which Agreement and OfferOpen follow.
IndInv ==
    /\ TypeOK
    /\ \A b \in Battery : PassOK(b)
    /\ \A p \in Panel : ChoiceOK(p)
    /\ \A b \in Battery, p \in Panel : DealOK(b, p)
-----------------------------------------------------------------------------
(***************************************************************************)
(* What an assertion says, and the code does not do.                       *)
(***************************************************************************)
\* "Commitments have a violation within them" is what must not be: a battery is
\* not committed to more than it has room for.
WithinCapacity == \A b \in Battery : Total(b) <= Room[b]
=============================================================================
