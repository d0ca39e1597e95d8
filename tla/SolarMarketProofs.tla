------------------------- MODULE SolarMarketProofs -------------------------
(***************************************************************************)
(* The two sides of the hybrid-solar market agree, for any number of       *)
(* panels and batteries, whatever they want and have, and whoever dies:    *)
(* IndInv is inductive, and Agreement and OfferOpen follow from it.        *)
(***************************************************************************)
EXTENDS SolarMarket, TLAPS

USE DEF Agent, PanelAt, BatteryAt, CallState

\* What an agent is shows in its name.
LEMMA Roles ==
  /\ \A b \in Battery : b \in Agent /\ b \notin Panel /\ b # NoBattery
  /\ \A p \in Panel : p \in Agent /\ p \notin Battery
BY MarketAssumption

-----------------------------------------------------------------------------
(***************************************************************************)
(* The steps of a panel.                                                   *)
(***************************************************************************)
LEMMA JoinKeepsInv ==
  ASSUME IndInv, NEW x \in Agent, Join(x)
  PROVE  IndInv'
<1> USE DEF IndInv
<1>1. /\ UNCHANGED <<call, holds, panelVars, heard, passVars, dealVars>>
      /\ at[x] = "idle"
      /\ at' = [at EXCEPT ![x] = IF x \in Battery THEN "watch" ELSE "ready"]
  BY DEF Join, Goes
<1>2. TypeOK'
  BY <1>1, Roles DEF TypeOK, panelVars, passVars, dealVars
<1>3. \A c \in Battery : PassOK(c)'
  BY <1>1, Roles DEF PassOK, TypeOK, panelVars, passVars, dealVars
<1>4. \A q \in Panel : ChoiceOK(q)'
  BY <1>1, Roles DEF ChoiceOK, PassOK, TypeOK, panelVars, passVars, dealVars
<1>5. \A c \in Battery, q \in Panel : DealOK(c, q)'
  BY <1>1, Roles DEF DealOK, ChoiceOK, PassOK, TypeOK, panelVars, passVars, dealVars
<1> QED BY <1>2, <1>3, <1>4, <1>5

LEMMA FindKeepsInv ==
  ASSUME IndInv, NEW p \in Panel, Find(p)
  PROVE  IndInv'
<1> USE DEF IndInv
<1>1. /\ UNCHANGED <<holds, heard, panelVars, passVars, dealVars>>
      /\ at[p] = "ready" /\ at' = [at EXCEPT ![p] = "find"]
      /\ call' = [call EXCEPT ![p] = [x \in Agent |-> IF x \in Agent \ {p} THEN "sent" ELSE "none"]]
  BY DEF Find, Goes, Request, PanelLeaves
<1>2. TypeOK'
  BY <1>1, Roles DEF TypeOK, panelVars, passVars, dealVars
<1>3. \A c \in Battery : PassOK(c)'
  BY <1>1, Roles DEF PassOK, TypeOK, panelVars, passVars, dealVars
<1>4. \A q \in Panel : ChoiceOK(q)'
  BY <1>1, Roles DEF ChoiceOK, PassOK, TypeOK, panelVars, passVars, dealVars
<1>5. \A c \in Battery, q \in Panel : DealOK(c, q)'
  BY <1>1, Roles DEF DealOK, ChoiceOK, PassOK, TypeOK, panelVars, passVars, dealVars
<1> QED BY <1>2, <1>3, <1>4, <1>5

LEMMA SolicitKeepsInv ==
  ASSUME IndInv, NEW p \in Panel, Solicit(p)
  PROVE  IndInv'
<1> USE DEF IndInv
<1>1. /\ UNCHANGED <<holds, heard, received, chosen, passVars, dealVars>>
      /\ at[p] = "find" /\ at' = [at EXCEPT ![p] = "solicit"]
      /\ \E c \in Amount : want' = [want EXCEPT ![p] = c]
      /\ call' = [call EXCEPT ![p] = [x \in Agent |-> IF x \in Battery THEN "sent" ELSE "none"]]
  BY DEF Solicit, ConstructSolicitation, Goes, Request, PanelLeaves
<1>2. TypeOK'
  BY <1>1, Roles DEF TypeOK, panelVars, passVars, dealVars
<1>3. \A c \in Battery : PassOK(c)'
  BY <1>1, Roles DEF PassOK, TypeOK, panelVars, passVars, dealVars
<1>4. \A q \in Panel : ChoiceOK(q)'
  BY <1>1, Roles DEF ChoiceOK, PassOK, TypeOK, panelVars, passVars, dealVars
<1>5. \A c \in Battery, q \in Panel : DealOK(c, q)'
  BY <1>1, Roles DEF DealOK, ChoiceOK, PassOK, TypeOK, panelVars, passVars, dealVars
<1> QED BY <1>2, <1>3, <1>4, <1>5

LEMMA PollKeepsInv ==
  ASSUME IndInv, NEW p \in Panel, Poll(p)
  PROVE  IndInv'
<1> USE DEF IndInv
<1>1. /\ UNCHANGED <<holds, heard, panelVars, passVars, dealVars>>
      /\ at[p] \in {"solicit", "poll"} /\ at' = [at EXCEPT ![p] = "poll"]
      /\ call' = [call EXCEPT ![p] = [x \in Agent |-> IF x \in Battery THEN "sent" ELSE "none"]]
  BY DEF Poll, Goes, Request, PanelLeaves, IndInv, TypeOK
<1>2. TypeOK'
  BY <1>1, Roles DEF TypeOK, panelVars, passVars, dealVars
<1>3. \A c \in Battery : PassOK(c)'
  BY <1>1, Roles DEF PassOK, TypeOK, panelVars, passVars, dealVars
<1>4. \A q \in Panel : ChoiceOK(q)'
  BY <1>1, Roles DEF ChoiceOK, PassOK, TypeOK, panelVars, passVars, dealVars
<1>5. \A c \in Battery, q \in Panel : DealOK(c, q)'
  BY <1>1, Roles DEF DealOK, ChoiceOK, PassOK, TypeOK, panelVars, passVars, dealVars
<1> QED BY <1>2, <1>3, <1>4, <1>5

LEMMA AcceptKeepsInv ==
  ASSUME IndInv, NEW p \in Panel, Accept(p)
  PROVE  IndInv'
<1> USE DEF IndInv
<1>1. PICK b \in Battery :
      /\ UNCHANGED <<holds, heard, want, received, passVars, dealVars>>
      /\ at[p] = "poll" /\ at' = [at EXCEPT ![p] = "accept"]
      /\ b \in received[p] /\ chosen' = [chosen EXCEPT ![p] = b]
      /\ call' = [call EXCEPT ![p] = [x \in Agent |-> IF x \in {b} THEN "sent" ELSE "none"]]
  BY DEF Accept, SelectBestAsk, Goes, Request, PanelLeaves
<1>2. TypeOK'
  BY <1>1, Roles DEF TypeOK, panelVars, passVars, dealVars
<1>3. \A c \in Battery : PassOK(c)'
  BY <1>1, Roles DEF PassOK, TypeOK, panelVars, passVars, dealVars
<1>4. \A q \in Panel : ChoiceOK(q)'
  BY <1>1, Roles DEF ChoiceOK, PassOK, TypeOK, panelVars, passVars, dealVars
<1>5. \A c \in Battery, q \in Panel : DealOK(c, q)'
  BY <1>1, Roles DEF DealOK, ChoiceOK, PassOK, TypeOK, panelVars, passVars, dealVars
<1> QED BY <1>2, <1>3, <1>4, <1>5

LEMMA ContractKeepsInv ==
  ASSUME IndInv, NEW p \in Panel, Contract(p)
  PROVE  IndInv'
<1> USE DEF IndInv
<1>1. /\ UNCHANGED <<call, holds, heard, panelVars, passVars, dealVars>>
      /\ at[p] = "accept" /\ at' = [at EXCEPT ![p] = "contracted"]
      /\ \A x \in Agent : call[p][x] \in {"none", "seen"}
  BY DEF Contract, AllSeen, Goes, PanelLeaves
<1>2. TypeOK'
  BY <1>1, Roles DEF TypeOK, panelVars, passVars, dealVars
<1>3. \A c \in Battery : PassOK(c)'
  BY <1>1, Roles DEF PassOK, TypeOK, panelVars, passVars, dealVars
<1>4. \A q \in Panel : ChoiceOK(q)'
  BY <1>1, Roles DEF ChoiceOK, PassOK, TypeOK, panelVars, passVars, dealVars
<1>5. \A c \in Battery, q \in Panel : DealOK(c, q)'
  BY <1>1, Roles DEF DealOK, ChoiceOK, PassOK, TypeOK, panelVars, passVars, dealVars
<1> QED BY <1>2, <1>3, <1>4, <1>5

LEMMA CollectKeepsInv ==
  ASSUME IndInv, NEW p \in Panel, NEW x \in Agent, Collect(p, x)
  PROVE  IndInv'
<1> USE DEF IndInv
<1>1. /\ UNCHANGED <<at, holds, heard, want, chosen, passVars, dealVars>>
      /\ call[p][x] = "answered" /\ call' = [call EXCEPT ![p][x] = "seen"]
      /\ received' = IF at[p] = "poll" /\ holds[p][x]
                     THEN [received EXCEPT ![p] = @ \cup {x}] ELSE received
  BY DEF Collect, PanelLeaves
<1>a. at[p] = "poll" => x \in Battery
  BY <1>1 DEF ChoiceOK
<1>2. TypeOK'
  BY <1>1, Roles, <1>a DEF TypeOK, panelVars, passVars, dealVars
<1>3. \A c \in Battery : PassOK(c)'
  BY <1>1, Roles DEF PassOK, TypeOK, panelVars, passVars, dealVars
<1>4. \A q \in Panel : ChoiceOK(q)'
  BY <1>1, Roles DEF ChoiceOK, PassOK, TypeOK, panelVars, passVars, dealVars
<1>5. \A c \in Battery, q \in Panel : DealOK(c, q)'
  BY <1>1, Roles DEF DealOK, ChoiceOK, PassOK, TypeOK, panelVars, passVars, dealVars
<1> QED BY <1>2, <1>3, <1>4, <1>5

-----------------------------------------------------------------------------
(***************************************************************************)
(* The receiving threads.                                                  *)
(***************************************************************************)
LEMMA TellKeepsInv ==
  ASSUME IndInv, NEW x \in Agent, NEW p \in Panel, Tell(x, p)
  PROVE  IndInv'
<1> USE DEF IndInv
<1>1. /\ UNCHANGED <<at, holds, heard, panelVars, passVars, dealVars>>
      /\ at[p] = "find" /\ call[p][x] = "sent"
      /\ call' = [call EXCEPT ![p][x] = "answered"]
  BY DEF Tell, Answers
<1>2. TypeOK'
  BY <1>1, Roles DEF TypeOK, panelVars, passVars, dealVars
<1>3. \A c \in Battery : PassOK(c)'
  BY <1>1, Roles DEF PassOK, TypeOK, panelVars, passVars, dealVars
<1>4. \A q \in Panel : ChoiceOK(q)'
  BY <1>1, Roles DEF ChoiceOK, PassOK, TypeOK, panelVars, passVars, dealVars
<1>5. \A c \in Battery, q \in Panel : DealOK(c, q)'
  BY <1>1, Roles DEF DealOK, ChoiceOK, PassOK, TypeOK, panelVars, passVars, dealVars
<1> QED BY <1>2, <1>3, <1>4, <1>5

LEMMA NoteKeepsInv ==
  ASSUME IndInv, NEW b \in Battery, NEW p \in Panel, Note(b, p)
  PROVE  IndInv'
<1> USE DEF IndInv
<1>1. /\ UNCHANGED <<at, holds, panelVars, passVars, dealVars>>
      /\ at[p] = "solicit" /\ call[p][b] = "sent"
      /\ heard' = [heard EXCEPT ![b] = @ \cup {p}]
      /\ call' = [call EXCEPT ![p][b] = "answered"]
  BY DEF Note, Answers
<1>2. TypeOK'
  BY <1>1, Roles DEF TypeOK, panelVars, passVars, dealVars
<1>3. \A c \in Battery : PassOK(c)'
  BY <1>1, Roles DEF PassOK, TypeOK, panelVars, passVars, dealVars
<1>4. \A q \in Panel : ChoiceOK(q)'
  BY <1>1, Roles DEF ChoiceOK, PassOK, TypeOK, panelVars, passVars, dealVars
<1>5. \A c \in Battery, q \in Panel : DealOK(c, q)'
  BY <1>1, Roles DEF DealOK, ChoiceOK, PassOK, TypeOK, panelVars, passVars, dealVars
<1> QED BY <1>2, <1>3, <1>4, <1>5

LEMMA HandOutKeepsInv ==
  ASSUME IndInv, NEW b \in Battery, NEW p \in Panel, HandOut(b, p)
  PROVE  IndInv'
<1> USE DEF IndInv
<1>1. /\ UNCHANGED <<at, heard, panelVars, passVars, dealVars>>
      /\ at[p] = "poll" /\ call[p][b] = "sent"
      /\ holds' = [holds EXCEPT ![p][b] = p \in asks[b]]
      /\ call' = [call EXCEPT ![p][b] = "answered"]
  BY DEF HandOut, Answers
<1>2. TypeOK'
  BY <1>1, Roles DEF TypeOK, panelVars, passVars, dealVars
<1>3. \A c \in Battery : PassOK(c)'
  BY <1>1, Roles DEF PassOK, TypeOK, panelVars, passVars, dealVars
<1>4. \A q \in Panel : ChoiceOK(q)'
  BY <1>1, Roles DEF ChoiceOK, PassOK, TypeOK, panelVars, passVars, dealVars
<1>5. \A c \in Battery, q \in Panel : DealOK(c, q)'
  BY <1>1, Roles DEF DealOK, ChoiceOK, PassOK, TypeOK, panelVars, passVars, dealVars
<1> QED BY <1>2, <1>3, <1>4, <1>5

LEMMA CheckKeepsInv ==
  ASSUME IndInv, NEW b \in Battery, NEW p \in Panel, Check(b, p)
  PROVE  IndInv'
<1> USE DEF IndInv
<1>1. /\ UNCHANGED <<at, holds, heard, panelVars, passVars, commitments>>
      /\ at[p] = "accept" /\ call[p][b] = "sent"
      /\ offers' = [offers EXCEPT ![b] = @ \ {p}]
      /\ \/ call' = [call EXCEPT ![p][b] = "checked"]
         \/ ThreadEnds(b, p)
  BY DEF Check
<1>a. /\ call' \in [Panel -> [Agent -> CallState]]
      /\ call'[p][b] \in {"checked", "lost"}
      /\ \A q \in Panel, x \in Agent :
            call'[q][x] = call[q][x] \/ (q = p /\ x = b) \/ call'[q][x] = "lost"
      /\ \A q \in Panel, x \in Agent : call[q][x] = "none" => call'[q][x] = "none"
      /\ \A q \in Panel, x \in Agent : call'[q][x] = "none" => call[q][x] = "none"
  <2>1. CASE call' = [call EXCEPT ![p][b] = "checked"]
    BY <1>1, <2>1, Roles DEF TypeOK
  <2>2. CASE ThreadEnds(b, p)
    <3>1. PICK others \in SUBSET {q \in Panel \ {p} : call[q][b] = "sent"} :
             call' = [q \in Panel |-> IF q \in others \cup {p}
                                      THEN [call[q] EXCEPT ![b] = "lost"] ELSE call[q]]
      BY <2>2 DEF ThreadEnds
    <3>2. call' \in [Panel -> [Agent -> CallState]]
      BY <3>1, Roles DEF TypeOK
    <3>3. ASSUME NEW q \in Panel, NEW x \in Agent
          PROVE  /\ call'[q][x] = call[q][x] \/ (q = p /\ x = b) \/ call'[q][x] = "lost"
                 /\ call[q][x] = "none" <=> call'[q][x] = "none"
      BY <1>1, <3>1, Roles DEF TypeOK
    <3>4. call'[p][b] = "lost"
      BY <3>1, Roles DEF TypeOK
    <3> QED BY <3>2, <3>3, <3>4
  <2> QED BY <1>1, <2>1, <2>2
<1>b. chosen[p] = b /\ p \in asks[b]
  BY <1>1 DEF DealOK, ChoiceOK
<1>c. /\ offers' \in [Battery -> SUBSET Panel]
      /\ \A c \in Battery, q \in Panel :
            q # p \/ c # b => (q \in offers'[c] <=> q \in offers[c])
  BY <1>1 DEF TypeOK
<1>2. TypeOK'
  BY <1>1, Roles, <1>a DEF TypeOK, panelVars, passVars, dealVars
<1>3. \A c \in Battery : PassOK(c)'
  BY <1>1, Roles DEF PassOK, TypeOK, panelVars, passVars, dealVars
<1>4. \A q \in Panel : ChoiceOK(q)'
  BY <1>1, Roles, <1>a DEF ChoiceOK, PassOK, TypeOK, panelVars, passVars, dealVars
<1>5. ASSUME NEW c \in Battery, NEW q \in Panel PROVE DealOK(c, q)'
  <2>1. DealOK(c, q) /\ c \in Agent /\ UNCHANGED <<at, want, chosen, heard, asks, commitments>>
    BY <1>1, Roles DEF panelVars, passVars
  <2>2. CASE q = p /\ c = b
    BY <1>1, <1>a, <1>b, <2>1, <2>2 DEF DealOK
  <2>3. CASE q # p \/ c # b
    <3>1. \/ call'[q][c] = call[q][c]
          \/ call'[q][c] = "lost" /\ call[q][c] # "none"
      BY <1>a, <2>1, <2>3
    <3>2. q \in offers'[c] <=> q \in offers[c]
      BY <1>c, <2>3
    <3> QED BY <2>1, <3>1, <3>2 DEF DealOK
  <2> QED BY <2>2, <2>3
<1> QED BY <1>2, <1>3, <1>4, <1>5

LEMMA CommitKeepsInv ==
  ASSUME IndInv, NEW b \in Battery, NEW p \in Panel, Commit(b, p)
  PROVE  IndInv'
<1> USE DEF IndInv
<1>1. /\ UNCHANGED <<at, holds, heard, panelVars, passVars, offers>>
      /\ call[p][b] = "checked" /\ call' = [call EXCEPT ![p][b] = "answered"]
      /\ commitments' = [commitments EXCEPT ![b] = @ \cup {p}]
  BY DEF Commit, Answers
<1>2. TypeOK'
  BY <1>1, Roles DEF TypeOK, panelVars, passVars, dealVars
<1>3. \A c \in Battery : PassOK(c)'
  BY <1>1, Roles DEF PassOK, TypeOK, panelVars, passVars, dealVars
<1>4. \A q \in Panel : ChoiceOK(q)'
  BY <1>1, Roles DEF ChoiceOK, PassOK, TypeOK, panelVars, passVars, dealVars
<1>5. \A c \in Battery, q \in Panel : DealOK(c, q)'
  BY <1>1, Roles DEF DealOK, ChoiceOK, PassOK, TypeOK, panelVars, passVars, dealVars
<1> QED BY <1>2, <1>3, <1>4, <1>5

-----------------------------------------------------------------------------
(***************************************************************************)
(* The pass of a battery, and the end of an agent.                         *)
(***************************************************************************)
LEMMA StartPassKeepsInv ==
  ASSUME IndInv, NEW b \in Battery, StartPass(b)
  PROVE  IndInv'
<1> USE DEF IndInv
<1>1. /\ UNCHANGED <<call, holds, heard, panelVars, asks, dealVars>>
      /\ at[b] = "watch" /\ at' = [at EXCEPT ![b] = "pass"]
      /\ pass' = [pass EXCEPT ![b] = heard[b]]
      /\ todo' = [todo EXCEPT ![b] = heard[b]]
  BY DEF StartPass, Goes, BatteryLeaves, dealVars
<1>2. TypeOK'
  BY <1>1, Roles DEF TypeOK, panelVars, passVars, dealVars
<1>3. \A c \in Battery : PassOK(c)'
  BY <1>1, Roles DEF PassOK, TypeOK, panelVars, passVars, dealVars
<1>4. \A q \in Panel : ChoiceOK(q)'
  BY <1>1, Roles DEF ChoiceOK, PassOK, TypeOK, panelVars, passVars, dealVars
<1>5. \A c \in Battery, q \in Panel : DealOK(c, q)'
  BY <1>1, Roles DEF DealOK, ChoiceOK, PassOK, TypeOK, panelVars, passVars, dealVars
<1> QED BY <1>2, <1>3, <1>4, <1>5

LEMMA ConstructAskKeepsInv ==
  ASSUME IndInv, NEW b \in Battery, NEW p \in Panel, ConstructAsk(b, p)
  PROVE  IndInv'
<1> USE DEF IndInv
<1>1. /\ UNCHANGED <<at, call, holds, heard, panelVars, pass, commitments>>
      /\ at[b] = "pass" /\ p \in todo[b] /\ want[p] <= Room[b]
      /\ todo' = [todo EXCEPT ![b] = @ \ {p}]
      /\ asks' = [asks EXCEPT ![b] = @ \cup {p}]
      /\ offers' = [offers EXCEPT ![b] = @ \cup {p}]
  BY DEF ConstructAsk, BatteryLeaves
<1>2. TypeOK'
  BY <1>1, Roles DEF TypeOK, panelVars, passVars, dealVars
<1>3. \A c \in Battery : PassOK(c)'
  BY <1>1, Roles DEF PassOK, TypeOK, panelVars, passVars, dealVars
<1>4. \A q \in Panel : ChoiceOK(q)'
  BY <1>1, Roles DEF ChoiceOK, PassOK, TypeOK, panelVars, passVars, dealVars
<1>5. \A c \in Battery, q \in Panel : DealOK(c, q)'
  BY <1>1, Roles DEF DealOK, ChoiceOK, PassOK, TypeOK, panelVars, passVars, dealVars
<1> QED BY <1>2, <1>3, <1>4, <1>5

LEMMA PassEndsKeepsInv ==
  ASSUME IndInv, NEW b \in Battery, PassBreaks(b) \/ EndPass(b) \/ \E p \in Panel : CannotAsk(b, p)
  PROVE  IndInv'
<1> USE DEF IndInv
<1>1. /\ UNCHANGED <<call, holds, heard, panelVars, passVars, dealVars>>
      /\ at[b] = "pass"
      /\ \/ at' = [at EXCEPT ![b] = "failed"]
         \/ at' = [at EXCEPT ![b] = "open"]
  BY DEF PassBreaks, EndPass, CannotAsk, Goes, BatteryLeaves, dealVars
<1>2. TypeOK'
  BY <1>1, Roles DEF TypeOK, panelVars, passVars, dealVars
<1>3. \A c \in Battery : PassOK(c)'
  BY <1>1, Roles DEF PassOK, TypeOK, panelVars, passVars, dealVars
<1>4. \A q \in Panel : ChoiceOK(q)'
  BY <1>1, Roles DEF ChoiceOK, PassOK, TypeOK, panelVars, passVars, dealVars
<1>5. \A c \in Battery, q \in Panel : DealOK(c, q)'
  BY <1>1, Roles DEF DealOK, ChoiceOK, PassOK, TypeOK, panelVars, passVars, dealVars
<1> QED BY <1>2, <1>3, <1>4, <1>5

LEMMA DieKeepsInv ==
  ASSUME IndInv, NEW y \in Agent, Die(y)
  PROVE  IndInv'
<1> USE DEF IndInv
<1>1. /\ UNCHANGED <<holds, heard, panelVars, passVars, dealVars>>
      /\ at' = [at EXCEPT ![y] = "gone"]
      /\ \E lost \in SUBSET {p \in Panel : call[p][y] = "answered"} :
            call' = [p \in Panel |-> IF p \in lost \/ call[p][y] \in {"sent", "checked"}
                                     THEN [call[p] EXCEPT ![y] = "lost"] ELSE call[p]]
  BY DEF Die
<1>a. /\ call' \in [Panel -> [Agent -> CallState]]
      /\ \A q \in Panel, x \in Agent :
            \/ call'[q][x] = call[q][x]
            \/ call[q][x] \in {"answered", "sent", "checked"} /\ call'[q][x] = "lost"
  BY <1>1 DEF TypeOK
<1>2. TypeOK'
  BY <1>1, Roles, <1>a DEF TypeOK, panelVars, passVars, dealVars
<1>3. \A c \in Battery : PassOK(c)'
  BY <1>1, Roles DEF PassOK, TypeOK, panelVars, passVars, dealVars
<1>4. \A q \in Panel : ChoiceOK(q)'
  BY <1>1, Roles, <1>a DEF ChoiceOK, PassOK, TypeOK, panelVars, passVars, dealVars
<1>5. \A c \in Battery, q \in Panel : DealOK(c, q)'
  BY <1>1, Roles, <1>a DEF DealOK, ChoiceOK, PassOK, TypeOK, panelVars, passVars, dealVars
<1> QED BY <1>2, <1>3, <1>4, <1>5

-----------------------------------------------------------------------------
LEMMA InitInv ==
  ASSUME Init
  PROVE  IndInv
<1>1. TypeOK
  BY Roles DEF Init, TypeOK
<1>2. \A b \in Battery : PassOK(b)
  BY DEF Init, PassOK
<1>3. \A p \in Panel : ChoiceOK(p)
  BY Roles DEF Init, ChoiceOK
<1>4. \A b \in Battery, p \in Panel : DealOK(b, p)
  BY Roles DEF Init, DealOK
<1> QED BY <1>1, <1>2, <1>3, <1>4 DEF IndInv

LEMMA NextInv ==
  ASSUME IndInv, [Next]_vars
  PROVE  IndInv'
<1>1. CASE UNCHANGED vars
  BY <1>1 DEF vars, panelVars, passVars, dealVars, IndInv, TypeOK, PassOK, ChoiceOK, DealOK
<1>2. ASSUME NEW x \in Agent, Join(x) \/ Die(x) PROVE IndInv'
  BY <1>2, JoinKeepsInv, DieKeepsInv
<1>3. ASSUME NEW p \in Panel, PanelStep(p) PROVE IndInv'
  BY <1>3, FindKeepsInv, SolicitKeepsInv, PollKeepsInv, AcceptKeepsInv, ContractKeepsInv,
     CollectKeepsInv DEF PanelStep
<1>4. ASSUME NEW b \in Battery, BatteryStep(b) PROVE IndInv'
  BY <1>4, StartPassKeepsInv, ConstructAskKeepsInv, PassEndsKeepsInv DEF BatteryStep
<1>5. ASSUME NEW x \in Agent, NEW p \in Panel, ReceivingThread(x, p) PROVE IndInv'
  BY <1>5, TellKeepsInv, NoteKeepsInv, HandOutKeepsInv, CheckKeepsInv, CommitKeepsInv
     DEF ReceivingThread
<1> QED BY <1>1, <1>2, <1>3, <1>4, <1>5 DEF Next
-----------------------------------------------------------------------------
\* Asks, offers, calls and commitments agree with each other in every reachable
\* state, under every interleaving of a battery's threads (asset_handler,
\* command_handler, ask_accepted).
THEOREM Invariance == Spec => []IndInv
<1>1. Init => IndInv
  BY InitInv
<1>2. IndInv /\ [Next]_vars => IndInv'
  BY NextInv
<1> QED BY <1>1, <1>2, PTL DEF Spec

\* A panel with a contract is among the commitments of the battery it chose, and
\* nobody is who did not choose it (accept_best_ask and ask_accepted).
THEOREM SidesAgree == Spec => []Agreement
<1>1. IndInv => Agreement
  <2> SUFFICES ASSUME IndInv PROVE Agreement
    OBVIOUS
  <2>1. \A p \in Panel : at[p] = "contracted" => p \in commitments[chosen[p]]
    BY DEF IndInv, ChoiceOK, DealOK
  <2>2. \A b \in Battery : \A p \in commitments[b] : chosen[p] = b /\ want[p] <= Room[b]
    BY DEF IndInv, TypeOK, DealOK
  <2> QED BY <2>1, <2>2 DEF Agreement
<1> QED BY <1>1, Invariance, PTL

\* remove_offer finds the offer that an acceptance is about.
THEOREM OfferIsOpen == Spec => []OfferOpen
<1>1. IndInv => OfferOpen
  <2> SUFFICES ASSUME IndInv, NEW p \in Panel, NEW b \in Battery,
                      at[p] = "accept", call[p][b] = "sent"
               PROVE  p \in offers[b]
    BY DEF OfferOpen
  <2> QED BY DEF IndInv, DealOK
<1> QED BY <1>1, Invariance, PTL
=============================================================================
