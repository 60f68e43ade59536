------------------------- MODULE AnalysisGraphProofs -------------------------
(***************************************************************************)
(* Theorems about the agents' workflow, for every set of analysts, every   *)
(* number of rounds and every bound on claims and empty replies.           *)
(*                                                                         *)
(* What the judges hear and how long a run is are consequences of counts:  *)
(* a debate stores how many turns were taken and who took the last one,    *)
(* and the edges of the graph decide on these two alone.  The invariant    *)
(* says what the counts mean (InvOrder, RiskOrder: who has said how much), *)
(* how far the debate is at each node (InvProgress, RiskProgress), which   *)
(* draft is in front of whom (Drafts), and how many supersteps that took   *)
(* (StepsCounted).  Written and ShownHasRun tie what the browser is shown  *)
(* to what was written, and what was written to who has run.               *)
(*                                                                         *)
(* The last section is about the chat's stream and panel (ChatStream),     *)
(* whose behaviours are its own: no variable is shared with the workflow.  *)
(***************************************************************************)
EXTENDS AnalysisGraph, ChatStream, SequenceTheorems, TLAPS

-----------------------------------------------------------------------------
(* The inductive invariant.                                                *)

\* The bull opens a debate and the two sides take turns.
InvOrder ==
    /\ inv.count = inv.said["bull"] + inv.said["bear"]
    /\ \/ inv.last = "bull" /\ inv.said["bull"] = inv.said["bear"] + 1
       \/ inv.last \in {"none", "bear"} /\ inv.said["bull"] = inv.said["bear"]

\* The three risk analysts speak in turn until the judge has ruled.
RiskOrder ==
    LET a == risk.said["aggressive"]
        c == risk.said["conservative"]
        n == risk.said["neutral"]
    IN  /\ risk.count = a + c + n
        /\ \/ risk.last \in {"none", "neutral"} /\ a = c /\ c = n
           \/ risk.last = "aggressive" /\ a = c + 1 /\ c = n
           \/ risk.last = "conservative" /\ a = c /\ c = n + 1
           \/ risk.last = "judge"

\* How far the debate of the researchers is when a node runs.
Later == {"research_manager", "trader", "end"} \cup RiskTeam
InvProgress ==
    /\ node \in {"analysts", "done"} => inv.count = 0 /\ inv.last = "none"
    /\ node = "bull" =>
           inv.last # "bull" /\ (inv.count = 0 \/ inv.count < 2 * DebateRounds)
    /\ node = "bear" => inv.last = "bull" /\ inv.count < 2 * DebateRounds
    /\ node \in Later => inv.count = Turns(2, DebateRounds)

\* How far the risk debate is; before the first plan there is none.
NoRiskYet == risk.count = 0 /\ risk.last = "none"
RiskProgress ==
    /\ plan.draft = 0 => NoRiskYet
    /\ node = "aggressive" =>
           /\ risk.last \in {"none", "neutral"}
           /\ risk.count = 0 \/ risk.count < 3 * RiskRounds
    /\ node = "conservative" =>
           risk.last = "aggressive" /\ risk.count < 3 * RiskRounds
    /\ node = "neutral" =>
           risk.last = "conservative" /\ risk.count < 3 * RiskRounds
    /\ node = "portfolio_manager" =>
           risk.last # "judge" /\ risk.count = Turns(3, RiskRounds)

\* Which draft is on the table, and what was ruled on the one before it.
Early == {"analysts", "done", "bull", "bear", "research_manager"}
Unruled == feedback.retries = 0 /\ decision.draft = 0
Drafts ==
    /\ node \in Early => plan.draft = 0 /\ Unruled
    /\ node = "trader" =>
           \/ plan.draft = 0 /\ Unruled
           \/ /\ plan.draft = 1 /\ decision.draft = 1
              /\ feedback.retries = 1 /\ feedback.verdict = "revise"
    /\ node \in RiskTeam =>
           \/ plan.draft = 1 /\ Unruled
           \/ plan.draft = 2 /\ decision.draft = 1 /\ feedback.retries = 1
    /\ node = "end" =>
           /\ plan.draft \in {1, 2} /\ decision.draft = plan.draft
           /\ decision.verdict = "revise" => plan.draft = 2

\* What is written was written by a node that ran.
Written ==
    /\ inv.judged # "none" =>
           /\ invPlan # "none"
           /\ DebateRounds > 0 => inv.said["bull"] > 0 /\ inv.said["bear"] > 0
    /\ plan.text # "none" => plan.draft > 0
    /\ feedback.verdict # "none" => decision.draft > 0
    /\ risk.judged # "none" => decision.draft > 0

\* Supersteps of the draft's trader, risk debate and judge, for each draft.
Cycle == 2 + Turns(3, RiskRounds)
Cycles(drafts) ==
    IF drafts = 0 THEN 0 ELSE IF drafts = 1 THEN Cycle ELSE Cycle + Cycle
StepsCounted ==
    /\ node = "analysts" => steps = 0
    /\ node = "done" => steps = 1
    /\ node \in {"bull", "bear", "research_manager"} => steps = 2 + inv.count
    /\ node \in {"trader", "end"} =>
           steps = 3 + Turns(2, DebateRounds) + Cycles(plan.draft)
    /\ node \in RiskTeam =>
           steps = 4 + Turns(2, DebateRounds) + Cycles(plan.draft - 1)
                     + risk.count
    /\ node = "broken" => steps <= LongestRun

\* The three parts of ShownAgrees.
ShownHasRun ==
    outcome = "open" /\ RiskRounds > 0 /\ DebateRounds > 0 =>
       \A a \in Agents : shown[a] = "completed" => HasRun(a)
RowIsCurrent ==
    ~chunk /\ node # "broken" =>
       /\ plan.text = "text" => row.draft = plan.draft
       /\ decision.text = "text" => row.ruledOn = decision.draft
ResultIsRuled ==
    outcome = "result" /\ route = "intent" =>
       /\ decision.draft = plan.draft /\ plan.draft > 0
       /\ decision.verdict = "revise" => plan.draft > MaxRetries

\* The debates, the drafts, the claims and the count of supersteps.
Core ==
    /\ ClaimsAgree /\ InvOrder /\ InvProgress /\ RiskOrder /\ RiskProgress
    /\ Drafts /\ Written /\ StepsCounted

IInv == TypeOK /\ Core /\ ShownHasRun /\ RowIsCurrent /\ ResultIsRuled

-----------------------------------------------------------------------------
(* The claims of a debate.                                                 *)

ClaimStatus == {"open", "addressed", "resolved", "unresolved"}
Books == [status : Seq(ClaimStatus), open : SUBSET Nat, resolved : SUBSET Nat,
          unresolved : SUBSET Nat]

\* The rounds are numbers.
LEMMA Rounds == DebateRounds \in Nat /\ RiskRounds \in Nat
BY RoundsAssumption

\* A claim is one of the numbers up to how many there are.
LEMMA Claims ==
    ASSUME NEW book \in Books
    PROVE /\ Len(book.status) \in Nat /\ ClaimIds(book) = 1..Len(book.status)
          /\ \A i \in ClaimIds(book) : book.status[i] \in ClaimStatus
<1>1. book.status \in Seq(ClaimStatus)
  BY DEF Books
<1> QED
  BY <1>1, LenProperties DEF ClaimIds

\* After a reply the four views of its claims still agree, whatever it says.
LEMMA BookStep ==
    ASSUME NEW book \in Books, BookAgrees(book), NEW p \in Payloads(book)
    PROVE UpdatedBook(book, p) \in Books /\ BookAgrees(UpdatedBook(book, p))
<1> DEFINE n == Len(book.status)
           m == n + p.new
           status == [i \in 1..m |->
              IF i \in (n + 1)..m THEN "open"
              ELSE IF i \in p.unresolved THEN "unresolved"
              ELSE IF i \in p.resolved THEN "resolved"
              ELSE IF i \in p.responded /\ book.status[i] = "open"
                   THEN "addressed" ELSE book.status[i]]
           open == ((book.open \ p.resolved) \cup p.unresolved)
                     \cup ((n + 1)..m)
           resolved == (book.resolved \cup p.resolved) \ p.unresolved
           unresolved == (book.unresolved \ p.resolved) \cup p.unresolved
           new == UpdatedBook(book, p)
<1>1. /\ n \in Nat /\ ClaimIds(book) = 1..n
      /\ \A i \in 1..n : book.status[i] \in ClaimStatus
  BY Claims
<1>2. /\ p.new \in Nat
      /\ p.resolved \subseteq 1..n /\ p.unresolved \subseteq 1..n
  BY <1>1 DEF Payloads
<1>3. new = [status |-> status, open |-> open, resolved |-> resolved,
             unresolved |-> unresolved]
  BY DEF UpdatedBook
<1> HIDE DEF new
<1>4. m \in Nat /\ n <= m
  BY <1>1, <1>2
<1>5. status \in Seq(ClaimStatus) /\ DOMAIN status = 1..m
  <2>1. status \in [1..m -> ClaimStatus]
    <3> SUFFICES ASSUME NEW i \in 1..m PROVE status[i] \in ClaimStatus
      OBVIOUS
    <3>1. i \notin (n + 1)..m => i \in 1..n
      BY <1>1, <1>4
    <3> QED  BY <1>1, <3>1 DEF ClaimStatus
  <2> QED  BY <1>4, <2>1, SeqDef
<1>6. /\ book.open = 1..n \ book.resolved
      /\ book.resolved = {i \in 1..n : book.status[i] = "resolved"}
      /\ book.unresolved = {i \in 1..n : book.status[i] = "unresolved"}
  BY <1>1 DEF BookAgrees
<1>7. \A i : i \in 1..m <=> i \in 1..n \/ i \in (n + 1)..m
  BY <1>1, <1>4
<1>8. \A i \in 1..n : i \notin (n + 1)..m
  BY <1>1, <1>4
<1> DEFINE N == 1..n
           New == (n + 1)..m
           M == 1..m
           old == book.status
<1>9. /\ \A i \in New : status[i] = "open"
      /\ \A i \in N : status[i] =
            IF i \in p.unresolved THEN "unresolved"
            ELSE IF i \in p.resolved THEN "resolved"
            ELSE IF i \in p.responded /\ old[i] = "open"
                 THEN "addressed" ELSE old[i]
  BY <1>7, <1>8
<1> HIDE DEF N, New, M, old, status, m, n
<1>10. M = N \cup New /\ N \cap New = {}
  BY <1>7, <1>8 DEF N, New, M
<1>11. /\ p.resolved \subseteq N /\ p.unresolved \subseteq N
       /\ book.open = N \ book.resolved
       /\ book.resolved = {i \in N : old[i] = "resolved"}
       /\ book.unresolved = {i \in N : old[i] = "unresolved"}
  BY <1>2, <1>6 DEF N, old
<1>12. open = ((book.open \ p.resolved) \cup p.unresolved) \cup New
  BY DEF New
<1>13. resolved = {i \in M : status[i] = "resolved"}
  BY <1>9, <1>10, <1>11
<1>14. unresolved = {i \in M : status[i] = "unresolved"}
  BY <1>9, <1>10, <1>11
<1>15. open = M \ resolved
  BY <1>9, <1>10, <1>11, <1>12
<1> HIDE DEF open, resolved, unresolved
<1>16. M \subseteq Nat /\ DOMAIN status = M
  BY <1>4, <1>5 DEF M
<1>17. open \subseteq Nat /\ resolved \subseteq Nat /\ unresolved \subseteq Nat
  BY <1>13, <1>14, <1>15, <1>16
<1>18. new \in Books
  BY <1>3, <1>5, <1>17 DEF Books
<1>19. /\ new.status = status /\ new.open = open /\ new.resolved = resolved
       /\ new.unresolved = unresolved
  BY <1>3
<1>20. BookAgrees(new)
  BY <1>13, <1>14, <1>15, <1>16, <1>19 DEF BookAgrees, ClaimIds
<1> QED
  BY <1>18, <1>20 DEF new

\* The type of a debate, field by field.
LEMMA DebateType ==
    ASSUME NEW S, NEW d
    PROVE d \in DebateIn(S) =>
             /\ d.count \in Nat /\ d.last \in S \cup {"none", "judge"}
             /\ d.said \in [S -> Nat] /\ d.judged \in Text /\ d.book \in Books
BY DEF DebateIn, Books, ClaimStatus

\* A speech takes a turn and keeps the claims in agreement.
LEMMA SpeechEffect ==
    ASSUME NEW S, NEW debate \in DebateIn(S), BookAgrees(debate.book),
           NEW speaker \in S, NEW p \in Payloads(debate.book)
    PROVE LET d == AfterSpeech(debate, speaker, p)
          IN  /\ d \in DebateIn(S) /\ BookAgrees(d.book)
              /\ d.count = debate.count + 1 /\ d.last = speaker
              /\ d.said[speaker] = debate.said[speaker] + 1
              /\ \A s \in S \ {speaker} : d.said[s] = debate.said[s]
              /\ d.judged = debate.judged
<1> DEFINE book == UpdatedBook(debate.book, p)
           d == AfterSpeech(debate, speaker, p)
           said == [debate.said EXCEPT ![speaker] = @ + 1]
<1>1. /\ debate.count \in Nat /\ debate.said \in [S -> Nat]
      /\ debate.judged \in Text /\ debate.book \in Books
  BY DebateType
<1>2. book \in Books /\ BookAgrees(book)
  BY <1>1, BookStep
<1>3. /\ said \in [S -> Nat] /\ said[speaker] = debate.said[speaker] + 1
      /\ \A s \in S \ {speaker} : said[s] = debate.said[s]
  BY <1>1
<1>4. d = [debate EXCEPT !.count = debate.count + 1, !.last = speaker,
                         !.said = said, !.book = book]
  BY DEF AfterSpeech
<1> HIDE DEF book, said, d
<1>5. d = [count |-> debate.count + 1, last |-> speaker, said |-> said,
           judged |-> debate.judged, book |-> book]
  BY <1>4 DEF DebateIn
<1>6. d \in DebateIn(S)
  BY <1>1, <1>2, <1>3, <1>5 DEF DebateIn, Books, ClaimStatus
<1> QED
  BY <1>2, <1>3, <1>5, <1>6 DEF d

\* A new debate.
LEMMA NewDebateEffect ==
    ASSUME NEW S
    PROVE LET d == NewDebate(S)
          IN  /\ d \in DebateIn(S) /\ BookAgrees(d.book)
              /\ d.count = 0 /\ d.last = "none" /\ d.judged = "none"
              /\ \A s \in S : d.said[s] = 0
<1>1. /\ <<>> \in Seq(ClaimStatus) /\ Len(<<>>) = 0
  BY EmptySeq
<1>2. EmptyBook \in Books
  BY <1>1 DEF EmptyBook, Books
<1>3. BookAgrees(EmptyBook)
  <2>1. ClaimIds(EmptyBook) = {}
    BY <1>1, <1>2, Claims DEF EmptyBook
  <2> QED  BY <2>1 DEF BookAgrees, EmptyBook
<1>4. NewDebate(S).said \in [S -> Nat]
  BY DEF NewDebate
<1>5. NewDebate(S) \in DebateIn(S)
  BY <1>2, <1>4 DEF NewDebate, DebateIn, Books, ClaimStatus, Text
<1> QED
  BY <1>3, <1>5 DEF NewDebate

-----------------------------------------------------------------------------
(* Debates, drafts and steps, node by node.                                *)

coreVars == <<node, inv, risk, plan, invPlan, feedback, decision, steps>>

\* What the types say of the numbers.
LEMMA Numbers ==
    ASSUME TypeOK
    PROVE /\ inv \in DebateIn(InvSpeakers) /\ risk \in DebateIn(RiskSpeakers)
          /\ inv.count \in Nat /\ inv.said["bull"] \in Nat
          /\ inv.said["bear"] \in Nat
          /\ risk.count \in Nat /\ risk.said["aggressive"] \in Nat
          /\ risk.said["conservative"] \in Nat /\ risk.said["neutral"] \in Nat
          /\ plan.draft \in 0..2 /\ feedback.retries \in 0..2
          /\ decision.draft \in 0..2 /\ steps \in Nat
          /\ Turns(2, DebateRounds) \in Nat /\ Turns(3, RiskRounds) \in Nat
<1>1. /\ inv \in DebateIn(InvSpeakers) /\ risk \in DebateIn(RiskSpeakers)
      /\ plan.draft \in 0..2 /\ feedback.retries \in 0..2
      /\ decision.draft \in 0..2 /\ steps \in Nat
  BY DEF TypeOK, MaxRetries
<1>2. /\ inv.count \in Nat /\ inv.said \in [InvSpeakers -> Nat]
      /\ risk.count \in Nat /\ risk.said \in [RiskSpeakers -> Nat]
  BY <1>1, DebateType
<1> QED
  BY <1>1, <1>2, Rounds DEF InvSpeakers, RiskSpeakers, Turns

\* A step that touches none of it.
LEMMA CoreSame == ASSUME Core, UNCHANGED coreVars PROVE Core'
BY DEF Core, coreVars, ClaimsAgree, InvOrder, InvProgress, RiskOrder,
   NoRiskYet, RiskProgress, Drafts, Unruled, Written, StepsCounted

\* The bound of the run.
LEMMA CoreIsShort == ASSUME TypeOK, Core PROVE RunIsShort
<1>1. /\ node \in {"analysts", "done", "trader", "end", "broken"}
                    \cup ResearchTeam \cup RiskTeam
  BY DEF TypeOK
<1>2. LongestRun = 3 + Turns(2, DebateRounds) + Cycle + Cycle
  BY Numbers DEF LongestRun, MaxRetries, Cycle
<1>3. Turns(3, RiskRounds) >= 1 /\ Turns(2, DebateRounds) >= 1
  BY Rounds DEF Turns
<1>4. CASE node \in Early
  <2>1. inv.count <= Turns(2, DebateRounds)
    BY <1>3, <1>4, Numbers, Rounds
       DEF Core, InvProgress, Early, Later, RiskTeam, Turns
  <2> QED  BY <1>2, <1>3, <1>4, <2>1, Numbers
           DEF Core, StepsCounted, Early, RunIsShort, Cycle
<1>5. CASE node \in {"trader", "end"}
  <2>1. Cycles(plan.draft) <= Cycle + Cycle
    BY <1>3, Numbers DEF Cycles, Cycle
  <2> QED  BY <1>2, <1>5, <2>1, Numbers
           DEF Core, StepsCounted, RunIsShort, Cycles, Cycle
<1>6. CASE node \in RiskTeam
  <2>1. risk.count <= Turns(3, RiskRounds)
    BY <1>3, <1>6, Numbers, Rounds DEF Core, RiskProgress, RiskTeam, Turns
  <2>2. plan.draft \in {1, 2}
    BY <1>6 DEF Core, Drafts
  <2> QED  BY <1>2, <1>3, <1>6, <2>1, <2>2, Numbers
           DEF Core, StepsCounted, RunIsShort, Cycles, Cycle
<1>7. CASE node = "broken"
  BY <1>7 DEF Core, StepsCounted, RunIsShort
<1> QED
  BY <1>1, <1>4, <1>5, <1>6, <1>7 DEF Early, ResearchTeam

\* A run that breaks off has taken no step too many.
LEMMA CoreBreaks ==
    ASSUME TypeOK, Core, node' = "broken",
           UNCHANGED <<inv, risk, plan, invPlan, feedback, decision, steps>>
    PROVE Core'
<1>1. RunIsShort
  BY CoreIsShort
<1> QED
  BY <1>1 DEF Core, ClaimsAgree, InvOrder, InvProgress, RiskOrder, NoRiskYet,
     RiskProgress, Drafts, Written, StepsCounted, Later, RiskTeam, Early,
     RunIsShort

\* The two supersteps before the debate.
LEMMA CoreAnalysts ==
    ASSUME TypeOK, Core, AnalystsReturned \/ AnalystsDone PROVE Core'
<1>1. /\ \/ node = "analysts" /\ node' = "done"
         \/ node = "done" /\ node' = "bull"
      /\ steps' = steps + 1
      /\ UNCHANGED <<inv, risk, plan, invPlan, feedback, decision>>
  BY DEF AnalystsReturned, AnalystsDone, Runs, Goto, debateVars, tradeVars
<1>2. ClaimsAgree' /\ InvOrder' /\ RiskOrder' /\ Written'
  BY <1>1 DEF Core, ClaimsAgree, InvOrder, RiskOrder, Written
<1>3. InvProgress' /\ RiskProgress' /\ Drafts'
  BY <1>1 DEF Core, InvProgress, RiskProgress, NoRiskYet, Drafts, Unruled,
     Later, RiskTeam, Early
<1>4. StepsCounted'
  BY <1>1, Numbers DEF Core, StepsCounted, RiskTeam, InvProgress
<1> QED
  BY <1>2, <1>3, <1>4 DEF Core

\* A speech of the bull or the bear: the turn passes on, or the debate is over
\* with as many speeches of each.
LEMMA CoreInvSpeech ==
    ASSUME TypeOK, Core, NEW s \in InvSpeakers, InvSpeech(s) PROVE Core'
<1>1. /\ node = s /\ node' = ShouldContinueDebate(inv') /\ steps' = steps + 1
      /\ UNCHANGED <<risk, plan, invPlan, feedback, decision>>
  BY DEF InvSpeech, Runs, Goto, tradeVars
<1>2. PICK p \in Payloads(inv.book) : inv' = AfterSpeech(inv, s, p)
  BY DEF InvSpeech
<1>3. /\ BookAgrees(inv'.book) /\ inv'.count = inv.count + 1 /\ inv'.last = s
      /\ inv'.said[s] = inv.said[s] + 1
      /\ \A t \in InvSpeakers \ {s} : inv'.said[t] = inv.said[t]
      /\ inv'.judged = inv.judged
  BY <1>2, Numbers, SpeechEffect DEF Core, ClaimsAgree
<1>4. s \in {"bull", "bear"}
  BY DEF InvSpeakers
<1>5. ClaimsAgree' /\ RiskOrder'
  BY <1>1, <1>3 DEF Core, ClaimsAgree, RiskOrder
<1>6. InvOrder'
  BY <1>1, <1>3, <1>4, Numbers DEF Core, InvOrder, InvProgress, InvSpeakers
<1>7. /\ s = "bull" => inv.count = inv.said["bear"] + inv.said["bear"]
      /\ s = "bear" =>
             inv.count = inv.said["bear"] + inv.said["bear"] + 1
  BY <1>1, Numbers DEF Core, InvOrder, InvProgress
<1>8. InvProgress'
  BY <1>1, <1>3, <1>4, <1>7, Numbers, Rounds
     DEF Core, InvProgress, ShouldContinueDebate, Later, RiskTeam, Turns
<1>9. node' \in {"bull", "bear", "research_manager"}
  BY <1>1 DEF ShouldContinueDebate
<1>10. RiskProgress' /\ Drafts'
  BY <1>1, <1>4, <1>9 DEF Core, RiskProgress, NoRiskYet, Drafts, Unruled,
     RiskTeam, Early
<1>11. Written'
  BY <1>1, <1>3, <1>4, Numbers DEF Core, Written, InvSpeakers
<1>12. StepsCounted'
  BY <1>1, <1>3, <1>4, <1>9, Numbers DEF Core, StepsCounted, RiskTeam
<1> QED
  BY <1>5, <1>6, <1>8, <1>10, <1>11, <1>12 DEF Core

\* The research manager rules when each side has had all its turns.
LEMMA CoreResearchManager ==
    ASSUME TypeOK, Core, ResearchManager PROVE Core'
<1>1. PICK text \in {"empty", "text"} :
          inv' = [inv EXCEPT !.judged = text] /\ invPlan' = text
  BY DEF ResearchManager, Reply
<1>2. /\ node = "research_manager" /\ node' = "trader" /\ steps' = steps + 1
      /\ UNCHANGED <<risk, plan, feedback, decision>>
  BY DEF ResearchManager, Runs, Goto, tradeVars
<1>3. /\ inv'.count = inv.count /\ inv'.last = inv.last
      /\ inv'.said = inv.said /\ inv'.book = inv.book
  BY <1>1, Numbers DEF DebateIn
<1>4. ClaimsAgree' /\ InvOrder' /\ RiskOrder'
  BY <1>2, <1>3 DEF Core, ClaimsAgree, InvOrder, RiskOrder
<1>5. inv.count = Turns(2, DebateRounds)
  BY <1>2 DEF Core, InvProgress, Later
<1>6. InvProgress' /\ RiskProgress' /\ Drafts'
  BY <1>2, <1>3, <1>5 DEF Core, InvProgress, RiskProgress, NoRiskYet, Drafts,
     Unruled, Later, RiskTeam, Early
<1>7. Written'
  <2>1. DebateRounds > 0 => inv.said["bull"] > 0 /\ inv.said["bear"] > 0
    BY <1>5, Numbers, Rounds DEF Core, InvOrder, Turns
  <2> QED  BY <1>1, <1>2, <1>3, <2>1 DEF Core, Written
<1>8. StepsCounted'
  BY <1>2, <1>5, Numbers DEF Core, StepsCounted, RiskTeam, Drafts, Early,
     Cycles
<1> QED
  BY <1>4, <1>6, <1>7, <1>8 DEF Core

\* A draft opens a risk debate: the first finds none, the second a new one.
LEMMA CoreTrader == ASSUME TypeOK, Core, Trader PROVE Core'
<1>1. PICK text \in {"empty", "text"} :
          plan' = [draft |-> plan.draft + 1, text |-> text]
  BY DEF Trader, Reply
<1>2. /\ node = "trader" /\ node' = "aggressive" /\ steps' = steps + 1
      /\ UNCHANGED <<inv, invPlan, decision>>
      /\ IF feedback.verdict = "revise"
         THEN /\ risk' = NewDebate(RiskSpeakers)
              /\ feedback' = [feedback EXCEPT !.required = FALSE]
         ELSE risk' = risk /\ feedback' = feedback
  BY DEF Trader, Runs, Goto, debateVars
<1>3. plan'.draft = plan.draft + 1 /\ plan.draft \in {0, 1}
  BY <1>1, <1>2, Numbers DEF Core, Drafts
<1>4. feedback'.retries = feedback.retries /\ feedback'.verdict = feedback.verdict
  BY <1>2 DEF TypeOK
<1>5. /\ BookAgrees(risk'.book) /\ risk'.count = 0 /\ risk'.last = "none"
      /\ risk'.judged # "none" => decision.draft > 0
      /\ risk'.said["aggressive"] = risk'.said["conservative"]
      /\ risk'.said["conservative"] = risk'.said["neutral"]
      /\ risk'.said["aggressive"] + risk'.said["conservative"]
           + risk'.said["neutral"] = 0
  <2>1. CASE feedback.verdict = "revise"
    <3>1. risk' = NewDebate(RiskSpeakers)
      BY <1>2, <2>1
    <3> QED  BY <3>1, NewDebateEffect DEF RiskSpeakers
  <2>2. CASE feedback.verdict # "revise"
    <3>1. risk' = risk /\ plan.draft = 0
      BY <1>2, <2>2 DEF Core, Drafts
    <3> QED  BY <3>1, Numbers DEF Core, RiskProgress, NoRiskYet, RiskOrder,
             ClaimsAgree, Written
  <2> QED  BY <2>1, <2>2
<1>6. ClaimsAgree' /\ InvOrder' /\ RiskOrder'
  BY <1>2, <1>5 DEF Core, ClaimsAgree, InvOrder, RiskOrder
<1>7. InvProgress' /\ RiskProgress'
  BY <1>2, <1>3, <1>5 DEF Core, InvProgress, RiskProgress, NoRiskYet, Later,
     RiskTeam
<1>8. Drafts'
  BY <1>2, <1>3, <1>4 DEF Core, Drafts, Unruled, RiskTeam, Early
<1>9. Written'
  BY <1>2, <1>3, <1>4, <1>5 DEF Core, Written
<1>10. StepsCounted'
  <2>1. plan'.draft - 1 = plan.draft
    BY <1>3
  <2>2. Cycles(plan'.draft - 1) = Cycles(plan.draft)
    BY <2>1
  <2>3. Cycles(plan.draft) \in Nat
    BY Numbers DEF Cycles, Cycle
  <2>4. steps' = 3 + Turns(2, DebateRounds) + Cycles(plan.draft) + 1
    BY <1>2 DEF Core, StepsCounted
  <2> QED  BY <1>2, <1>5, <2>2, <2>3, <2>4, Numbers DEF StepsCounted, RiskTeam
<1> QED
  BY <1>6, <1>7, <1>8, <1>9, <1>10 DEF Core

\* A speech in the risk debate: the turn passes on, or the debate is over with
\* as many speeches of each.
LEMMA CoreRiskSpeech ==
    ASSUME TypeOK, Core, NEW s \in RiskSpeakers, RiskSpeech(s) PROVE Core'
<1>1. /\ node = s /\ node' = ShouldContinueRisk(risk') /\ steps' = steps + 1
      /\ UNCHANGED <<inv, plan, invPlan, feedback, decision>>
  BY DEF RiskSpeech, Runs, Goto, debateVars
<1>2. PICK p \in Payloads(risk.book) : risk' = AfterSpeech(risk, s, p)
  BY DEF RiskSpeech
<1>3. /\ BookAgrees(risk'.book) /\ risk'.count = risk.count + 1
      /\ risk'.last = s /\ risk'.said[s] = risk.said[s] + 1
      /\ \A t \in RiskSpeakers \ {s} : risk'.said[t] = risk.said[t]
      /\ risk'.judged = risk.judged
  BY <1>2, Numbers, SpeechEffect DEF Core, ClaimsAgree
<1>4. s \in {"aggressive", "conservative", "neutral"} /\ node \in RiskTeam
  BY <1>1 DEF RiskSpeakers, RiskTeam
<1>5. plan.draft \in {1, 2}
  BY <1>4 DEF Core, Drafts
<1>6. ClaimsAgree' /\ InvOrder'
  BY <1>1, <1>3 DEF Core, ClaimsAgree, InvOrder
<1>7. RiskOrder'
  BY <1>1, <1>3, <1>4, Numbers
     DEF Core, RiskOrder, RiskProgress, RiskSpeakers
<1>8. LET n == risk.said["neutral"]
      IN  /\ s = "aggressive" => risk.count = n + n + n
          /\ s = "conservative" => risk.count = n + n + n + 1
          /\ s = "neutral" => risk.count = n + n + n + 2
  BY <1>1, <1>4, Numbers DEF Core, RiskOrder, RiskProgress
<1>9. node' \in RiskTeam
  BY <1>1 DEF ShouldContinueRisk, RiskTeam
<1>10. RiskProgress'
  BY <1>1, <1>3, <1>4, <1>5, <1>8, Numbers, Rounds
     DEF Core, RiskProgress, ShouldContinueRisk, Turns
<1>11. InvProgress' /\ Drafts'
  BY <1>1, <1>4, <1>9 DEF Core, InvProgress, Drafts, Unruled, Later, RiskTeam,
     Early
<1>12. Written'
  BY <1>1, <1>3 DEF Core, Written
<1>13. StepsCounted'
  <2>1. Cycles(plan.draft - 1) \in Nat
    BY <1>5, Numbers DEF Cycles, Cycle
  <2> QED  BY <1>1, <1>3, <1>4, <1>9, <2>1, Numbers
           DEF Core, StepsCounted, RiskTeam
<1> QED
  BY <1>6, <1>7, <1>10, <1>11, <1>12, <1>13 DEF Core

\* The judge rules on the draft in front of him, and sends it back once.
LEMMA CoreRiskJudge == ASSUME TypeOK, Core, RiskJudge PROVE Core'
<1>1. PICK ruling \in Verdict, text \in {"empty", "text"} :
          /\ feedback' = [retries |-> feedback.retries
                                        + (IF ruling = "revise" THEN 1 ELSE 0),
                          required |-> (ruling = "revise"),
                          verdict |-> ruling]
          /\ decision' = [draft |-> plan.draft, verdict |-> ruling,
                          text |-> text]
          /\ risk' = [risk EXCEPT !.judged = text, !.last = "judge"]
  BY DEF RiskJudge, Reply
<1>2. /\ node = "portfolio_manager" /\ node' = ShouldRevise(feedback')
      /\ steps' = steps + 1 /\ UNCHANGED <<inv, invPlan, plan>>
  BY DEF RiskJudge, Runs, Goto, debateVars
<1>3. /\ risk'.count = risk.count /\ risk'.last = "judge"
      /\ risk'.said = risk.said /\ risk'.book = risk.book
      /\ risk'.judged = text
  BY <1>1, Numbers DEF DebateIn
<1>4. /\ feedback'.verdict = ruling /\ decision'.verdict = ruling
      /\ decision'.draft = plan.draft
      /\ feedback'.required = (ruling = "revise")
      /\ feedback'.retries = IF ruling = "revise" THEN feedback.retries + 1
                             ELSE feedback.retries
  BY <1>1, Numbers
<1>5. plan.draft \in {1, 2} /\ node \in RiskTeam
  BY <1>2 DEF Core, Drafts, RiskTeam
<1>6. /\ feedback.retries = plan.draft - 1
      /\ node' = IF ruling = "revise" /\ plan.draft = 1 THEN "trader" ELSE "end"
  <2>1. \/ plan.draft = 1 /\ feedback.retries = 0
        \/ plan.draft = 2 /\ feedback.retries = 1
    BY <1>5 DEF Core, Drafts, Unruled
  <2>2. node' = IF ruling = "revise" /\ feedback'.retries <= 1
                THEN "trader" ELSE "end"
    BY <1>2, <1>4 DEF ShouldRevise, MaxRetries
  <2>3. CASE ruling = "revise"
    <3>1. feedback'.retries = plan.draft
      BY <1>4, <2>1, <2>3
    <3> QED  BY <2>1, <2>2, <2>3, <3>1
  <2> QED  BY <2>1, <2>2, <2>3
<1>7. ClaimsAgree' /\ InvOrder' /\ RiskOrder'
  BY <1>2, <1>3 DEF Core, ClaimsAgree, InvOrder, RiskOrder
<1>8. InvProgress' /\ RiskProgress'
  BY <1>2, <1>3, <1>5, <1>6
     DEF Core, InvProgress, RiskProgress, NoRiskYet, Later, RiskTeam
<1>9. Drafts'
  BY <1>2, <1>4, <1>5, <1>6 DEF Core, Drafts, Unruled, RiskTeam, Early
<1>10. Written'
  BY <1>2, <1>3, <1>4, <1>5 DEF Core, Written
<1>11. StepsCounted'
  <2>1. risk.count = Turns(3, RiskRounds)
    BY <1>2 DEF Core, RiskProgress
  <2>2. Cycles(plan.draft) = Cycles(plan.draft - 1) + Cycle
    BY <1>5, Numbers DEF Cycles, Cycle
  <2>3. Cycles(plan.draft - 1) \in Nat
    BY <1>5, Numbers DEF Cycles, Cycle
  <2>4. steps' = 4 + Turns(2, DebateRounds) + Cycles(plan.draft - 1)
                   + risk.count + 1
    BY <1>2, <1>5 DEF Core, StepsCounted
  <2>5. steps' = 3 + Turns(2, DebateRounds) + Cycles(plan.draft)
    BY <2>1, <2>2, <2>3, <2>4, Numbers DEF Cycle
  <2> QED  BY <1>2, <1>6, <2>5 DEF StepsCounted, RiskTeam
<1> QED
  BY <1>7, <1>8, <1>9, <1>10, <1>11 DEF Core

\* Every step keeps the core.
LEMMA CoreStep == ASSUME TypeOK, Core, [Next]_vars PROVE Core'
<1>1. CASE AnalystStep
  <2>1. ASSUME NEW a, Analyse(a) PROVE Core'
    <3>1. UNCHANGED coreVars
      BY <2>1 DEF Analyse, debateVars, tradeVars, coreVars
    <3> QED  BY <3>1, CoreSame
  <2> QED  BY <1>1, <2>1, CoreAnalysts DEF AnalystStep, MarketAnalyst,
           SocialAnalyst, NewsAnalyst, FundamentalsAnalyst, MacroAnalyst,
           SmartMoneyAnalyst, VolumePriceAnalyst
<1>2. CASE DebateStep
  BY <1>2, CoreInvSpeech, CoreResearchManager, CoreTrader, CoreRiskSpeech,
     CoreRiskJudge
     DEF DebateStep, BullResearcher, BearResearcher, AggressiveAnalyst,
     ConservativeAnalyst, NeutralAnalyst, InvSpeakers, RiskSpeakers
<1>3. CASE NodeRaises \/ ConsumeRaises
  BY <1>3, CoreBreaks
     DEF NodeRaises, ConsumeRaises, debateVars, tradeVars
<1>4. CASE Consume \/ Conclude \/ Raise \/ UNCHANGED vars
  <2>1. UNCHANGED coreVars
    BY <1>4 DEF Consume, Conclude, Raise, vars, debateVars, tradeVars, coreVars
  <2> QED  BY <2>1, CoreSame
<1> QED
  BY <1>1, <1>2, <1>3, <1>4 DEF Next, ConsumerStep

\* No judge rules before he has heard everybody in every round.
LEMMA CoreHeard == ASSUME TypeOK, Core PROVE HeardInFull
<1>1. ASSUME node = "research_manager", DebateRounds > 0
      PROVE \A s \in InvSpeakers : inv.said[s] = DebateRounds
  <2>1. inv.count = 2 * DebateRounds
    BY <1>1 DEF Core, InvProgress, Later, Turns
  <2> QED  BY <2>1, Numbers, Rounds DEF Core, InvOrder, InvSpeakers
<1>2. ASSUME node = "portfolio_manager", RiskRounds > 0
      PROVE \A s \in RiskSpeakers : risk.said[s] = RiskRounds
  <2>1. risk.count = 3 * RiskRounds /\ risk.last # "judge"
    BY <1>2 DEF Core, RiskProgress, Turns
  <2> QED  BY <2>1, Numbers, Rounds DEF Core, RiskOrder, RiskSpeakers
<1> QED
  BY <1>1, <1>2 DEF HeardInFull

-----------------------------------------------------------------------------
(* Types.                                                                  *)

\* A reply is a text, empty or not.
LEMMA Replies == \A text : Reply(text) => text \in Text
BY DEF Reply, Text

\* Showing a status to some agents.
LEMMA ShowType ==
    ASSUME NEW f \in [Agents -> ShownStatus], NEW S, NEW status \in ShownStatus
    PROVE /\ Show(f, S, status) \in [Agents -> ShownStatus]
          /\ \A a \in Agents :
                Show(f, S, status)[a] = IF a \in S THEN status ELSE f[a]
BY DEF Show

\* What is new is an analyst or one of the four marks.
LEMMA NewIsKnown ==
    ASSUME TypeOK
    PROVE /\ NewlySeen \subseteq
                 Agents \cup {"research", "judge", "plan", "ruling"}
          /\ \A a \in Analysts : a \in NewlySeen => reports[a] = "text"
          /\ "judge" \in NewlySeen => inv.judged = "text"
          /\ "plan" \in NewlySeen => plan.text = "text"
          /\ "ruling" \in NewlySeen => risk.judged = "text"
<1>1. Analysts \subseteq AllAnalysts /\ AllAnalysts \subseteq Agents
  BY AnalystsAssumption DEF Agents
<1>2. AllAnalysts \cap {"research", "judge", "plan", "ruling"} = {}
  BY DEF AllAnalysts
<1> QED
  BY <1>1, <1>2 DEF NewlySeen

\* The statuses after some news, and who is shown completed by it.
LEMMA ShownAfterEffect ==
    ASSUME shown \in [Agents -> ShownStatus], NEW new
    PROVE /\ ShownAfter(new) \in [Agents -> ShownStatus]
          /\ \A a \in Agents :
                ShownAfter(new)[a] = "completed" =>
                   \/ shown[a] = "completed"
                   \/ a \in new \cap Analysts
                   \/ a \in ResearchTeam /\ "judge" \in new
                   \/ a = "trader" /\ "plan" \in new
                   \/ a \in RiskTeam /\ "ruling" \in new
<1> DEFINE s1 == Show(shown, new \cap Analysts, "completed")
           s2 == IF "research" \in new
                 THEN Show(s1, ResearchTeam, "in_progress") ELSE s1
           s3 == IF "judge" \in new
                 THEN Show(Show(s2, ResearchTeam, "completed"), {"trader"},
                           "in_progress") ELSE s2
           s4 == IF "plan" \in new
                 THEN Show(Show(s3, {"trader"}, "completed"), {"aggressive"},
                           "in_progress") ELSE s3
           s5 == IF "ruling" \in new
                 THEN Show(s4, RiskTeam, "completed") ELSE s4
           Table == [Agents -> ShownStatus]
<1>1. "completed" \in ShownStatus /\ "in_progress" \in ShownStatus
  BY DEF ShownStatus
<1>2. ShownAfter(new) = s5
  BY DEF ShownAfter
<1>3. /\ s1 \in Table
      /\ \A a \in Agents : s1[a] = "completed" =>
            shown[a] = "completed" \/ a \in new \cap Analysts
  BY <1>1, ShowType
<1> HIDE DEF s1
<1>4. /\ s2 \in Table
      /\ \A a \in Agents : s2[a] = "completed" => s1[a] = "completed"
  <2>1. CASE "research" \in new
    BY <1>1, <1>3, <2>1, ShowType
  <2> QED  BY <1>3, <2>1
<1> HIDE DEF s2
<1>5. /\ s3 \in Table
      /\ \A a \in Agents : s3[a] = "completed" =>
            s2[a] = "completed" \/ (a \in ResearchTeam /\ "judge" \in new)
  <2>1. CASE "judge" \in new
    <3> DEFINE t == Show(s2, ResearchTeam, "completed")
    <3>1. /\ t \in Table
          /\ \A a \in Agents : t[a] = "completed" =>
                s2[a] = "completed" \/ a \in ResearchTeam
      BY <1>1, <1>4, ShowType
    <3>2. s3 = Show(t, {"trader"}, "in_progress")
      BY <2>1
    <3> HIDE DEF t, s3
    <3> QED  BY <1>1, <2>1, <3>1, <3>2, ShowType
  <2> QED  BY <1>4, <2>1
<1> HIDE DEF s3
<1>6. /\ s4 \in Table
      /\ \A a \in Agents : s4[a] = "completed" =>
            s3[a] = "completed" \/ (a = "trader" /\ "plan" \in new)
  <2>1. CASE "plan" \in new
    <3> DEFINE t == Show(s3, {"trader"}, "completed")
    <3>1. /\ t \in Table
          /\ \A a \in Agents : t[a] = "completed" =>
                s3[a] = "completed" \/ a = "trader"
      BY <1>1, <1>5, ShowType
    <3>2. s4 = Show(t, {"aggressive"}, "in_progress")
      BY <2>1
    <3> HIDE DEF t, s4
    <3> QED  BY <1>1, <2>1, <3>1, <3>2, ShowType
  <2> QED  BY <1>5, <2>1
<1> HIDE DEF s4
<1>7. /\ s5 \in Table
      /\ \A a \in Agents : s5[a] = "completed" =>
            s4[a] = "completed" \/ (a \in RiskTeam /\ "ruling" \in new)
  <2>1. CASE "ruling" \in new
    BY <1>1, <1>6, <2>1, ShowType
  <2> QED  BY <1>6, <2>1
<1> HIDE DEF s5
<1> QED
  BY <1>2, <1>3, <1>4, <1>5, <1>6, <1>7

\* The ranges of the variables, in three groups.
PathType ==
    /\ route \in {"intent", "stream"}
    /\ node \in {"analysts", "done", "trader", "end", "broken"}
                  \cup ResearchTeam \cup RiskTeam
    /\ returned \in [AllAnalysts -> Text] /\ reports \in [AllAnalysts -> Text]
    /\ steps \in Nat /\ empties \in Nat /\ chunk \in BOOLEAN
WorkType ==
    /\ inv \in DebateIn(InvSpeakers) /\ risk \in DebateIn(RiskSpeakers)
    /\ invPlan \in Text
    /\ plan \in [draft : 0..MaxRetries + 1, text : Text]
    /\ feedback \in [retries : 0..MaxRetries + 1, required : BOOLEAN,
                     verdict : Verdict \cup {"none"}]
    /\ decision \in [draft : 0..MaxRetries + 1,
                     verdict : Verdict \cup {"none"}, text : Text]
ViewType ==
    /\ seen \subseteq Agents \cup {"research", "judge", "plan", "ruling"}
    /\ shown \in [Agents -> ShownStatus]
    /\ row \in [analysts : SUBSET AllAnalysts, invPlan : BOOLEAN,
                draft : 0..MaxRetries + 1, ruledOn : 0..MaxRetries + 1]
    /\ outcome \in {"open", "result", "error"}

\* The groups are the type invariant.
LEMMA TypeParts == TypeOK <=> PathType /\ WorkType /\ ViewType
BY DEF TypeOK, PathType, WorkType, ViewType

\* Where the next superstep is and what the analysts brought.
LEMMA PathStep == ASSUME TypeOK, Core, [Next]_vars PROVE PathType'
<1> DEFINE Nodes == {"analysts", "done", "trader", "end", "broken"}
                      \cup ResearchTeam \cup RiskTeam
<1>0. PathType
  BY TypeParts
<1>1. \A text : Reply(text) => empties' \in Nat
  BY <1>0 DEF PathType, Reply
<1>2. ASSUME NEW n \in Nodes, Goto(n), empties' \in Nat,
             UNCHANGED <<route, returned>>,
             reports' \in {reports, returned}
      PROVE PathType'
  BY <1>0, <1>2 DEF PathType, Goto
<1>3. ASSUME NEW a, Analyse(a) PROVE PathType'
  <2>1. PICK text \in Text :
            Reply(text) /\ returned' = [returned EXCEPT ![a] = text]
    BY <1>3 DEF Analyse
  <2>2. UNCHANGED <<route, node, reports, steps, chunk>>
    BY <1>3 DEF Analyse
  <2> QED  BY <1>0, <1>1, <2>1, <2>2 DEF PathType
<1>4. CASE AnalystsReturned \/ AnalystsDone
  BY <1>0, <1>2, <1>4 DEF AnalystsReturned, AnalystsDone, analystVars, PathType,
     ResearchTeam
<1>5. ASSUME NEW s, InvSpeech(s) PROVE PathType'
  <2>1. ShouldContinueDebate(inv') \in Nodes
    BY DEF ShouldContinueDebate, ResearchTeam
  <2> QED  BY <1>0, <1>2, <1>5, <2>1 DEF InvSpeech, analystVars, PathType
<1>6. ASSUME NEW s, RiskSpeech(s) PROVE PathType'
  <2>1. ShouldContinueRisk(risk') \in Nodes
    BY DEF ShouldContinueRisk, RiskTeam
  <2> QED  BY <1>0, <1>2, <1>6, <2>1 DEF RiskSpeech, analystVars, PathType
<1>7. CASE ResearchManager \/ Trader
  <2>1. empties' \in Nat /\ UNCHANGED <<route, returned, reports>>
    BY <1>1, <1>7 DEF ResearchManager, Trader, analystVars
  <2>2. Goto("trader") \/ Goto("aggressive")
    BY <1>7 DEF ResearchManager, Trader
  <2> QED  BY <1>2, <2>1, <2>2 DEF RiskTeam
<1>8. CASE RiskJudge
  <2>1. empties' \in Nat /\ UNCHANGED <<route, returned, reports>>
    BY <1>1, <1>8 DEF RiskJudge, analystVars
  <2>2. Goto(ShouldRevise(feedback')) /\ ShouldRevise(feedback') \in Nodes
    BY <1>8 DEF RiskJudge, ShouldRevise
  <2> QED  BY <1>2, <2>1, <2>2
<1>9. CASE NodeRaises
  BY <1>0, <1>9 DEF NodeRaises, analystVars, PathType
<1>10. CASE ConsumerStep \/ UNCHANGED vars
  BY <1>0, <1>10 DEF ConsumerStep, Consume, ConsumeRaises, Conclude, Raise, vars,
     analystVars, PathType
<1> QED
  BY <1>3, <1>4, <1>5, <1>6, <1>7, <1>8, <1>9, <1>10
     DEF Next, AnalystStep, DebateStep, MarketAnalyst, SocialAnalyst,
     NewsAnalyst, FundamentalsAnalyst, MacroAnalyst, SmartMoneyAnalyst,
     VolumePriceAnalyst, BullResearcher, BearResearcher, AggressiveAnalyst,
     ConservativeAnalyst, NeutralAnalyst

\* A judge's word leaves the debate a debate.
LEMMA JudgedType ==
    ASSUME NEW S, NEW d \in DebateIn(S), NEW text \in Text
    PROVE /\ [d EXCEPT !.judged = text] \in DebateIn(S)
          /\ [d EXCEPT !.judged = text, !.last = "judge"] \in DebateIn(S)
BY DEF DebateIn

\* What the agents write.
LEMMA WorkStep == ASSUME TypeOK, Core, [Next]_vars PROVE WorkType'
<1>0. WorkType
  BY TypeParts
<1>1. CASE AnalystStep \/ NodeRaises \/ ConsumerStep \/ UNCHANGED vars
  <2>1. ASSUME NEW a, Analyse(a) PROVE UNCHANGED <<debateVars, tradeVars>>
    BY <2>1 DEF Analyse
  <2>2. UNCHANGED <<debateVars, tradeVars>>
    BY <1>1, <2>1 DEF AnalystStep, MarketAnalyst, SocialAnalyst, NewsAnalyst,
       FundamentalsAnalyst, MacroAnalyst, SmartMoneyAnalyst,
       VolumePriceAnalyst, AnalystsReturned, AnalystsDone, NodeRaises,
       ConsumerStep, Consume, ConsumeRaises, Conclude, Raise, vars
  <2> QED  BY <1>0, <2>2 DEF WorkType, debateVars, tradeVars
<1>2. ASSUME NEW s \in InvSpeakers, InvSpeech(s) PROVE WorkType'
  <2>1. PICK p \in Payloads(inv.book) : inv' = AfterSpeech(inv, s, p)
    BY <1>2 DEF InvSpeech
  <2>2. inv' \in DebateIn(InvSpeakers)
    BY <2>1, Numbers, SpeechEffect DEF Core, ClaimsAgree
  <2> QED  BY <1>0, <1>2, <2>2 DEF InvSpeech, WorkType, tradeVars
<1>3. ASSUME NEW s \in RiskSpeakers, RiskSpeech(s) PROVE WorkType'
  <2>1. PICK p \in Payloads(risk.book) : risk' = AfterSpeech(risk, s, p)
    BY <1>3 DEF RiskSpeech
  <2>2. risk' \in DebateIn(RiskSpeakers)
    BY <2>1, Numbers, SpeechEffect DEF Core, ClaimsAgree
  <2> QED  BY <1>0, <1>3, <2>2 DEF RiskSpeech, WorkType, debateVars
<1>4. CASE ResearchManager
  <2>1. PICK text \in Text :
            inv' = [inv EXCEPT !.judged = text] /\ invPlan' = text
    BY <1>4 DEF ResearchManager
  <2>2. inv' \in DebateIn(InvSpeakers)
    BY <2>1, JudgedType, Numbers
  <2> QED  BY <1>0, <1>4, <2>1, <2>2 DEF ResearchManager, WorkType, tradeVars
<1>5. CASE Trader
  <2>1. PICK text \in Text : plan' = [draft |-> plan.draft + 1, text |-> text]
    BY <1>5 DEF Trader
  <2>2. plan.draft \in {0, 1}
    BY <1>5 DEF Trader, Runs, Core, Drafts
  <2>3. plan' \in [draft : 0..MaxRetries + 1, text : Text]
    BY <2>1, <2>2 DEF MaxRetries
  <2>4. /\ risk' \in {risk, NewDebate(RiskSpeakers)}
        /\ feedback' \in {feedback, [feedback EXCEPT !.required = FALSE]}
    BY <1>5 DEF Trader
  <2>5. risk' \in DebateIn(RiskSpeakers)
    BY <1>0, <2>4, NewDebateEffect DEF WorkType
  <2>6. feedback' \in [retries : 0..MaxRetries + 1, required : BOOLEAN,
                       verdict : Verdict \cup {"none"}]
    BY <1>0, <2>4 DEF WorkType
  <2> QED  BY <1>0, <1>5, <2>3, <2>5, <2>6 DEF Trader, WorkType, debateVars
<1>6. CASE RiskJudge
  <2>1. PICK ruling \in Verdict, text \in Text :
          /\ feedback' = [retries |-> feedback.retries
                                        + (IF ruling = "revise" THEN 1 ELSE 0),
                          required |-> (ruling = "revise"),
                          verdict |-> ruling]
          /\ decision' = [draft |-> plan.draft, verdict |-> ruling,
                          text |-> text]
          /\ risk' = [risk EXCEPT !.judged = text, !.last = "judge"]
    BY <1>6 DEF RiskJudge
  <2>2. risk' \in DebateIn(RiskSpeakers)
    BY <2>1, JudgedType, Numbers
  <2>3. feedback.retries \in {0, 1}
    BY <1>6 DEF RiskJudge, Runs, Core, Drafts, Unruled, RiskTeam
  <2>4. PICK r \in 0..MaxRetries + 1 :
            feedback' = [retries |-> r, required |-> (ruling = "revise"),
                         verdict |-> ruling]
    <3>1. /\ feedback.retries + 1 \in 0..MaxRetries + 1
          /\ feedback.retries + 0 \in 0..MaxRetries + 1
      BY <2>3 DEF MaxRetries
    <3>2. CASE ruling = "revise"
      BY <2>1, <3>1, <3>2
    <3>3. CASE ruling # "revise"
      BY <2>1, <3>1, <3>3
    <3> QED  BY <3>2, <3>3
  <2>5. (ruling = "revise") \in BOOLEAN
    OBVIOUS
  <2>6. feedback' \in [retries : 0..MaxRetries + 1, required : BOOLEAN,
                       verdict : Verdict \cup {"none"}]
    BY <2>4, <2>5
  <2>7. decision' \in [draft : 0..MaxRetries + 1,
                       verdict : Verdict \cup {"none"}, text : Text]
    BY <1>0, <2>1 DEF WorkType
  <2> QED  BY <1>0, <1>6, <2>2, <2>6, <2>7 DEF RiskJudge, WorkType, debateVars
<1> QED
  BY <1>1, <1>2, <1>3, <1>4, <1>5, <1>6 DEF Next, DebateStep, BullResearcher,
     BearResearcher, AggressiveAnalyst, ConservativeAnalyst, NeutralAnalyst,
     InvSpeakers, RiskSpeakers

\* The row after a write.
LEMMA RowType ==
    ASSUME TypeOK
    PROVE RowAfter \in [analysts : SUBSET AllAnalysts, invPlan : BOOLEAN,
                        draft : 0..MaxRetries + 1, ruledOn : 0..MaxRetries + 1]
<1>1. /\ plan.draft \in 0..MaxRetries + 1 /\ decision.draft \in 0..MaxRetries + 1
      /\ row.draft \in 0..MaxRetries + 1 /\ row.ruledOn \in 0..MaxRetries + 1
  BY DEF TypeOK
<1>2. {a \in Analysts : reports[a] = "text"} \in SUBSET AllAnalysts
  BY AnalystsAssumption
<1> QED
  BY <1>1, <1>2 DEF RowAfter

\* The steps of the graph, which leave what the consumer keeps alone.
Unconsumed ==
    AnalystStep \/ DebateStep \/ NodeRaises \/ UNCHANGED vars

\* None of them touches the statuses, the row or the outcome.
LEMMA ConsumerSame ==
    ASSUME Unconsumed PROVE UNCHANGED <<seen, shown, row, outcome>>
<1>1. ASSUME NEW a, Analyse(a) PROVE UNCHANGED consumerVars
  BY <1>1 DEF Analyse
<1>2. ASSUME NEW s, InvSpeech(s) \/ RiskSpeech(s) PROVE UNCHANGED consumerVars
  BY <1>2 DEF InvSpeech, RiskSpeech
<1>3. UNCHANGED consumerVars
  BY <1>1, <1>2 DEF Unconsumed, AnalystStep, MarketAnalyst, SocialAnalyst,
     NewsAnalyst, FundamentalsAnalyst, MacroAnalyst, SmartMoneyAnalyst,
     VolumePriceAnalyst, AnalystsReturned, AnalystsDone, DebateStep,
     BullResearcher, BearResearcher, ResearchManager, Trader,
     AggressiveAnalyst, ConservativeAnalyst, NeutralAnalyst, RiskJudge,
     NodeRaises, vars
<1> QED
  BY <1>3 DEF consumerVars

\* What the browser and the report row are given.
LEMMA ViewStep == ASSUME TypeOK, [Next]_vars PROVE ViewType'
<1>0. ViewType
  BY TypeParts
<1>1. CASE Unconsumed
  BY <1>0, <1>1, ConsumerSame DEF ViewType
<1>2. ASSUME UpdateShown, row' \in {row, RowAfter}, outcome' = outcome
      PROVE ViewType'
  <2>1. shown' \in [Agents -> ShownStatus]
    BY <1>0, <1>2, ShownAfterEffect DEF UpdateShown, ViewType
  <2>2. seen' \subseteq Agents \cup {"research", "judge", "plan", "ruling"}
    BY <1>0, <1>2, NewIsKnown DEF UpdateShown, ViewType
  <2> QED  BY <1>0, <1>2, <2>1, <2>2, RowType DEF ViewType
<1>3. CASE Consume \/ ConsumeRaises
  BY <1>2, <1>3 DEF Consume, ConsumeRaises
<1>4. CASE Conclude
  <2>1. shown' \in [Agents -> ShownStatus]
    BY <1>4 DEF Conclude, ShownStatus
  <2> QED  BY <1>0, <1>4, <2>1 DEF Conclude, ViewType
<1>5. CASE Raise
  BY <1>0, <1>5 DEF Raise, ViewType
<1> QED
  BY <1>1, <1>3, <1>4, <1>5 DEF Next, ConsumerStep, Unconsumed

-----------------------------------------------------------------------------
(* What the user is shown.                                                 *)

\* An agent that has run stays one that has run; the trader who opens a new
\* debate after a revision does so behind a ruling.
LEMMA HasRunStays ==
    ASSUME TypeOK, Core, [Next]_vars, NEW a, HasRun(a) PROVE HasRun(a)'
<1>0. /\ inv.said \in [InvSpeakers -> Nat] /\ risk.said \in [RiskSpeakers -> Nat]
      /\ plan.draft \in 0..2 /\ decision.draft \in 0..2
  BY Numbers, DebateType
<1>1. CASE AnalystStep
  <2>1. /\ UNCHANGED <<inv, invPlan, plan, risk, decision>>
        /\ \A b \in Analysts : reports'[b] \in {reports[b]} \cup (Text \ {"none"})
    <3>1. ASSUME NEW b, Analyse(b)
          PROVE UNCHANGED <<reports, debateVars, tradeVars>>
      BY <3>1 DEF Analyse
    <3>2. CASE AnalystsReturned
      BY <3>2, AnalystsAssumption
         DEF AnalystsReturned, debateVars, tradeVars, TypeOK
    <3>3. CASE AnalystsDone
      BY <3>3 DEF AnalystsDone, analystVars, debateVars, tradeVars
    <3> QED  BY <1>1, <3>1, <3>2, <3>3 DEF AnalystStep, MarketAnalyst,
             SocialAnalyst, NewsAnalyst, FundamentalsAnalyst, MacroAnalyst,
             SmartMoneyAnalyst, VolumePriceAnalyst, debateVars, tradeVars
  <2> QED  BY <2>1 DEF HasRun
<1>2. ASSUME NEW s \in InvSpeakers, InvSpeech(s) PROVE HasRun(a)'
  <2>1. PICK p \in Payloads(inv.book) : inv' = AfterSpeech(inv, s, p)
    BY <1>2 DEF InvSpeech
  <2>2. /\ inv'.said[s] = inv.said[s] + 1
        /\ \A t \in InvSpeakers \ {s} : inv'.said[t] = inv.said[t]
    BY <2>1, Numbers, SpeechEffect DEF Core, ClaimsAgree
  <2>3. \A t \in InvSpeakers : inv.said[t] > 0 => inv'.said[t] > 0
    BY <1>0, <2>2
  <2> QED  BY <1>2, <2>3 DEF InvSpeech, HasRun, analystVars, tradeVars
<1>3. ASSUME NEW s \in RiskSpeakers, RiskSpeech(s) PROVE HasRun(a)'
  <2>1. PICK p \in Payloads(risk.book) : risk' = AfterSpeech(risk, s, p)
    BY <1>3 DEF RiskSpeech
  <2>2. /\ risk'.said[s] = risk.said[s] + 1
        /\ \A t \in RiskSpeakers \ {s} : risk'.said[t] = risk.said[t]
    BY <2>1, Numbers, SpeechEffect DEF Core, ClaimsAgree
  <2>3. \A t \in RiskSpeakers : risk.said[t] > 0 => risk'.said[t] > 0
    BY <1>0, <2>2
  <2> QED  BY <1>3, <2>3 DEF RiskSpeech, HasRun, analystVars, debateVars
<1>4. CASE ResearchManager
  <2>1. PICK text \in {"empty", "text"} :
            inv' = [inv EXCEPT !.judged = text] /\ invPlan' = text
    BY <1>4 DEF ResearchManager, Reply
  <2>2. inv'.said = inv.said
    BY <2>1, Numbers DEF DebateIn
  <2> QED  BY <1>4, <2>1, <2>2 DEF ResearchManager, HasRun, analystVars,
           tradeVars
<1>5. CASE Trader
  <2>1. plan'.draft = plan.draft + 1
    BY <1>5 DEF Trader
  <2>2. risk' = risk \/ decision.draft > 0
    BY <1>5 DEF Trader, Core, Written
  <2> QED  BY <1>0, <1>5, <2>1, <2>2 DEF Trader, HasRun, analystVars, debateVars
<1>6. CASE RiskJudge
  <2>1. decision'.draft = plan.draft
    BY <1>6 DEF RiskJudge
  <2>2. plan.draft \in {1, 2}
    BY <1>6 DEF RiskJudge, Runs, Core, Drafts, RiskTeam
  <2> QED  BY <1>6, <2>1, <2>2 DEF RiskJudge, HasRun, analystVars, debateVars
<1>7. CASE NodeRaises \/ ConsumerStep \/ UNCHANGED vars
  BY <1>7 DEF NodeRaises, ConsumerStep, Consume, ConsumeRaises, Conclude,
     Raise, vars, HasRun, analystVars, debateVars, tradeVars
<1> QED
  BY <1>1, <1>2, <1>3, <1>4, <1>5, <1>6, <1>7 DEF Next, DebateStep,
     BullResearcher, BearResearcher, AggressiveAnalyst, ConservativeAnalyst,
     NeutralAnalyst, InvSpeakers, RiskSpeakers

\* What the consumer acts on was written by an agent that has run.
LEMMA NewsIsTrue ==
    ASSUME TypeOK, Core, DebateRounds > 0, NEW a \in Agents,
           ShownAfter(NewlySeen)[a] = "completed"
    PROVE shown[a] = "completed" \/ HasRun(a)
<1>1. \/ shown[a] = "completed"
      \/ a \in NewlySeen \cap Analysts
      \/ a \in ResearchTeam /\ "judge" \in NewlySeen
      \/ a = "trader" /\ "plan" \in NewlySeen
      \/ a \in RiskTeam /\ "ruling" \in NewlySeen
  <2>1. shown \in [Agents -> ShownStatus]
    BY DEF TypeOK
  <2> QED  BY <2>1, ShownAfterEffect
<1>2. CASE a \in NewlySeen \cap Analysts
  BY <1>2, NewIsKnown DEF HasRun
<1>3. CASE a \in ResearchTeam /\ "judge" \in NewlySeen
  BY <1>3, NewIsKnown DEF Core, Written, HasRun, ResearchTeam, InvSpeakers
<1>4. CASE a = "trader" /\ "plan" \in NewlySeen
  BY <1>4, NewIsKnown DEF Core, Written, HasRun
<1>5. CASE a \in RiskTeam /\ "ruling" \in NewlySeen
  BY <1>5, NewIsKnown DEF Core, Written, HasRun, RiskTeam, RiskSpeakers
<1> QED
  BY <1>1, <1>2, <1>3, <1>4, <1>5

\* No agent is shown completed that has not run.
LEMMA ShownStep ==
    ASSUME TypeOK, Core, ShownHasRun, [Next]_vars PROVE ShownHasRun'
<1> SUFFICES ASSUME outcome' = "open", RiskRounds > 0, DebateRounds > 0,
                    NEW a \in Agents, shown'[a] = "completed"
             PROVE HasRun(a)'
  BY DEF ShownHasRun
<1>1. outcome = "open" /\ (shown[a] = "completed" \/ HasRun(a))
  <2>1. CASE Unconsumed
    BY <2>1, ConsumerSame
  <2>2. CASE Consume \/ ConsumeRaises
    BY <2>2, NewsIsTrue DEF Consume, ConsumeRaises, UpdateShown
  <2>3. CASE Conclude \/ Raise
    BY <2>3 DEF Conclude, Raise
  <2> QED  BY <2>1, <2>2, <2>3 DEF Next, ConsumerStep, Unconsumed
<1>2. HasRun(a)
  BY <1>1 DEF ShownHasRun
<1> QED
  BY <1>2, HasRunStays

\* With the consumer idle the row holds the plan and the ruling of the state.
LEMMA RowStep ==
    ASSUME TypeOK, RowIsCurrent, [Next]_vars PROVE RowIsCurrent'
<1>1. CASE Consume
  <2>1. row' = RowAfter /\ UNCHANGED <<plan, decision>>
    BY <1>1 DEF Consume, tradeVars
  <2>2. /\ plan.text = "text" => RowAfter.draft = plan.draft
        /\ decision.text = "text" => RowAfter.ruledOn = decision.draft
    BY DEF RowAfter
  <2> QED  BY <2>1, <2>2 DEF RowIsCurrent
<1>2. CASE NodeRaises \/ ConsumeRaises
  BY <1>2 DEF NodeRaises, ConsumeRaises, RowIsCurrent
<1>3. CASE Conclude \/ Raise \/ UNCHANGED vars
  BY <1>3 DEF Conclude, Raise, vars, tradeVars, consumerVars, RowIsCurrent
<1>4. ASSUME NEW a, Analyse(a) PROVE RowIsCurrent'
  BY <1>4 DEF Analyse, tradeVars, consumerVars, RowIsCurrent
<1>5. CASE chunk' = TRUE
  BY <1>5 DEF RowIsCurrent
<1>6. ASSUME NEW n, Goto(n) PROVE chunk' = TRUE
  BY <1>6 DEF Goto
<1> QED
  BY <1>1, <1>2, <1>3, <1>4, <1>5, <1>6 DEF Next, AnalystStep, MarketAnalyst,
     SocialAnalyst, NewsAnalyst, FundamentalsAnalyst, MacroAnalyst,
     SmartMoneyAnalyst, VolumePriceAnalyst, AnalystsReturned, AnalystsDone,
     DebateStep, BullResearcher, BearResearcher, InvSpeech, ResearchManager,
     Trader, AggressiveAnalyst, ConservativeAnalyst, NeutralAnalyst,
     RiskSpeech, RiskJudge, ConsumerStep

\* A result of the intent route is a ruling on its own plan, and nothing
\* follows it.
LEMMA ResultStep ==
    ASSUME TypeOK, Core, ResultIsRuled, [Next]_vars PROVE ResultIsRuled'
<1> SUFFICES ASSUME outcome' = "result", route' = "intent"
             PROVE /\ decision'.draft = plan'.draft /\ plan'.draft > 0
                   /\ decision'.verdict = "revise" => plan'.draft > MaxRetries
  BY DEF ResultIsRuled
<1>1. CASE Conclude
  <2>1. node = "end" /\ UNCHANGED <<plan, decision>>
    BY <1>1 DEF Conclude, tradeVars
  <2> QED  BY <2>1, Numbers DEF Core, Drafts, MaxRetries
<1>2. CASE UNCHANGED vars
  BY <1>2 DEF vars, tradeVars, consumerVars, ResultIsRuled
<1>3. ASSUME outcome = "open", outcome' = outcome PROVE FALSE
  BY <1>3
<1>4. CASE Raise
  BY <1>4 DEF Raise
<1>5. CASE Consume \/ ConsumeRaises
  BY <1>3, <1>5 DEF Consume, ConsumeRaises
<1>6. CASE AnalystStep \/ DebateStep \/ NodeRaises
  <2>1. outcome' = outcome
    BY <1>6, ConsumerSame DEF Unconsumed
  <2>2. outcome = "open"
    BY <1>6 DEF AnalystStep, MarketAnalyst, SocialAnalyst, NewsAnalyst,
       FundamentalsAnalyst, MacroAnalyst, SmartMoneyAnalyst,
       VolumePriceAnalyst, Analyse, AnalystsReturned, AnalystsDone,
       DebateStep, BullResearcher, BearResearcher, InvSpeech,
       ResearchManager, Trader, AggressiveAnalyst, ConservativeAnalyst,
       NeutralAnalyst, RiskSpeech, RiskJudge, NodeRaises, Runs
  <2> QED  BY <1>3, <2>1, <2>2
<1> QED
  BY <1>1, <1>2, <1>4, <1>5, <1>6 DEF Next, ConsumerStep

-----------------------------------------------------------------------------
(* The invariant, and what follows from it.                                *)

\* It holds at the start.
LEMMA Initially == ASSUME Init PROVE IInv
<1>1. /\ inv = NewDebate(InvSpeakers) /\ risk = NewDebate(RiskSpeakers)
      /\ node = "analysts" /\ plan.draft = 0 /\ plan.text = "none"
      /\ feedback.retries = 0 /\ feedback.verdict = "none"
      /\ decision.draft = 0 /\ steps = 0 /\ chunk = TRUE /\ outcome = "open"
  BY DEF Init
<1>2. PathType /\ ViewType
  <2>1. PathType
    BY DEF Init, PathType, Text
  <2>2. shown \in [Agents -> ShownStatus]
    BY DEF Init, ShownStatus
  <2>3. ViewType
    BY <2>2 DEF Init, ViewType, MaxRetries
  <2> QED  BY <2>1, <2>3
<1>3. WorkType
  BY <1>1, NewDebateEffect DEF Init, WorkType, MaxRetries, Text
<1>4. ClaimsAgree /\ InvOrder /\ RiskOrder
  <2>1. /\ BookAgrees(inv.book) /\ inv.count = 0 /\ inv.last = "none"
        /\ inv.said["bull"] = 0 /\ inv.said["bear"] = 0
    BY <1>1, NewDebateEffect DEF InvSpeakers
  <2>2. /\ BookAgrees(risk.book) /\ risk.count = 0 /\ risk.last = "none"
        /\ risk.said["aggressive"] = 0 /\ risk.said["conservative"] = 0
        /\ risk.said["neutral"] = 0
    BY <1>1, NewDebateEffect DEF RiskSpeakers
  <2> QED  BY <2>1, <2>2 DEF ClaimsAgree, InvOrder, RiskOrder
<1>5. InvProgress /\ RiskProgress /\ Drafts /\ StepsCounted
  BY <1>1, NewDebateEffect DEF InvProgress, RiskProgress, NoRiskYet, Drafts,
     Unruled, StepsCounted, Later, RiskTeam, Early
<1>6. Written
  BY <1>1, NewDebateEffect DEF Written
<1>7. ShownHasRun
  <2>1. \A a \in Agents : shown[a] # "completed"
    BY DEF Init
  <2> QED  BY <2>1 DEF ShownHasRun
<1>8. RowIsCurrent /\ ResultIsRuled
  BY <1>1 DEF RowIsCurrent, ResultIsRuled
<1> QED
  BY <1>2, <1>3, <1>4, <1>5, <1>6, <1>7, <1>8, TypeParts DEF IInv, Core

\* Every step keeps it.
LEMMA StepKeeps == ASSUME IInv, [Next]_vars PROVE IInv'
<1>1. TypeOK /\ Core
  BY DEF IInv
<1>2. TypeOK'
  BY <1>1, PathStep, WorkStep, ViewStep, TypeParts, PTL
<1>3. Core'
  BY <1>1, CoreStep
<1>4. ShownHasRun' /\ RowIsCurrent' /\ ResultIsRuled'
  BY <1>1, ShownStep, RowStep, ResultStep DEF IInv
<1> QED
  BY <1>2, <1>3, <1>4 DEF IInv

\* The invariant of a run, whatever the models answer.
THEOREM Invariance == Spec => []IInv
<1>1. Init => IInv
  BY Initially
<1>2. IInv /\ [Next]_vars => IInv'
  BY StepKeeps
<1> QED
  BY <1>1, <1>2, PTL DEF Spec

\* Every variable stays in its range: no draft beyond the one revision.
THEOREM TypeCorrect == Spec => []TypeOK
<1>1. IInv => TypeOK
  BY DEF IInv
<1> QED
  BY <1>1, Invariance, PTL

\* For any numbers of rounds, no judge rules before every side has spoken in
\* every round, and the risk judge only on speeches about the plan in front of
\* him: the edges of conditional_logic.py count turns, and the trader opens a
\* new debate for a revised plan.
THEOREM JudgesHearEveryone == Spec => []HeardInFull
<1>1. IInv => HeardInFull
  BY CoreHeard DEF IInv
<1> QED
  BY <1>1, Invariance, PTL

\* Whatever the models answer, the run is over after so many supersteps: the
\* judge can send the trader back, but only once.
THEOREM RunsAreShort == Spec => []RunIsShort
<1>1. IInv => RunIsShort
  BY CoreIsShort DEF IInv
<1> QED
  BY <1>1, Invariance, PTL

\* The status of a claim and the three lists the next speaker is given say the
\* same, for any number of claims and any tagged blocks the models write.
THEOREM ClaimViewsAgree == Spec => []ClaimsAgree
<1>1. IInv => ClaimsAgree
  BY DEF IInv, Core
<1> QED
  BY <1>1, Invariance, PTL

\* What the user gets is what the agents did: no agent is shown completed that
\* has not run, the row holds the plan and the ruling of the state, and a
\* result of the intent route is a ruling on its own plan.
THEOREM ShownIsTrue == Spec => []ShownAgrees
<1>1. IInv => ShownAgrees
  BY DEF IInv, ShownHasRun, RowIsCurrent, ResultIsRuled, ShownAgrees
<1> QED
  BY <1>1, Invariance, PTL

-----------------------------------------------------------------------------
(* What the panel tells.  Between the workflow and the browser stands the  *)
(* chat's stream (ChatStream), which promises little of its events: what is *)
(* published before the listener listens is lost.  But what the panel shows *)
(* was so.  UnderWay: no event on its way to the browser tells another      *)
(* verdict than the job's.  Reached: no status in the hash does.  Said: nor *)
(* does the panel, unless it has given the job up.                          *)

\* An event tells a verdict only if the job ended with it; a refusal is
\* announced as a failure.
Honest(e) ==
    /\ e = "completed" => verdict = "completed"
    /\ e = "failed" => verdict \in {"failed", "refused"}
Honestly == {e \in Event : Honest(e)}

\* What is on its way to the browser.
UnderWay == /\ sock \in Seq(Honestly) /\ queue \in Seq(Honestly)
            /\ wire \in Seq(Honestly)

\* The verdict comes with the end of the job, and so does a hash that names one.
Reached ==
    /\ job \in {"extract", "created", "running", "late"} => verdict = "none"
    /\ job = "announce" => verdict \in Verdicts
    /\ entry.status = "completed" => verdict = "completed"
    /\ entry.status = "failed" => verdict \in {"failed", "legacy"}
    /\ verdict = "refused" => ~message.code

\* The panel says what was reached, or is done with a job it gave up.
Said ==
    /\ panel.run = "completed" => verdict = "completed"
    /\ panel.run = "failed" =>
           \/ verdict \in {"failed", "refused"}
           \/ panel.mode = "idle" /\ (LimitReached \/ ~panel.jobId)

ChatInv == ChatTypeOK /\ UnderWay /\ Reached /\ Said

\* What was honest is honest when a verdict is added.
LEMMA VerdictKept ==
    ASSUME verdict' = verdict \/ verdict = "none"
    PROVE Honestly \subseteq Honestly'
BY DEF Honestly, Honest, Event

\* The job's steps leave the stream and the panel alone, and end with a verdict.
LEMMA ReachedStep ==
    ASSUME ChatTypeOK, Reached, [ChatNext]_chatVars
    PROVE /\ Reached'
          /\ verdict' = verdict \/ verdict = "none"
<1>1. CASE JobStep
  <2>1. CASE FailUnentered
    BY <2>1 DEF FailUnentered, Recognised, ParserReply, Reached
  <2>2. CASE Create
    BY <2>2 DEF Create, Reached
  <2>3. CASE Start \/ Overtime
    <3>1. entry'.status = "running"
      BY <2>3 DEF Start, Overtime, SetJob, ChatTypeOK
    <3> QED  BY <2>3, <3>1 DEF Start, Overtime, Reached
  <2>4. CASE Progress \/ Announce
    BY <2>4 DEF Progress, Announce, Reached
  <2>5. CASE Finish
    <3>1. /\ verdict' \in Verdicts
          /\ entry'.status =
                 IF verdict' = "completed" THEN "completed" ELSE "failed"
      BY <2>5 DEF Finish, SetJob, ChatTypeOK
    <3> QED  BY <2>5, <3>1 DEF Finish, Verdicts, Reached
  <2> QED  BY <1>1, <2>1, <2>2, <2>3, <2>4, <2>5 DEF JobStep
<1>2. CASE StreamStep \/ PanelStep \/ UNCHANGED chatVars
  <2>1. UNCHANGED jobVars
    BY <1>2
    DEF StreamStep, PanelStep, Subscribe, Pump, Relay,
        PollEnds, Read, StreamOver, StreamRaises,
        PollAgain, PollDecides, GiveUp, chatVars
  <2> QED  BY <2>1 DEF jobVars, Reached
<1>3. CASE Fault
  <2>1. /\ UNCHANGED <<message, verdict>>
        /\ job' \in {job, "over"} /\ entry' \in {entry, Absent}
    BY <1>3
    DEF Fault, OtherStarts, Restart, ListenerDies,
        Cut, Unmount, jobVars
  <2> QED  BY <2>1 DEF Absent, Reached
<1> QED  BY <1>1, <1>2, <1>3 DEF ChatNext

\* An event is published honestly, and so are those before it.
LEMMA EmitsHonestly ==
    ASSUME NEW e \in Event, Emit(e), Honest(e)',
           sock \in Seq(Honestly')
    PROVE sock' \in Seq(Honestly')
<1>1. e \in Honestly'
  BY DEF Honestly, Event, Verdicts
<1> QED  BY <1>1, AppendProperties DEF Emit

\* What is under way stays honest.
LEMMA UnderWayStep ==
    ASSUME ChatTypeOK, UnderWay, Reached, [ChatNext]_chatVars
    PROVE UnderWay'
<1>1. /\ sock \in Seq(Honestly') /\ queue \in Seq(Honestly')
      /\ wire \in Seq(Honestly')
  BY ReachedStep, VerdictKept, SeqMonotonic DEF UnderWay
<1>2. "done" \in Honestly'
  BY DEF Honestly, Honest, Event
<1>3. CASE JobStep
  <2>1. UNCHANGED <<queue, wire>>
    BY <1>3
    DEF JobStep, FailUnentered, Create, Start,
        Progress, Overtime, Finish, Announce,
        storeVars
  <2>2. \/ sock' = sock
        \/ \E e \in Event : Emit(e) /\ Honest(e)'
    <3>1. CASE FailUnentered
      BY <3>1 DEF FailUnentered, Honest, Event, Verdicts
    <3>2. CASE Announce
      <4>1. verdict \in Event
        BY <3>2 DEF Announce, Event, Reached
      <4> QED  BY <3>2, <4>1 DEF Announce, Honest, Emit
    <3>3. CASE Create
      BY <3>3 DEF Create, Honest, Event
    <3>4. CASE Start
      BY <3>4 DEF Start, Honest, Event
    <3>5. CASE Progress
      BY <3>5 DEF Progress, Honest, Event
    <3>6. CASE Overtime
      BY <3>6 DEF Overtime, Honest, Event
    <3>7. CASE Finish
      BY <3>7 DEF Finish, storeVars
    <3> QED  BY <1>3, <3>1, <3>2, <3>3, <3>4, <3>5, <3>6, <3>7 DEF JobStep
  <2>3. sock' \in Seq(Honestly')
    BY <1>1, <2>2, EmitsHonestly
  <2> QED  BY <1>1, <2>1, <2>3 DEF UnderWay
<1>4. CASE StreamStep
  <2>1. CASE Subscribe \/ PollEnds
    BY <1>1, <2>1 DEF Subscribe, PollEnds, UnderWay
  <2>2. CASE Pump
    <3>1. Head(sock) \in Honestly' /\ Tail(sock) \in Seq(Honestly')
      BY <1>1, <2>2, HeadTailProperties DEF Pump
    <3>2. queue' \in Seq(Honestly')
      BY <1>1, <2>2, <3>1, AppendProperties DEF Pump
    <3> QED  BY <1>1, <2>2, <3>1, <3>2 DEF Pump, UnderWay
  <2>3. CASE Relay
    <3>1. Head(queue) \in Honestly' /\ Tail(queue) \in Seq(Honestly')
      BY <1>1, <2>3, HeadTailProperties DEF Relay
    <3>2. <<Head(queue), "done">> \in Seq(Honestly')
      BY <1>2, <3>1
    <3>3. /\ wire \o <<Head(queue), "done">> \in Seq(Honestly')
          /\ Append(wire, Head(queue)) \in Seq(Honestly')
      BY <1>1, <3>1, <3>2, AppendProperties, ConcatProperties
    <3>4. wire' \in Seq(Honestly')
      BY <2>3, <3>3 DEF Relay
    <3> QED  BY <1>1, <2>3, <3>1, <3>4 DEF Relay, UnderWay
  <2> QED  BY <1>4, <2>1, <2>2, <2>3 DEF StreamStep
<1>5. CASE PanelStep
  <2>1. UNCHANGED <<sock, queue>>
    BY <1>5
    DEF PanelStep, Read, StreamOver, StreamRaises,
        PollAgain, PollDecides, GiveUp, storeVars
  <2>2. \/ wire' \in {wire, <<>>}
        \/ wire # <<>> /\ wire' = Tail(wire)
    BY <1>5
    DEF PanelStep, Read, StreamOver, StreamRaises,
        PollAgain, PollDecides, GiveUp
  <2>3. wire' \in Seq(Honestly')
    BY <1>1, <2>2, HeadTailProperties, EmptySeq
  <2> QED  BY <1>1, <2>1, <2>3 DEF UnderWay
<1>6. CASE Fault
  <2>1. /\ queue' = queue /\ sock' \in {sock, <<>>} /\ wire' \in {wire, <<>>}
    BY <1>6
    DEF Fault, OtherStarts, Restart, ListenerDies,
        Cut, Unmount, storeVars
  <2> QED  BY <1>1, <2>1, EmptySeq DEF UnderWay
<1>7. CASE UNCHANGED chatVars
  BY <1>1, <1>7 DEF chatVars, storeVars, UnderWay
<1> QED  BY <1>3, <1>4, <1>5, <1>6, <1>7 DEF ChatNext

\* What the hash and the panel may hold.
EntryType ==
    [status : {"absent", "pending", "running", "completed", "failed"},
     whole : BOOLEAN]
PanelType ==
    [mode : {"streaming", "recovering", "idle"}, mounted : BOOLEAN,
     jobId : BOOLEAN, analyzing : BOOLEAN,
     run : {"running", "completed", "failed"}, terminal : BOOLEAN,
     polls : 0..MaxPolls]

\* The panel takes its word from the stream, from the hash, or gives up.
LEMMA PanelMoves ==
    ASSUME ChatInv, [ChatNext]_chatVars
    PROVE panel' \in PanelType /\ Said'
<1>0. /\ panel \in PanelType /\ wire \in Seq(Honestly) /\ Said /\ Reached
      /\ entry \in EntryType
  BY DEF ChatInv, ChatTypeOK, PanelType, EntryType, UnderWay
<1>1. CASE JobStep \/ StreamStep \/ UNCHANGED chatVars
  <2>1. panel' = panel
    BY <1>1
    DEF JobStep, FailUnentered, Create, Start,
        Progress, Overtime, Finish, Announce,
        StreamStep, Subscribe, Pump, Relay, PollEnds,
        chatVars
  <2>2. verdict' = verdict \/ verdict = "none"
    BY ReachedStep DEF ChatInv
  <2> QED  BY <1>0, <2>1, <2>2 DEF Said, LimitReached
<1>2. CASE PanelStep
  <2>0. UNCHANGED <<verdict, entry>>
    BY <1>2
    DEF PanelStep, Read, StreamOver, StreamRaises,
        PollAgain, PollDecides, GiveUp, jobVars
  <2>1. CASE Read
    <3>1. Head(wire) \in Honestly /\ Head(wire) # "done"
      BY <1>0, <2>1, HeadTailProperties DEF Read
    <3>2. \/ panel' = [panel EXCEPT !.jobId = TRUE]
          \/ panel' = [panel EXCEPT !.run = "running", !.analyzing = TRUE]
          \/ Head(wire) \in {"completed", "failed"}
             /\ panel' = [panel EXCEPT !.run = Head(wire), !.analyzing = FALSE,
                                       !.terminal = TRUE]
          \/ panel' = panel
      BY <2>1, <3>1
      DEF Read, Dispatch, Shows, Honestly, Event,
          Verdicts
    <3>3. panel.mode = "streaming"
      BY <2>1 DEF Read
    <3> QED  BY <1>0, <2>0, <3>1, <3>2, <3>3
             DEF Said, PanelType, Honestly, Honest
  <2>2. CASE StreamOver \/ StreamRaises
    BY <1>0, <2>0, <2>2
    DEF StreamOver, StreamRaises, Recovers, Settles, Said,
        PanelType
  <2>3. CASE PollAgain
    BY <1>0, <2>0, <2>3, PollsAssumption
    DEF PollAgain, LimitReached, Said, PanelType
  <2>4. CASE PollDecides
    BY <1>0, <2>0, <2>4
    DEF PollDecides, Settles, Answer, Said, PanelType, EntryType, Reached
  <2>5. CASE GiveUp
    BY <1>0, <2>0, <2>5
    DEF GiveUp, Settles, LimitReached, Said, PanelType
  <2> QED  BY <1>2, <2>1, <2>2, <2>3, <2>4, <2>5 DEF PanelStep
<1>3. CASE Fault
  <2>1. verdict' = verdict
    BY <1>3
    DEF Fault, OtherStarts, Restart, ListenerDies,
        Cut, Unmount, jobVars
  <2>2. panel' = panel \/ Unmount
    BY <1>3
    DEF Fault, OtherStarts, Restart, ListenerDies, Cut
  <2> QED  BY <1>0, <2>1, <2>2
           DEF Unmount, Said, LimitReached, PanelType
<1> QED  BY <1>1, <1>2, <1>3 DEF ChatNext

\* The types of the chat are kept.
LEMMA ChatTypes ==
    ASSUME ChatInv, [ChatNext]_chatVars
    PROVE ChatTypeOK'
<1>1. sock' \in Seq(Event) /\ queue' \in Seq(Event)
      /\ wire' \in Seq(Event)
  <2>1. Honestly' \subseteq Event
    BY DEF Honestly, Event, Verdicts
  <2> QED  BY <2>1, UnderWayStep, SeqMonotonic DEF ChatInv, UnderWay
<1>2. panel' \in PanelType
  BY PanelMoves
<1> DEFINE Kept ==
      /\ message' \in Message
      /\ job' \in {"extract", "created", "running", "late", "announce", "over"}
      /\ verdict' \in Verdicts \cup {"none", "refused"}
      /\ told' \in 0..MaxProgress
      /\ entry' \in EntryType
      /\ listener' \in {"starting", "on", "gone"}
      /\ srv' \in {"open", "ended", "cut"}
<1>3. Kept
  <2>0. ChatTypeOK /\ entry \in EntryType
    BY DEF ChatInv, ChatTypeOK, EntryType
  <2>1. CASE JobStep
    <3>1. UNCHANGED <<message, listener, srv>>
      BY <2>1
      DEF JobStep, FailUnentered, Create, Start,
          Progress, Overtime, Finish, Announce,
          storeVars
    <3>2. told' \in 0..MaxProgress
      BY <2>0, <2>1, PollsAssumption
      DEF JobStep, FailUnentered, Create, Start,
          Progress, Overtime, Finish, Announce,
          ChatTypeOK
    <3>3. /\ job' \in {"extract", "created", "running", "late", "announce",
                       "over"}
          /\ verdict' \in Verdicts \cup {"none", "refused"}
      BY <2>0, <2>1
      DEF JobStep, FailUnentered, Create, Start,
          Progress, Overtime, Finish, Announce,
          ChatTypeOK, Verdicts
    <3>4. entry' \in EntryType
      <4>1. \/ entry' \in {entry, [status |-> "pending", whole |-> TRUE]}
            \/ \E s \in {"running", "completed", "failed"} : SetJob(s)
        BY <2>1
        DEF JobStep, FailUnentered, Create, Start,
            Progress, Overtime, Finish, Announce
      <4>2. [status |-> "pending", whole |-> TRUE] \in EntryType
        BY DEF EntryType
      <4>3. \A s \in {"running", "completed", "failed"} :
               [entry EXCEPT !.status = s] \in EntryType
        BY <2>0 DEF EntryType
      <4> QED  BY <2>0, <4>1, <4>2, <4>3 DEF SetJob
    <3> QED  BY <2>0, <3>1, <3>2, <3>3, <3>4 DEF ChatTypeOK
  <2>2. CASE StreamStep \/ PanelStep \/ UNCHANGED chatVars
    <3>1. UNCHANGED jobVars
      BY <2>2
      DEF StreamStep, PanelStep, Subscribe, Pump,
          Relay, PollEnds, Read, StreamOver,
          StreamRaises, PollAgain, PollDecides, GiveUp,
          chatVars
    <3>2. listener' \in {listener, "on", "gone"} /\ srv' \in {srv, "ended"}
      BY <2>2
      DEF StreamStep, PanelStep, Subscribe, Pump,
          Relay, PollEnds, Read, StreamOver,
          StreamRaises, PollAgain, PollDecides, GiveUp,
          chatVars, storeVars
    <3> QED  BY <2>0, <3>1, <3>2 DEF ChatTypeOK, EntryType, jobVars
  <2>3. CASE Fault
    <3>1. /\ UNCHANGED <<message, verdict, told>>
          /\ job' \in {job, "over"} /\ entry' \in {entry, Absent}
          /\ listener' \in {listener, "gone"} /\ srv' \in {srv, "cut"}
      BY <2>3
      DEF Fault, OtherStarts, Restart, ListenerDies,
          Cut, Unmount, jobVars, storeVars
    <3>2. entry' \in EntryType
      <4>1. Absent \in EntryType
        BY DEF EntryType, Absent
      <4> QED  BY <2>0, <3>1, <4>1
    <3>3. job' \in {"extract", "created", "running", "late", "announce", "over"}
      BY <2>0, <3>1 DEF ChatTypeOK
    <3> QED  BY <2>0, <3>1, <3>2, <3>3 DEF ChatTypeOK
  <2> QED  BY <2>1, <2>2, <2>3 DEF ChatNext
<1> QED  BY <1>1, <1>2, <1>3 DEF ChatTypeOK, PanelType, EntryType

\* The invariant holds of a chat that was just answered.
LEMMA ChatInitially ==
    ASSUME ChatInit PROVE ChatInv
<1> USE DEF ChatInit
<1>1. <<"ready">> \in Seq(Honestly) /\ <<"ready">> \in Seq(Event)
  BY DEF Honestly, Honest, Event
<1>2. UnderWay /\ Reached /\ Said
  BY <1>1, EmptySeq DEF UnderWay, Reached, Said, Absent
<1>3. panel \in PanelType /\ told \in 0..MaxProgress
  BY PollsAssumption DEF PanelType
<1>4. ChatTypeOK
  BY <1>1, <1>3, EmptySeq DEF ChatTypeOK, PanelType, Absent, Verdicts
<1> QED  BY <1>2, <1>4 DEF ChatInv

\* The types of a chat and what is told on its way hold in every reachable
\* state, for any number of the panel's polls.
THEOREM ChatInvariance == ChatSpec => []ChatInv
<1>1. ChatInv /\ [ChatNext]_chatVars => ChatInv'
  <2> SUFFICES ASSUME ChatInv, [ChatNext]_chatVars PROVE ChatInv'
    OBVIOUS
  <2> QED  BY ChatTypes, UnderWayStep, ReachedStep, PanelMoves DEF ChatInv
<1> QED  BY <1>1, ChatInitially, PTL DEF ChatSpec

\* A chat over the Redis store: whatever is lost, cut or restarted, the panel
\* shows a result only of a job that completed, and a failure only of a job
\* that failed or that it could not ask about any longer; no message that
\* holds a code is refused.
THEOREM PanelToldTruth == ChatSpec => []ToldTruth
<1>1. ChatInv => ToldTruth
  BY DEF ChatInv, ToldTruth, Reached, Said
<1> QED  BY <1>1, ChatInvariance, PTL
=============================================================================
