---------------------------- MODULE AnalysisGraph ----------------------------
(***************************************************************************)
(* The agents' workflow of one analysis (tradingagents/graph and           *)
(* tradingagents/agents) and the coroutine that consumes it                *)
(* (_run_job_inner in api/main.py): analysts in parallel, a debate of bull *)
(* and bear, a trader, a debate of three risk analysts, a judge who may    *)
(* send the trader back, and behind them the statuses shown to the browser *)
(* and the sections written to the report row.                             *)
(*                                                                         *)
(* LangGraph runs supersteps: the nodes of one run concurrently, what they *)
(* return is applied when the last of them has returned, and the state is  *)
(* handed to the consumer, who must take it before the next one starts.    *)
(* A reply of a model is what the control flow reads of it: whether it is  *)
(* empty, the claims its tagged block names, and the judge's verdict.      *)
(***************************************************************************)
EXTENDS Integers, Sequences, FiniteSets

CONSTANTS
    Analysts,      \* selected_analysts, among AllAnalysts
    DebateRounds,  \* max_debate_rounds
    RiskRounds,    \* max_risk_discuss_rounds
    MaxClaims,     \* bound: claims registered in one debate
    MaxEmpty       \* bound: empty replies in one run

AllAnalysts == {"market", "social", "news", "fundamentals", "macro",
                "smart_money", "volume_price"}

ASSUME AnalystsAssumption == Analysts \subseteq AllAnalysts /\ Analysts # {}
ASSUME RoundsAssumption == DebateRounds \in Nat /\ RiskRounds \in Nat
ASSUME BoundsAssumption == MaxClaims \in Nat /\ MaxEmpty \in Nat

VARIABLES
    route,      \* "intent" (raises what the graph raises) or "stream"
    node,       \* the superstep that runs next, "end", "broken" or "left"
    returned,   \* what the analysts of the first superstep have returned
    reports,    \* the analysts' reports in the graph state
    inv,        \* investment_debate_state
    risk,       \* risk_debate_state
    invPlan,    \* investment_plan
    plan,       \* trader_investment_plan: which draft, and is it empty?
    feedback,   \* risk_feedback_state
    decision,   \* final_trade_decision: the draft it rules on, the verdict
    steps,      \* supersteps finished
    empties,    \* empty replies so far
    chunk,      \* is a state waiting for the consumer?
    seen,       \* what the consumer has already acted on
    shown,      \* status of each agent as shown to the browser
    row,        \* the sections of the report row
    outcome     \* "open", then what the consumer made of the run

analystVars == <<returned, reports>>
debateVars == <<inv, invPlan>>
tradeVars == <<plan, risk, feedback, decision>>
consumerVars == <<seen, shown, row, outcome>>
vars == <<route, node, analystVars, debateVars, tradeVars, steps, empties,
          chunk, consumerVars>>

Text == {"none", "empty", "text"}
ResearchTeam == {"bull", "bear", "research_manager"}
RiskTeam == {"aggressive", "conservative", "neutral", "portfolio_manager"}
Agents == AllAnalysts \cup ResearchTeam \cup {"trader"} \cup RiskTeam
ShownStatus == {"pending", "in_progress", "completed", "skipped"}
Verdict == {"pass", "revise", "reject"}
InvSpeakers == {"bull", "bear"}
RiskSpeakers == {"aggressive", "conservative", "neutral"}

\* risk_feedback_state.max_retries, set by create_initial_state.
MaxRetries == 1

-----------------------------------------------------------------------------
(* The book of claims of a debate (agents/utils/debate_utils.py).          *)

EmptyBook == [status |-> <<>>, open |-> {}, resolved |-> {}, unresolved |-> {}]
ClaimIds(book) == DOMAIN book.status

\* What a reply's tagged block can say; unknown claim ids are filtered out,
\* and a block that does not parse says nothing.
Payloads(book) ==
    [responded : SUBSET ClaimIds(book), resolved : SUBSET ClaimIds(book),
     unresolved : SUBSET ClaimIds(book),
     new : 0..(MaxClaims - Len(book.status))]

\* Mutant: a claim resolved now stays among the unresolved ones.
UpdatedBookKeeps(book, p) ==
    LET before == Len(book.status)
        New == (before + 1)..(before + p.new)
    IN [status |-> [i \in 1..(before + p.new) |->
            IF i \in New THEN "open"
            ELSE IF i \in p.unresolved THEN "unresolved"
            ELSE IF i \in p.resolved THEN "resolved"
            ELSE IF i \in p.responded /\ book.status[i] = "open"
                 THEN "addressed" ELSE book.status[i]],
        open |-> ((book.open \ p.resolved) \cup p.unresolved) \cup New,
        resolved |-> (book.resolved \cup p.resolved) \ p.unresolved,
        unresolved |-> book.unresolved \cup p.unresolved]

\* Responded, then resolved, then unresolved claims, then the new ones.
UpdatedBook(book, p) ==
    LET before == Len(book.status)
        New == (before + 1)..(before + p.new)
    IN [status |-> [i \in 1..(before + p.new) |->
            IF i \in New THEN "open"
            ELSE IF i \in p.unresolved THEN "unresolved"
            ELSE IF i \in p.resolved THEN "resolved"
            ELSE IF i \in p.responded /\ book.status[i] = "open"
                 THEN "addressed" ELSE book.status[i]],
        open |-> ((book.open \ p.resolved) \cup p.unresolved) \cup New,
        resolved |-> (book.resolved \cup p.resolved) \ p.unresolved,
        unresolved |-> (book.unresolved \ p.resolved) \cup p.unresolved]

\* A debate: turns taken, the last speaker, each one's part of the history,
\* the claims and whether a judge has decided.
NewDebate(speakers) ==
    [count |-> 0, last |-> "none", said |-> [s \in speakers |-> 0],
     book |-> EmptyBook, judged |-> "none"]

AfterSpeech(debate, speaker, p) ==
    [debate EXCEPT !.count = @ + 1, !.last = speaker, !.said[speaker] = @ + 1,
                   !.book = UpdatedBook(@, p)]

-----------------------------------------------------------------------------
(* The edges of the graph.                                                 *)

ShouldContinueDebate(debate) ==
    IF debate.count >= 2 * DebateRounds THEN "research_manager"
    ELSE IF debate.last = "bull" THEN "bear" ELSE "bull"

ShouldContinueRisk(debate) ==
    IF debate.count >= 3 * RiskRounds THEN "portfolio_manager"
    ELSE IF debate.last = "aggressive" THEN "conservative"
    ELSE IF debate.last = "conservative" THEN "neutral" ELSE "aggressive"

\* Mutant: every demand for a revision is met.
ShouldReviseAlways(fb) == IF fb.required THEN "trader" ELSE "end"

ShouldRevise(fb) ==
    IF fb.required /\ fb.retries <= MaxRetries THEN "trader" ELSE "end"

-----------------------------------------------------------------------------
(* The nodes.  A superstep ends by handing its state to the consumer.      *)

Runs(n) == node = n /\ ~chunk /\ outcome = "open"
Goto(n) == node' = n /\ steps' = steps + 1 /\ chunk' = TRUE

\* A model may answer with an empty text.
Reply(text) ==
    /\ text \in {"empty", "text"}
    /\ text = "empty" => empties < MaxEmpty
    /\ empties' = IF text = "empty" THEN empties + 1 ELSE empties

\* The analyst gathers its data (from the collector's pool, or with calls
\* whose exceptions become text), asks the model and returns its report.
Analyse(a) ==
    /\ Runs("analysts")
    /\ a \in Analysts
    /\ returned[a] = "none"
    /\ \E text \in Text :
          Reply(text) /\ returned' = [returned EXCEPT ![a] = text]
    /\ UNCHANGED <<route, node, reports, debateVars, tradeVars, steps, chunk,
                   consumerVars>>

MarketAnalyst == Analyse("market")
SocialAnalyst == Analyse("social")
NewsAnalyst == Analyse("news")
FundamentalsAnalyst == Analyse("fundamentals")
MacroAnalyst == Analyse("macro")
SmartMoneyAnalyst == Analyse("smart_money")
VolumePriceAnalyst == Analyse("volume_price")

\* The superstep of the analysts ends when the last of them has returned.
AnalystsReturned ==
    /\ Runs("analysts")
    /\ \A a \in Analysts : returned[a] # "none"
    /\ reports' = returned
    /\ Goto("done")
    /\ UNCHANGED <<route, returned, debateVars, tradeVars, empties,
                   consumerVars>>

\* The "Done" nodes join the branches and change nothing.
AnalystsDone ==
    /\ Runs("done")
    /\ Goto("bull")
    /\ UNCHANGED <<route, analystVars, debateVars, tradeVars, empties,
                   consumerVars>>

InvSpeech(speaker) ==
    /\ Runs(speaker)
    /\ \E p \in Payloads(inv.book) : inv' = AfterSpeech(inv, speaker, p)
    /\ Goto(ShouldContinueDebate(inv'))
    /\ UNCHANGED <<route, analystVars, invPlan, tradeVars, empties,
                   consumerVars>>

BullResearcher == InvSpeech("bull")
BearResearcher == InvSpeech("bear")

ResearchManager ==
    /\ Runs("research_manager")
    /\ \E text \in Text :
          /\ Reply(text)
          /\ inv' = [inv EXCEPT !.judged = text]
          /\ invPlan' = text
    /\ Goto("trader")
    /\ UNCHANGED <<route, analystVars, tradeVars, consumerVars>>

\* Mutant: a revision goes on with the risk debate of the rejected draft.
TraderKeepsDebate ==
    /\ Runs("trader")
    /\ \E text \in Text :
          /\ Reply(text)
          /\ plan' = [draft |-> plan.draft + 1, text |-> text]
    /\ IF feedback.verdict = "revise"
       THEN feedback' = [feedback EXCEPT !.required = FALSE]
       ELSE UNCHANGED feedback
    /\ Goto("aggressive")
    /\ UNCHANGED <<route, analystVars, debateVars, risk, decision,
                   consumerVars>>

\* A revised plan opens a new risk debate.
Trader ==
    /\ Runs("trader")
    /\ \E text \in Text :
          /\ Reply(text)
          /\ plan' = [draft |-> plan.draft + 1, text |-> text]
    /\ IF feedback.verdict = "revise"
       THEN /\ risk' = NewDebate(RiskSpeakers)
            /\ feedback' = [feedback EXCEPT !.required = FALSE]
       ELSE UNCHANGED <<risk, feedback>>
    /\ Goto("aggressive")
    /\ UNCHANGED <<route, analystVars, debateVars, decision, consumerVars>>

RiskSpeech(speaker) ==
    /\ Runs(speaker)
    /\ \E p \in Payloads(risk.book) : risk' = AfterSpeech(risk, speaker, p)
    /\ Goto(ShouldContinueRisk(risk'))
    /\ UNCHANGED <<route, analystVars, debateVars, plan, feedback, decision,
                   empties, consumerVars>>

AggressiveAnalyst == RiskSpeech("aggressive")
ConservativeAnalyst == RiskSpeech("conservative")
NeutralAnalyst == RiskSpeech("neutral")

\* Mutant: a demanded revision is not counted.
RiskJudgeForgets ==
    /\ Runs("portfolio_manager")
    /\ \E verdict \in Verdict, text \in Text :
          /\ Reply(text)
          /\ feedback' = [feedback EXCEPT !.required = (verdict = "revise"),
                                          !.verdict = verdict]
          /\ decision' = [draft |-> plan.draft, verdict |-> verdict,
                          text |-> text]
          /\ risk' = [risk EXCEPT !.judged = text, !.last = "judge"]
    /\ Goto(ShouldRevise(feedback'))
    /\ UNCHANGED <<route, analystVars, debateVars, plan, consumerVars>>

\* A verdict that cannot be read is a "reject"; one that comes alone leaves an
\* empty text.
RiskJudge ==
    /\ Runs("portfolio_manager")
    /\ \E verdict \in Verdict, text \in Text :
          /\ Reply(text)
          /\ feedback' = [retries |-> feedback.retries
                                        + (IF verdict = "revise" THEN 1 ELSE 0),
                          required |-> (verdict = "revise"),
                          verdict |-> verdict]
          /\ decision' = [draft |-> plan.draft, verdict |-> verdict,
                          text |-> text]
          /\ risk' = [risk EXCEPT !.judged = text, !.last = "judge"]
    /\ Goto(ShouldRevise(feedback'))
    /\ UNCHANGED <<route, analystVars, debateVars, plan, consumerVars>>

\* A model call raises (or the recursion limit does): astream() raises.
NodeRaises ==
    /\ ~chunk /\ outcome = "open"
    /\ node \notin {"done", "end", "broken"}
    /\ node' = "broken"
    /\ UNCHANGED <<route, analystVars, debateVars, tradeVars, steps, empties,
                   chunk, consumerVars>>

-----------------------------------------------------------------------------
(* The consumer: async for chunk in graph.astream(...).                    *)

Show(f, agents, status) ==
    [a \in DOMAIN f |-> IF a \in agents THEN status ELSE f[a]]

\* What this state lets the consumer act on for the first time.
NewlySeen ==
    LET reported == {a \in Analysts : reports[a] = "text"}
        judged == IF inv.judged = "text" THEN {"judge"} ELSE {}
        planned == IF plan.text = "text" THEN {"plan"} ELSE {}
        ruled == IF risk.judged = "text" THEN {"ruling"} ELSE {}
        started == IF Analysts \subseteq seen \cup reported
                   THEN {"research"} ELSE {}
    IN (reported \cup started \cup judged \cup planned \cup ruled) \ seen

\* The statuses, in the order of the consumer's five steps.
ShownAfter(new) ==
    LET s1 == Show(shown, new \cap Analysts, "completed")
        s2 == IF "research" \in new
              THEN Show(s1, ResearchTeam, "in_progress") ELSE s1
        s3 == IF "judge" \in new
              THEN Show(Show(s2, ResearchTeam, "completed"), {"trader"},
                        "in_progress") ELSE s2
        s4 == IF "plan" \in new
              THEN Show(Show(s3, {"trader"}, "completed"), {"aggressive"},
                        "in_progress") ELSE s3
    IN IF "ruling" \in new THEN Show(s4, RiskTeam, "completed") ELSE s4

\* Mutant: statuses follow every state, not only the first one.
UpdateShownAlways ==
    /\ shown' = ShownAfter(NewlySeen \cup
                   (IF plan.draft > 0 THEN {"plan", "ruling"} ELSE {}))
    /\ seen' = seen \cup NewlySeen

UpdateShown ==
    /\ shown' = ShownAfter(NewlySeen)
    /\ seen' = seen \cup NewlySeen

\* Sections that are not empty and differ from what was last written.
RowAfter ==
    [analysts |-> {a \in Analysts : reports[a] = "text"},
     invPlan |-> (invPlan = "text"),
     draft |-> IF plan.text = "text" THEN plan.draft ELSE row.draft,
     ruledOn |-> IF decision.text = "text" THEN decision.draft ELSE row.ruledOn]

\* Mutant: a section once written is not written again.
ConsumeWritesOnce ==
    /\ chunk /\ outcome = "open"
    /\ UpdateShown
    /\ row' = [RowAfter EXCEPT !.draft = IF row.draft > 0 THEN row.draft ELSE @]
    /\ chunk' = FALSE
    /\ UNCHANGED <<route, node, analystVars, debateVars, tradeVars, steps,
                   empties, outcome>>

Consume ==
    /\ chunk /\ outcome = "open"
    /\ UpdateShown
    /\ row' = RowAfter
    /\ chunk' = FALSE
    /\ UNCHANGED <<route, node, analystVars, debateVars, tradeVars, steps,
                   empties, outcome>>

\* update_report_partial raises inside the loop.
ConsumeRaises ==
    /\ chunk /\ outcome = "open"
    /\ RowAfter # row
    /\ UpdateShown
    /\ chunk' = FALSE
    /\ node' = "broken"
    /\ UNCHANGED <<route, analystVars, debateVars, tradeVars, steps, empties,
                   row, outcome>>

\* Mutant: the intent route swallows the exception as the other one does.
ConcludeSwallows ==
    /\ ~chunk /\ outcome = "open"
    /\ node \in {"end", "broken"}
    /\ outcome' = "result"
    /\ shown' = [a \in Agents |->
                    IF shown[a] = "skipped" THEN "skipped" ELSE "completed"]
    /\ UNCHANGED <<route, node, analystVars, debateVars, tradeVars, steps,
                   empties, chunk, seen, row>>

\* The result is built from the last state taken; every agent not skipped is
\* shown completed.  The stream route logs an exception and comes here too.
Conclude ==
    /\ ~chunk /\ outcome = "open"
    /\ node = "end" \/ (node = "broken" /\ route = "stream")
    /\ outcome' = "result"
    /\ shown' = [a \in Agents |->
                    IF shown[a] = "skipped" THEN "skipped" ELSE "completed"]
    /\ UNCHANGED <<route, node, analystVars, debateVars, tradeVars, steps,
                   empties, chunk, seen, row>>

\* The intent route raises; the statuses stay as they are.
Raise ==
    /\ outcome = "open"
    /\ node = "broken" /\ route = "intent"
    /\ outcome' = "error"
    /\ UNCHANGED <<route, node, analystVars, debateVars, tradeVars, steps,
                   empties, chunk, seen, shown, row>>

-----------------------------------------------------------------------------
Init ==
    /\ route \in {"intent", "stream"}
    /\ node = "analysts"
    /\ returned = [a \in AllAnalysts |-> "none"]
    /\ reports = [a \in AllAnalysts |-> "none"]
    /\ inv = NewDebate(InvSpeakers)
    /\ risk = NewDebate(RiskSpeakers)
    /\ invPlan = "none"
    /\ plan = [draft |-> 0, text |-> "none"]
    /\ feedback = [retries |-> 0, required |-> FALSE, verdict |-> "none"]
    /\ decision = [draft |-> 0, verdict |-> "none", text |-> "none"]
    /\ steps = 0
    /\ empties = 0
    /\ chunk = TRUE
    /\ seen = {}
    /\ shown = [a \in Agents |->
           IF a \in AllAnalysts \ Analysts THEN "skipped"
           ELSE IF a \in Analysts /\ route = "intent" THEN "in_progress"
           ELSE "pending"]
    /\ row = [analysts |-> {}, invPlan |-> FALSE, draft |-> 0, ruledOn |-> 0]
    /\ outcome = "open"

AnalystStep ==
    \/ MarketAnalyst \/ SocialAnalyst \/ NewsAnalyst \/ FundamentalsAnalyst
    \/ MacroAnalyst \/ SmartMoneyAnalyst \/ VolumePriceAnalyst
    \/ AnalystsReturned \/ AnalystsDone

DebateStep ==
    \/ BullResearcher \/ BearResearcher \/ ResearchManager
    \/ Trader
    \/ AggressiveAnalyst \/ ConservativeAnalyst \/ NeutralAnalyst \/ RiskJudge

ConsumerStep == Consume \/ ConsumeRaises \/ Conclude \/ Raise

Next == AnalystStep \/ DebateStep \/ NodeRaises \/ ConsumerStep

Spec == Init /\ [][Next]_vars

-----------------------------------------------------------------------------
(* Properties.                                                             *)

DebateIn(speakers) ==
    [count : Nat, last : speakers \cup {"none", "judge"},
     said : [speakers -> Nat], judged : Text,
     book : [status : Seq({"open", "addressed", "resolved", "unresolved"}),
             open : SUBSET Nat, resolved : SUBSET Nat, unresolved : SUBSET Nat]]

\* Every variable stays in its range.
TypeOK ==
    /\ route \in {"intent", "stream"}
    /\ node \in {"analysts", "done", "trader", "end", "broken"}
                  \cup ResearchTeam \cup RiskTeam
    /\ returned \in [AllAnalysts -> Text]
    /\ reports \in [AllAnalysts -> Text]
    /\ inv \in DebateIn(InvSpeakers)
    /\ risk \in DebateIn(RiskSpeakers)
    /\ invPlan \in Text
    /\ plan \in [draft : 0..MaxRetries + 1, text : Text]
    /\ feedback \in [retries : 0..MaxRetries + 1, required : BOOLEAN,
                     verdict : Verdict \cup {"none"}]
    /\ decision \in [draft : 0..MaxRetries + 1, verdict : Verdict \cup {"none"}, text : Text]
    /\ steps \in Nat /\ empties \in Nat /\ chunk \in BOOLEAN
    /\ seen \subseteq Agents \cup {"research", "judge", "plan", "ruling"}
    /\ shown \in [Agents -> ShownStatus]
    /\ row \in [analysts : SUBSET AllAnalysts, invPlan : BOOLEAN,
                draft : 0..MaxRetries + 1, ruledOn : 0..MaxRetries + 1]
    /\ outcome \in {"open", "result", "error"}

\* No judge rules before every side has spoken in every round, and the risk
\* judge only on speeches about the draft in front of him: a revised plan is
\* debated again from the start (trader.py, conditional_logic.py).
HeardInFull ==
    /\ node = "research_manager" /\ DebateRounds > 0 =>
           \A s \in InvSpeakers : inv.said[s] = DebateRounds
    /\ node = "portfolio_manager" /\ RiskRounds > 0 =>
           \A s \in RiskSpeakers : risk.said[s] = RiskRounds

\* Turns of a debate of n sides: even without a round one of them speaks.
Turns(n, rounds) == IF rounds = 0 THEN 1 ELSE n * rounds

LongestRun ==
    3 + Turns(2, DebateRounds) + (MaxRetries + 1) * (2 + Turns(3, RiskRounds))

\* Whatever the models answer, the debates and the revision loop are over
\* after that many supersteps, and so are the model calls: the recursion
\* limit of 100 is out of reach for the configured rounds.
RunIsShort == steps <= LongestRun

\* The four views of a claim agree: the status registered with it, and the
\* lists of open, resolved and unresolved claims the next speaker is given.
BookAgrees(book) ==
    /\ book.resolved = {i \in ClaimIds(book) : book.status[i] = "resolved"}
    /\ book.unresolved = {i \in ClaimIds(book) : book.status[i] = "unresolved"}
    /\ book.open = ClaimIds(book) \ book.resolved
ClaimsAgree == BookAgrees(inv.book) /\ BookAgrees(risk.book)

\* Has the agent returned at least once?
HasRun(a) ==
    \/ a \in Analysts /\ reports[a] # "none"
    \/ a \in InvSpeakers /\ inv.said[a] > 0
    \/ a = "research_manager" /\ invPlan # "none"
    \/ a = "trader" /\ plan.draft > 0
    \/ a \in RiskSpeakers /\ (risk.said[a] > 0 \/ decision.draft > 0)
    \/ a = "portfolio_manager" /\ decision.draft > 0

\* What the user gets is what the agents did: while the run is open no agent is
\* shown completed that has not run; when the consumer is idle the row holds the
\* plan the risk team is given and the latest ruling; and on the intent route a
\* result is a ruling on the very plan it is stored with, one that leaves no
\* revision to make.
ShownAgrees ==
    /\ outcome = "open" /\ RiskRounds > 0 /\ DebateRounds > 0 =>
           \A a \in Agents : shown[a] = "completed" => HasRun(a)
    /\ ~chunk /\ node # "broken" =>
           /\ plan.text = "text" => row.draft = plan.draft
           /\ decision.text = "text" => row.ruledOn = decision.draft
    /\ outcome = "result" /\ route = "intent" =>
           /\ decision.draft = plan.draft /\ plan.draft > 0
           /\ decision.verdict = "revise" => plan.draft > MaxRetries
=============================================================================
