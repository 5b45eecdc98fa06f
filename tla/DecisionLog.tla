---------------------------- MODULE DecisionLog ----------------------------
(***************************************************************************)
(* The agent's calls of a language model (app/llm), and what the decision  *)
(* log says of them (app/onchain_logger.py).  The TEE signature and the    *)
(* pointer to the uploaded reasoning of the last call are kept in two      *)
(* globals of llm_planner.py; the log reads them.  A call is a number, and *)
(* so are its signature and its pointer; 0 is none.                        *)
(***************************************************************************)
EXTENDS Naturals, Sequences

CONSTANTS
  Sessions,                     \* POST /start requests that may overlap (app/engine.py:136)
  LlmProviders, ProviderOrder,  \* names; the order of the last resort in _get_provider
  TeeProvider,                  \* "0g_compute", the one that signs
  LlmKeys,                      \* the providers with a key
  Preferred, Requested,         \* LLM_PROVIDER, or the first with a key; the sessions' own choice
  NoProvider,
  MaxLlmCalls

\* What a client may ask for: anything else counts as no choice (app/main.py:121, engine.py:166).
Askable == (LlmProviders \ {TeeProvider}) \cup {NoProvider}

ASSUME DecisionAssumption ==
  /\ LlmKeys \subseteq LlmProviders /\ TeeProvider \in LlmProviders
  /\ ProviderOrder \in Seq(LlmProviders) /\ NoProvider \notin LlmProviders
  /\ Requested \in Askable
  /\ MaxLlmCalls \in Nat

VARIABLES
  llmCalls,  \* calls that succeeded
  lastSig,   \* LAST_TEE_SIGNATURE
  lastCid,   \* LAST_REASONING_CID
  session,   \* of each start: "idle", the steps of its planning thread, "running"
  planCall,  \* the call each planning thread uploads
  decision,  \* the decision each loop's supervisor is at; its mixed and crossed are history
  logged     \* the last decision the log has

decisionVars == <<llmCalls, lastSig, lastCid, session, planCall, decision, logged>>

CallIds == 0..MaxLlmCalls
\* mixed: calls of planning threads that wrote a global between the model's answer and the
\* hash; crossed: another call wrote one between the hash and the report.
NoDecision == [call |-> 0, cid |-> 0, sig |-> 0, at |-> "none", mixed |-> {}, crossed |-> FALSE]
Decisions == [call : CallIds, cid : CallIds, sig : CallIds,
              at : {"none", "answered", "stashed", "sending", "reporting"},
              mixed : SUBSET CallIds, crossed : BOOLEAN]
NothingLogged == [call |-> 0, cid |-> 0, sig |-> 0, reported |-> 0, mixed |-> {}, crossed |-> FALSE]
PlanSteps == {"idle", "plan", "clear", "upload", "explain", "running"}

DecisionTypeOK ==
  /\ llmCalls \in CallIds /\ lastSig \in CallIds /\ lastCid \in CallIds
  /\ session \in [Sessions -> PlanSteps] /\ planCall \in [Sessions -> CallIds]
  /\ decision \in [Sessions -> Decisions]
  /\ logged \in [call : CallIds, cid : CallIds, sig : CallIds, reported : CallIds,
                 mixed : SUBSET CallIds, crossed : BOOLEAN]
  /\ lastSig <= llmCalls /\ lastCid <= llmCalls

DecisionInit ==
  /\ llmCalls = 0 /\ lastSig = 0 /\ lastCid = 0
  /\ session = [s \in Sessions |-> "idle"] /\ planCall = [s \in Sessions |-> 0]
  /\ decision = [s \in Sessions |-> NoDecision]
  /\ logged = NothingLogged

(***************************************************************************)
(* _get_provider: the one asked for, the preferred one, the first one with *)
(* a key.  _has_llm asks for none.                                         *)
(***************************************************************************)
FirstWithKey ==
  LET usable == {i \in DOMAIN ProviderOrder : ProviderOrder[i] \in LlmKeys} IN
  IF usable = {} THEN NoProvider
  ELSE ProviderOrder[CHOOSE i \in usable : \A j \in usable : i <= j]
Provider(asked) ==
  IF asked \in LlmKeys THEN asked ELSE IF Preferred \in LlmKeys THEN Preferred ELSE FirstWithKey
HasLlm == Provider(NoProvider) # NoProvider

\* _chat that succeeds and _chat that raises, in terms of the signature it leaves:
\* a provider that signs leaves the old one when it fails.
Signature(p, sig) == IF p = TeeProvider THEN sig ELSE 0
SignatureAfterFailure(p) == IF p = TeeProvider THEN lastSig ELSE 0
NextCall == llmCalls + 1
CallPossible == llmCalls < MaxLlmCalls

\* _stash_reasoning: the pointer of this call's upload, or none if it failed.
Uploads(call) == {call, 0}

\* supervisor_check is called on the event loop: from the model's answer to the hash of the
\* decision only the planning threads run beside it.
LoopBlocked == \E s \in Sessions : decision[s].at \in {"answered", "stashed"}

\* What a write to the globals by the given calls means to the decision of a loop.
Touched(d, calls) ==
  CASE d.at \in {"answered", "stashed"} -> [d EXCEPT !.mixed = @ \cup calls]
    [] d.at \in {"sending", "reporting"} -> [d EXCEPT !.crossed = TRUE]
    [] OTHER -> d
GlobalsWritten(calls) == decision' = [s \in Sessions |-> Touched(decision[s], calls)]
Becomes(s, d) ==
  decision' = [t \in Sessions |-> IF t = s THEN d ELSE Touched(decision[t], {})]

(***************************************************************************)
(* POST /plan, and POST /ai-planner, which asks a second time for an       *)
(* explanation.  Both run on the event loop without a pause.               *)
(***************************************************************************)
PlanRequested(asked, explained) ==
  /\ ~LoopBlocked /\ HasLlm /\ llmCalls + 2 <= MaxLlmCalls
  /\ \E cid \in Uploads(NextCall) : lastCid' = cid
  /\ llmCalls' = IF explained THEN llmCalls + 2 ELSE NextCall
  /\ \E sig \in {0, llmCalls'} : lastSig' = Signature(Provider(asked), sig)
  /\ GlobalsWritten({})
  /\ UNCHANGED <<session, planCall, logged>>

\* The plan's call fails; the explanation of the default plan may not.
PlanRequestFails(asked, explained) ==
  /\ ~LoopBlocked /\ HasLlm /\ (explained => CallPossible)
  /\ llmCalls' = IF explained THEN NextCall ELSE llmCalls
  /\ IF explained THEN \E sig \in {0, NextCall} : lastSig' = Signature(Provider(asked), sig)
     ELSE lastSig' = SignatureAfterFailure(Provider(asked))
  /\ GlobalsWritten({})
  /\ UNCHANGED <<lastCid, session, planCall, logged>>

(***************************************************************************)
(* start(): get_full_analysis in a thread of its own.  A start that passed *)
(* the check of engine.py:136 before another one began its loop plans      *)
(* beside that loop, however long it waited for a price.  With too few     *)
(* candles it takes the default plan and calls nobody.                     *)
(***************************************************************************)
StartPlans(s) ==
  /\ ~LoopBlocked /\ session[s] = "idle"
  /\ \/ session' = [session EXCEPT ![s] = "running"]
     \/ HasLlm /\ session' = [session EXCEPT ![s] = "plan"]
  /\ UNCHANGED <<llmCalls, lastSig, lastCid, planCall, decision, logged>>

StartCalls(s) ==
  /\ session[s] = "plan" /\ CallPossible
  /\ llmCalls' = NextCall /\ planCall' = [planCall EXCEPT ![s] = NextCall]
  /\ \E sig \in {0, NextCall} : lastSig' = Signature(Provider(Requested), sig)
  /\ session' = [session EXCEPT ![s] = "clear"]
  /\ GlobalsWritten({NextCall})
  /\ UNCHANGED <<lastCid, logged>>

StartCallFails(s) ==
  /\ session[s] \in {"plan", "explain"}
  /\ lastSig' = SignatureAfterFailure(Provider(Requested))
  /\ session' = [session EXCEPT ![s] = IF @ = "plan" THEN "explain" ELSE "running"]
  /\ GlobalsWritten({})
  /\ UNCHANGED <<llmCalls, lastCid, planCall, logged>>

\* _stash_reasoning forgets the last pointer before it uploads.
StartClears(s) ==
  /\ session[s] = "clear"
  /\ lastCid' = 0
  /\ session' = [session EXCEPT ![s] = "upload"]
  /\ GlobalsWritten({})
  /\ UNCHANGED <<llmCalls, lastSig, planCall, logged>>

StartStashes(s) ==
  /\ session[s] = "upload"
  /\ lastCid' \in Uploads(planCall[s])
  /\ session' = [session EXCEPT ![s] = "explain"] /\ planCall' = [planCall EXCEPT ![s] = 0]
  /\ GlobalsWritten({planCall[s]})
  /\ UNCHANGED <<llmCalls, lastSig, logged>>

\* _get_analysis_explanation: a call whose text is not uploaded.
StartExplains(s) ==
  /\ session[s] = "explain" /\ CallPossible
  /\ llmCalls' = NextCall
  /\ \E sig \in {0, NextCall} : lastSig' = Signature(Provider(Requested), sig)
  /\ session' = [session EXCEPT ![s] = "running"]
  /\ GlobalsWritten({NextCall})
  /\ UNCHANGED <<lastCid, planCall, logged>>

\* A loop ends between two ticks, not while its decision is being logged.
SessionStops(s) ==
  /\ ~LoopBlocked /\ session[s] = "running" /\ decision[s].at = "none"
  /\ session' = [session EXCEPT ![s] = "idle"]
  /\ UNCHANGED <<llmCalls, lastSig, lastCid, planCall, decision, logged>>

(***************************************************************************)
(* _run_supervisor_check, up to its first pause: the answer, its upload,   *)
(* and the hash of the decision, made of the globals as they are then.     *)
(***************************************************************************)
Decided(call, at) == [NoDecision EXCEPT !.call = call, !.at = at]

SupervisorDecides(s) ==
  /\ ~LoopBlocked /\ session[s] = "running" /\ decision[s].at = "none" /\ HasLlm /\ CallPossible
  /\ llmCalls' = NextCall
  /\ \E sig \in {0, NextCall} : lastSig' = Signature(Provider(Requested), sig)
  /\ Becomes(s, Decided(NextCall, "answered"))
  /\ UNCHANGED <<lastCid, session, planCall, logged>>

\* No provider, or the call failed: KEEP, with the reason as its reasoning.
SupervisorKeeps(s) ==
  /\ ~LoopBlocked /\ session[s] = "running" /\ decision[s].at = "none"
  /\ lastSig' = IF HasLlm THEN SignatureAfterFailure(Provider(Requested)) ELSE lastSig
  /\ Becomes(s, Decided(0, "stashed"))
  /\ UNCHANGED <<llmCalls, lastCid, session, planCall, logged>>

SupervisorStashes(s) ==
  /\ decision[s].at = "answered"
  /\ lastCid' \in Uploads(decision[s].call)
  /\ Becomes(s, [decision[s] EXCEPT !.at = "stashed"])
  /\ UNCHANGED <<llmCalls, lastSig, session, planCall, logged>>

DecisionHashed(s) ==
  /\ decision[s].at = "stashed"
  /\ decision' = [decision EXCEPT ![s].cid = lastCid, ![s].sig = lastSig, ![s].at = "sending"]
  /\ UNCHANGED <<llmCalls, lastSig, lastCid, session, planCall, logged>>

MutHashedWhenSent(s) ==
  /\ ~LoopBlocked /\ decision[s].at = "sending"
  /\ decision' = [decision EXCEPT ![s].at = "reporting", ![s].cid = lastCid,
                                  ![s].sig = lastSig]
  /\ UNCHANGED <<llmCalls, lastSig, lastCid, session, planCall, logged>>
\* logDecision is sent, or fails (no node, or a pnl that is no int16): the row is written
\* either way.
DecisionSent(s) ==
  /\ ~LoopBlocked /\ decision[s].at = "sending"
  /\ decision' = [decision EXCEPT ![s].at = "reporting"]
  /\ UNCHANGED <<llmCalls, lastSig, lastCid, session, planCall, logged>>

\* push_decision: the row of a decision beside what its hash was made of.
DecisionRow(d, reported) ==
  [call |-> d.call, cid |-> d.cid, sig |-> d.sig, reported |-> reported, mixed |-> d.mixed,
   crossed |-> d.crossed]

\* report_onchain_decision: the pointer is read again, after the pause.
DecisionReported(s) ==
  /\ ~LoopBlocked /\ decision[s].at = "reporting"
  /\ logged' = DecisionRow(decision[s], lastCid)
  /\ decision' = [decision EXCEPT ![s] = NoDecision]
  /\ UNCHANGED <<llmCalls, lastSig, lastCid, session, planCall>>

SessionPlans(s) ==
  \/ StartPlans(s) \/ StartCalls(s) \/ StartCallFails(s) \/ StartClears(s) \/ StartStashes(s)
  \/ StartExplains(s) \/ SessionStops(s)
SessionDecides(s) ==
  \/ SupervisorDecides(s) \/ SupervisorKeeps(s) \/ SupervisorStashes(s) \/ DecisionHashed(s)
  \/ DecisionSent(s) \/ DecisionReported(s)

DecisionNext ==
  \/ \E p \in Askable, e \in BOOLEAN : PlanRequested(p, e) \/ PlanRequestFails(p, e)
  \/ \E s \in Sessions : SessionPlans(s) \/ SessionDecides(s)

DecisionSpec == DecisionInit /\ [][DecisionNext]_decisionVars

(***************************************************************************)
(* Properties.                                                             *)
(***************************************************************************)
\* A decision the model made is hashed with its own reasoning and its own signature or with
\* none, whatever calls run while it is sent; the one exception are the planning threads of
\* starts that overlap its loop and wrote between its answer and its hash.
OwnReasoningHashed ==
  logged.call # 0 => {logged.cid, logged.sig} \subseteq {0, logged.call} \cup logged.mixed

\* The pointer reported to the user-server is the one hashed on the chain, unless
\* another call ran in between.
ReportedAsHashed == ~logged.crossed => logged.reported = logged.cid

\* What an auditor compares, the hash on the chain and the pointer the user-server
\* keeps (onchain_logger.py:65, hub_callback.py:143), is about the decision itself.
HashedAsDecided == OwnReasoningHashed /\ ReportedAsHashed
=============================================================================
