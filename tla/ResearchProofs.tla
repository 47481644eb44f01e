---------------------------- MODULE ResearchProofs ----------------------------
(***************************************************************************)
(* The multi-model research, for all values of the constants: what the     *)
(* records of a provider's answer say (ProviderCall), what an accepted     *)
(* launch vouches for (LaunchChain), what the two views of a task's        *)
(* results have in common (ResearchBatch), and what the records of Phase B *)
(* are records of (PhaseB).                                                *)
(***************************************************************************)
EXTENDS ProviderCall, PhaseB, RequestDocuments, FiniteSetTheorems, TLAPS

-----------------------------------------------------------------------------
(* The call of a provider.                                                 *)
(*                                                                         *)
(* Requests and answers are only ever added, so that what was accepted of  *)
(* them stays true; the inductive invariant keeps what Answer, Ingest and  *)
(* Bind looked at when they accepted it.                                   *)
RequestRecord == [for: Assignment, created: Time]
AnswerRecord ==
    [to: Nat, ending: Ending["gemini"] \cup Ending["claude"], model: Model, text: Text, at: Time]

(* An answer is by the provider that was asked; a result in its text is    *)
(* for the assignment that was asked for.                                  *)
AnswerOf(x) ==
    /\ x \in AnswerRecord /\ x.to \in DOMAIN requests
    /\ x.ending \in Ending[ProviderOf(x)]
    /\ x.text \in Result => x.text.for = requests[x.to].for

IngestedSoundly(i) ==
    /\ i \in [answer: DOMAIN answers, for: Assignment, result: Result]
    /\ LET x == answers[i.answer]
       IN  /\ Parses(x) /\ Observed(x) = "COMPLETED" /\ Served(i.for, x)
           /\ i.result = x.text /\ ResultFor(i.for, x.text)

BoundSoundly(b) ==
    /\ b \in [answer: DOMAIN answers, request: DOMAIN requests, result: Result, attested: BOOLEAN]
    /\ LET x == answers[b.answer]
       IN  /\ Parses(x) /\ b.result.status = StatusOf(Observed(x))
           /\ b.attested => Served(requests[b.request].for, x)

CallInv ==
    /\ now \in Time
    /\ requests \in Seq(RequestRecord) /\ answers \in Seq(AnswerRecord)
    /\ \A k \in DOMAIN answers : AnswerOf(answers[k])
    /\ \A i \in ingested : IngestedSoundly(i)
    /\ \A b \in bound : BoundSoundly(b)

(* Gemini's endings have no refusal details.                               *)
LEMMA NotRefused ==
    ASSUME NEW C, NEW e \in C \X {FALSE} PROVE \E r \in C : e = <<r, FALSE>>
<1>1. e = <<e[1], e[2]>>
  OBVIOUS
<1>2. e[2] = FALSE
  OBVIOUS
<1>3. e[1] \in C
  OBVIOUS
<1> QED BY <1>1, <1>2, <1>3, Zenon

(* An answer that parses is in one of the states of a termination record,  *)
(* and in COMPLETED exactly if it is finished.                             *)
LEMMA StateOfAnswer ==
    ASSUME CallInv, NEW k \in DOMAIN answers, Parses(answers[k])
    PROVE  /\ Observed(answers[k]) \in NormalizedState
           /\ Observed(answers[k]) = "COMPLETED" <=> Finished(answers[k])
<1> DEFINE x == answers[k]
<1>1. AnswerOf(x) /\ requests[x.to] \in RequestRecord
  BY DEF CallInv, AnswerOf
<1>2. ProviderOf(x) \in {"gemini", "claude"}
  BY <1>1, CallAssumption DEF ProviderOf, RequestRecord
<1> HIDE DEF x
<1>3. CASE ProviderOf(x) = "gemini"
  <2>0. x.ending \in GeminiReason \X {FALSE}
    BY <1>1, <1>3, CallAssumption DEF AnswerOf
  <2>1. PICK r \in GeminiReason : x.ending = <<r, FALSE>>
    BY <2>0, NotRefused
  <2>2. Observed(x) = Gemini(x) /\ x.ending[1] = r
    BY <1>3, <2>1 DEF Observed
  <2>3. Finished(x) <=> r = "completed" /\ x.text # Empty
    BY <2>1 DEF Finished, GeminiReason
  <2> QED BY <2>2, <2>3 DEF Gemini, WhenText, NormalizedState, GeminiReason, x
<1>4. CASE ProviderOf(x) = "claude"
  <2>0. x.ending \in ClaudeReason \X BOOLEAN
    BY <1>1, <1>4, CallAssumption DEF AnswerOf
  <2>1. PICK r \in ClaudeReason, d \in BOOLEAN : x.ending = <<r, d>>
    BY <2>0
  <2>2. Observed(x) = Claude(x) /\ x.ending[1] = r /\ (x.ending[2] <=> d)
    BY <1>4, <2>1 DEF Observed
  <2>3. d \/ r \notin {"tool_use", "pause_turn"}
    BY <1>4, <2>2 DEF Parses, x
  <2>4. Finished(x) <=> r = "end_turn" /\ ~ d /\ x.text # Empty
    <3>1. CASE d
      <4>1. x.ending = <<r, TRUE>>
        BY <2>1, <3>1
      <4> QED BY <3>1, <4>1 DEF Finished, ClaudeReason
    <3>2. CASE ~ d
      <4>1. x.ending = <<r, FALSE>>
        BY <2>1, <3>2
      <4> QED BY <3>2, <4>1 DEF Finished, ClaudeReason
    <3> QED BY <3>1, <3>2
  <2>5. CASE d
    <3>1. Claude(x) = "PROVIDER_REFUSED"
      BY <2>2, <2>5 DEF Claude
    <3> QED BY <2>2, <2>4, <2>5, <3>1 DEF NormalizedState, x
  <2>6. CASE ~ d
    <3>1. Claude(x) = IF r = "refusal" THEN "PROVIDER_REFUSED"
                      ELSE IF r = "end_turn" THEN WhenText(x) ELSE "PROVIDER_TRUNCATED"
      BY <2>2, <2>6 DEF Claude
    <3> QED BY <2>2, <2>4, <2>6, <3>1 DEF WhenText, NormalizedState, x
  <2> QED BY <2>5, <2>6
<1> QED BY <1>2, <1>3, <1>4

(* What was accepted stays accepted while requests and answers are added.  *)
LEMMA AcceptedStays ==
    ASSUME CallInv,
           \A k \in DOMAIN requests : k \in DOMAIN requests' /\ requests'[k] = requests[k],
           \A k \in DOMAIN answers : k \in DOMAIN answers' /\ answers'[k] = answers[k]
    PROVE  /\ \A k \in DOMAIN answers : AnswerOf(answers[k])'
           /\ \A i : IngestedSoundly(i) => IngestedSoundly(i)'
           /\ \A b : BoundSoundly(b) => BoundSoundly(b)'
<1>1. ASSUME NEW k \in DOMAIN answers
      PROVE  /\ answers'[k] = answers[k] /\ ProviderOf(answers[k])' = ProviderOf(answers[k])
             /\ Observed(answers[k])' = Observed(answers[k])
             /\ Parses(answers[k])' = Parses(answers[k])
  <2>1. AnswerOf(answers[k]) /\ answers'[k] = answers[k]
    BY DEF CallInv
  <2>2. requests'[answers[k].to] = requests[answers[k].to]
    BY <2>1 DEF AnswerOf
  <2> QED BY <2>1, <2>2 DEF ProviderOf, Observed, Parses, Gemini, Claude, WhenText
<1>2. \A k \in DOMAIN answers : AnswerOf(answers[k])'
  BY <1>1 DEF CallInv, AnswerOf
<1>3. ASSUME NEW i, IngestedSoundly(i) PROVE IngestedSoundly(i)'
  BY <1>1, <1>3 DEF IngestedSoundly, Served, ResultFor
<1>4. ASSUME NEW b, BoundSoundly(b) PROVE BoundSoundly(b)'
  BY <1>1, <1>4 DEF BoundSoundly, Served
<1> QED BY <1>2, <1>3, <1>4

LEMMA AskKeeps == ASSUME CallInv, NEW a \in Assignment, Ask(a) PROVE CallInv'
<1>1. /\ requests' = Append(requests, [for |-> a, created |-> now])
      /\ UNCHANGED <<now, answers, ingested, bound>>
  BY DEF Ask
<1>2. requests \in Seq(RequestRecord) /\ [for |-> a, created |-> now] \in RequestRecord
  BY DEF CallInv, RequestRecord
<1>3. /\ requests' \in Seq(RequestRecord)
      /\ \A k \in DOMAIN requests : k \in DOMAIN requests' /\ requests'[k] = requests[k]
  BY <1>1, <1>2
<1> QED BY <1>1, <1>3, AcceptedStays DEF CallInv

LEMMA AnswerKeeps == ASSUME CallInv, NEW k \in DOMAIN requests, Answer(k) PROVE CallInv'
<1>1. PICK e \in Ending[requests[k].for.provider], m \in Model, t \in Text :
        /\ t \in Result => t.for = requests[k].for
        /\ answers' = Append(answers, [to |-> k, ending |-> e, model |-> m, text |-> t, at |-> now])
  BY DEF Answer
<1>2. UNCHANGED <<now, requests, ingested, bound>>
  BY DEF Answer
<1>3. requests \in Seq(RequestRecord) /\ answers \in Seq(AnswerRecord) /\ now \in Time
  BY DEF CallInv
<1>4. requests[k] \in RequestRecord /\ k \in Nat
  BY <1>3
<1>5. requests[k].for.provider \in {"gemini", "claude"}
  BY <1>4, CallAssumption DEF RequestRecord
<1>6. PICK x : x = [to |-> k, ending |-> e, model |-> m, text |-> t, at |-> now]
  OBVIOUS
<1>7. x \in AnswerRecord
  BY <1>3, <1>4, <1>5, <1>6 DEF AnswerRecord
<1>8. AnswerOf(x)'
  BY <1>1, <1>2, <1>6, <1>7 DEF AnswerOf, ProviderOf, AnswerRecord, Time
<1>9. answers' = Append(answers, x)
  BY <1>1, <1>6
<1>10. /\ answers' \in Seq(AnswerRecord)
       /\ \A l \in DOMAIN answers : l \in DOMAIN answers' /\ answers'[l] = answers[l]
       /\ \A l \in DOMAIN answers' : l \in DOMAIN answers \/ answers'[l] = x
  BY <1>3, <1>7, <1>9
<1>11. /\ \A l \in DOMAIN answers : AnswerOf(answers[l])'
       /\ \A i : IngestedSoundly(i) => IngestedSoundly(i)'
       /\ \A b : BoundSoundly(b) => BoundSoundly(b)'
  BY <1>2, <1>10, AcceptedStays
<1>12. \A l \in DOMAIN answers' : AnswerOf(answers[l])'
  <2> SUFFICES ASSUME NEW l \in DOMAIN answers' PROVE AnswerOf(answers[l])'
    OBVIOUS
  <2>1. CASE l \in DOMAIN answers
    BY <1>11, <2>1
  <2>2. CASE answers'[l] = x
    BY <1>8, <2>2 DEF AnswerOf, ProviderOf
  <2> QED BY <1>10, <2>1, <2>2
<1> QED BY <1>2, <1>3, <1>10, <1>11, <1>12 DEF CallInv

LEMMA IngestKeeps ==
    ASSUME CallInv, NEW a \in Assignment, NEW k \in DOMAIN answers, Ingest(a, k) PROVE CallInv'
<1>1. /\ UNCHANGED <<now, requests, answers, bound>>
      /\ ingested' = ingested \cup {[answer |-> k, for |-> a, result |-> answers[k].text]}
  BY DEF Ingest
<1>2. IngestedSoundly([answer |-> k, for |-> a, result |-> answers[k].text])
  BY DEF Ingest, IngestedSoundly, CallInv
<1> QED BY <1>1, <1>2, AcceptedStays DEF CallInv

LEMMA BindKeeps ==
    ASSUME CallInv, NEW k \in DOMAIN answers, NEW q \in DOMAIN requests, Bind(k, q) PROVE CallInv'
<1>1. PICK r \in HandedOver(answers[k], requests[q].for), v \in BOOLEAN :
        /\ ReceiptFits(answers[k], q, r, v)
        /\ bound' = bound \cup {[answer |-> k, request |-> q, result |-> r, attested |-> v]}
  BY DEF Bind
<1>2. UNCHANGED <<now, requests, answers, ingested>> /\ Parses(answers[k])
  BY DEF Bind, Terminated
<1>3. r \in Result
  <2>1. requests[q] \in RequestRecord /\ now \in Time
    BY DEF CallInv
  <2> QED BY <1>1, <2>1 DEF HandedOver, Result, RequestRecord
<1>4. BoundSoundly([answer |-> k, request |-> q, result |-> r, attested |-> v])
  BY <1>1, <1>2, <1>3 DEF BoundSoundly, ReceiptFits
<1> QED BY <1>1, <1>2, <1>4, AcceptedStays DEF CallInv

LEMMA InitCallInv == Init => CallInv
  BY CallAssumption DEF Init, CallInv, Time

LEMMA NextCallInv == CallInv /\ [Next]_vars => CallInv'
<1> SUFFICES ASSUME CallInv, [Next]_vars PROVE CallInv'
  OBVIOUS
<1>1. CASE Tick \/ UNCHANGED vars
  <2>1. UNCHANGED <<requests, answers, ingested, bound>> /\ now' \in Time
    BY <1>1, CallAssumption DEF Tick, vars, CallInv, Time
  <2> QED BY <2>1, AcceptedStays DEF CallInv
<1> QED BY <1>1, AskKeeps, AnswerKeeps, IngestKeeps, BindKeeps DEF Next

(* CallInvariant, for all assignments, texts, endings and bounds: failures *)
(* never become research, an attested answer is of the asked model, and    *)
(* what is ingested was asked for.                                         *)
THEOREM CallInvariantHolds == Spec => []CallInvariant
<1>1. CallInv => CallInvariant
  <2> SUFFICES ASSUME CallInv PROVE CallInvariant
    OBVIOUS
  <2>1. CallTypeOK
    <3>1. \A k \in DOMAIN requests : requests[k] \in [for: Assignment, created: Time]
      <4>1. ASSUME NEW k \in DOMAIN requests PROVE requests[k] \in RequestRecord
        BY DEF CallInv
      <4> QED BY <4>1 DEF RequestRecord
    <3>2. \A k \in DOMAIN answers :
            /\ answers[k].to \in DOMAIN requests /\ answers[k].at \in Time
            /\ Parses(answers[k]) => Observed(answers[k]) \in NormalizedState
      BY StateOfAnswer DEF CallInv, AnswerOf, AnswerRecord
    <3>3. /\ ingested \subseteq [answer: DOMAIN answers, for: Assignment, result: Result]
          /\ bound \subseteq [answer: DOMAIN answers, request: DOMAIN requests, result: Result,
                             attested: BOOLEAN]
      BY DEF CallInv, IngestedSoundly, BoundSoundly
    <3> QED BY <3>1, <3>2, <3>3 DEF CallInv, CallTypeOK
  <2>2. \A i \in ingested : Finished(answers[i.answer])
    BY StateOfAnswer DEF CallInv, IngestedSoundly
  <2>3. \A b \in bound : (b.result.status = "COMPLETED") = Finished(answers[b.answer])
    <3> SUFFICES ASSUME NEW b \in bound
                 PROVE  (b.result.status = "COMPLETED") = Finished(answers[b.answer])
      OBVIOUS
    <3>1. BoundSoundly(b)
      BY DEF CallInv
    <3>2. /\ Observed(answers[b.answer]) \in NormalizedState
          /\ Observed(answers[b.answer]) = "COMPLETED" <=> Finished(answers[b.answer])
      BY <3>1, StateOfAnswer DEF BoundSoundly
    <3>3. b.result.status = "COMPLETED" <=> Observed(answers[b.answer]) = "COMPLETED"
      BY <3>1, <3>2 DEF BoundSoundly, StatusOf, NormalizedState
    <3> QED BY <3>2, <3>3 DEF Finished
  <2>4. AttestedServed
    BY DEF CallInv, AttestedServed, BoundSoundly, Served
  <2>5. IngestedWasAsked
    <3>1. ASSUME NEW i \in ingested
          PROVE  LET x == answers[i.answer]
                 IN  /\ requests[x.to].for = i.for /\ x.model = i.for.model /\ i.result.by = i.for
                     /\ i = [answer |-> i.answer, for |-> x.text.for, result |-> x.text]
      <4>1. IngestedSoundly(i)
        BY DEF CallInv
      <4>2. AnswerOf(answers[i.answer])
        BY <4>1 DEF CallInv, IngestedSoundly
      <4> QED BY <4>1, <4>2 DEF IngestedSoundly, AnswerOf, ResultFor, Served
    <3> QED BY <3>1 DEF IngestedWasAsked
  <2> QED BY <2>1, <2>2, <2>3, <2>4, <2>5 DEF CallInvariant, FailureNotResearch
<1> QED BY <1>1, InitCallInv, NextCallInv, PTL DEF Spec

-----------------------------------------------------------------------------
(* The launch of a call.                                                   *)

(* What is reckoned in whole units covers the exact cost.                  *)
LEMMA RoundedUp ==
    ASSUME NEW n \in Nat, NEW k \in Nat \ {0}
    PROVE  (n + k - 1) \div k \in Nat /\ n <= k * ((n + k - 1) \div k)
<1> DEFINE q == (n + k - 1) \div k  r == (n + k - 1) % k
<1>1. q \in Int /\ r \in 0..(k-1) /\ n + k - 1 = k * q + r
  BY SMTT(30)
<1>2. k * q \in Int
  BY <1>1
<1> HIDE DEF q, r
<1>3. n <= k * q
  BY <1>1, <1>2
<1>4. q >= 0
  BY <1>1, <1>3
<1> QED BY <1>1, <1>3, <1>4 DEF q

LEMMA TimesMonotone ==
    ASSUME NEW k \in Nat, NEW x \in Nat, NEW y \in Nat, x <= y
    PROVE  k * x <= k * y
  OBVIOUS

LEMMA CostCovers ==
    ASSUME NEW s \in Snapshot, NEW p \in Provider, NEW tokens \in Nat
    PROVE  Cost(s, p, tokens) \in Nat /\ tokens * s.price[p] <= Scale * Cost(s, p, tokens)
<1>1. s.price[p] \in Nat /\ Scale \in Nat \ {0}
  BY LaunchAssumption DEF Snapshot
<1>2. PICK n \in Nat : n = tokens * s.price[p]
  BY <1>1
<1> QED BY <1>1, <1>2, RoundedUp DEF Cost

(* Main's history and the observed prices are only added to, and the       *)
(* Control attests what stood at the time; so what made an evidence fit    *)
(* when it was accepted stays true.                                        *)
Evidence == [matrix: Matrix, plan: Plan, receipt: Receipt, attestation: Attestation]
Roundtrip == [matrix: Matrix, tokens: {Usage}]

LaunchSound(e) ==
    /\ e \in Evidence /\ e.attestation \in attested
    /\ \E s \in catalog : EvidenceFits(s, e)

RehearsalSound(x) ==
    /\ x \in [launch: launched, roundtrip: Roundtrip]
    /\ \E s \in catalog :
          /\ EvidenceFits(s, x.launch) /\ RoundtripFits(s, x.launch, x.roundtrip)
          /\ WithinPreflight(s, x.launch, x.roundtrip)

LaunchInv ==
    /\ clock \in LaunchTime /\ head \in [0..clock -> 0..MaxMain]
    /\ catalog \subseteq Snapshot /\ attested \subseteq Attestation
    /\ \A a \in attested : a.at \in 0..clock /\ head[a.at] = a.head
    /\ \A e \in launched : LaunchSound(e)
    /\ \A x \in rehearsed : RehearsalSound(x)

LEMMA InitLaunchInv == LaunchInit => LaunchInv
  BY LaunchAssumption DEF LaunchInit, LaunchInv, LaunchTime

LEMMA MainMovesKeeps ==
    ASSUME LaunchInv, ClockTicks \/ MoveMain PROVE LaunchInv'
<1>1. PICK h \in 0..MaxMain : head' = [t \in 0..(clock + 1) |-> IF t <= clock THEN head[t] ELSE h]
  <2>1. clock \in 0..clock /\ head[clock] \in 0..MaxMain
    BY DEF LaunchInv, LaunchTime
  <2>2. CASE ClockTicks
    BY <2>1, <2>2 DEF ClockTicks
  <2>3. CASE MoveMain
    <3>1. head[clock] + 1 \in 0..MaxMain
      BY <2>1, <2>3, LaunchAssumption DEF MoveMain
    <3> QED BY <2>3, <3>1 DEF MoveMain
  <2> QED BY <2>2, <2>3
<1>2. /\ clock < MaxClock /\ clock' = clock + 1
      /\ UNCHANGED <<catalog, attested, launched, rehearsed>>
  BY DEF ClockTicks, MoveMain
<1>3. clock' \in LaunchTime /\ head' \in [0..clock' -> 0..MaxMain]
  BY <1>1, <1>2, LaunchAssumption DEF LaunchInv, LaunchTime
<1>4. \A t \in 0..clock : t \in 0..clock' /\ head'[t] = head[t]
  BY <1>1, <1>2 DEF LaunchInv, LaunchTime
<1>5. \A a \in attested : a.at \in 0..clock' /\ head'[a.at] = a.head
  BY <1>4 DEF LaunchInv
<1> QED BY <1>2, <1>3, <1>5 DEF LaunchInv, LaunchSound, RehearsalSound

LEMMA ObserveKeeps == ASSUME LaunchInv, Observe PROVE LaunchInv'
<1>1. PICK price \in PriceList, through \in clock..MaxClock :
        catalog' = catalog \cup {[observed |-> clock, price |-> price, through |-> through]}
  BY DEF Observe
<1>2. UNCHANGED <<clock, head, attested, launched, rehearsed>>
  BY DEF Observe
<1>3. [observed |-> clock, price |-> price, through |-> through] \in Snapshot
  BY DEF LaunchInv, LaunchTime, Snapshot
<1>4. catalog' \subseteq Snapshot /\ catalog \subseteq catalog'
  BY <1>1, <1>3 DEF LaunchInv
<1> QED BY <1>2, <1>4 DEF LaunchInv, LaunchSound, RehearsalSound

LEMMA AttestKeeps == ASSUME LaunchInv, Attest PROVE LaunchInv'
<1>1. PICK a : a = [at |-> clock, head |-> head[clock]]
  OBVIOUS
<1>2. attested' = attested \cup {a} /\ UNCHANGED <<clock, head, catalog, launched, rehearsed>>
  BY <1>1 DEF Attest
<1>3. a \in Attestation /\ a.at \in 0..clock /\ head[a.at] = a.head
  BY <1>1 DEF LaunchInv, LaunchTime, Attestation
<1> QED BY <1>2, <1>3 DEF LaunchInv, LaunchSound, RehearsalSound

LEMMA LaunchKeeps == ASSUME LaunchInv, Launch PROVE LaunchInv'
<1>1. PICK s \in catalog, m \in Matrices, pl \in Plans, r \in Receipts, a \in attested :
        LET e == [matrix |-> m, plan |-> pl, receipt |-> r, attestation |-> a]
        IN  EvidenceFits(s, e) /\ launched' = launched \cup {e}
  BY DEF Launch
<1>2. UNCHANGED <<clock, head, catalog, attested, rehearsed>>
  BY DEF Launch
<1>3. PICK e : e = [matrix |-> m, plan |-> pl, receipt |-> r, attestation |-> a]
  OBVIOUS
<1>4. m \in Matrix /\ r \in Receipt /\ a \in Attestation
  BY DEF LaunchInv, Matrices, Matrix, Receipts, Receipt
<1>5. pl \in Plan
  <2>1. {head[t] : t \in 0..clock} \subseteq 0..MaxMain
    BY DEF LaunchInv
  <2> QED BY <2>1 DEF LaunchInv, Plans, Plan
<1>6. LaunchSound(e)
  BY <1>1, <1>3, <1>4, <1>5 DEF LaunchSound, Evidence
<1> QED BY <1>1, <1>2, <1>3, <1>6 DEF LaunchInv, LaunchSound, RehearsalSound

LEMMA RehearseKeeps == ASSUME LaunchInv, Rehearse PROVE LaunchInv'
<1>1. PICK e \in launched, s \in catalog, rt \in Roundtrips :
        /\ EvidenceFits(s, e) /\ RoundtripFits(s, e, rt) /\ WithinPreflight(s, e, rt)
        /\ rehearsed' = rehearsed \cup {[launch |-> e, roundtrip |-> rt]}
  BY DEF Rehearse
<1>2. UNCHANGED <<clock, head, catalog, attested, launched>>
  BY DEF Rehearse
<1>3. rt \in Roundtrip
  BY DEF LaunchInv, Roundtrips, Matrices, Matrix, Roundtrip
<1>4. RehearsalSound([launch |-> e, roundtrip |-> rt])
  BY <1>1, <1>3 DEF RehearsalSound
<1> QED BY <1>1, <1>2, <1>4 DEF LaunchInv, LaunchSound, RehearsalSound

LEMMA NextLaunchInv == LaunchInv /\ [LaunchNext]_launchVars => LaunchInv'
<1> SUFFICES ASSUME LaunchInv, [LaunchNext]_launchVars PROVE LaunchInv'
  OBVIOUS
<1>1. CASE UNCHANGED launchVars
  BY <1>1 DEF launchVars, LaunchInv, LaunchSound, RehearsalSound
<1> QED BY <1>1, MainMovesKeeps, ObserveKeeps, AttestKeeps, LaunchKeeps, RehearseKeeps DEF LaunchNext

(* What an accepted evidence says of its parts.                            *)
LEMMA LaunchIsOneGeneration ==
    ASSUME LaunchInv, NEW e \in Evidence, NEW s \in Snapshot, EvidenceFits(s, e)
    PROVE  /\ e.plan.snapshot = s /\ e.receipt.snapshot = s /\ e.matrix.snapshot = s
           /\ e.matrix.provider = e.plan.provider /\ e.plan.tokens = MaxTokens
           /\ e.plan.head = e.attestation.head /\ e.receipt.checked = e.attestation.at
           /\ s.observed <= e.receipt.checked /\ e.receipt.checked - s.observed <= Window
           /\ e.receipt.checked <= s.through
           /\ Cost(s, e.plan.provider, MaxTokens) <= MaxCost
  BY DEF EvidenceFits, MatrixFits, PlanFits, FreshnessFits, SameCatalog, SameTime, SameHead,
         Aligned, Candidate

(* What a launch shows follows from what was sound when it was accepted.   *)
LEMMA LaunchInvIsEnough == LaunchInv => LaunchInvariant
<1> SUFFICES ASSUME LaunchInv PROVE LaunchInvariant
  OBVIOUS
<1>0. /\ MaxTokens \in Nat /\ Usage \in Nat /\ Scale \in Nat /\ Window \in Nat
      /\ Ceiling \subseteq Nat
  BY LaunchAssumption
<1>1. LaunchTypeOK
  BY DEF LaunchInv, LaunchTypeOK, LaunchSound, RehearsalSound, Evidence, Roundtrip
<1>2. ASSUME NEW e \in launched
      PROVE  LET t == e.attestation.at  s == e.plan.snapshot
             IN  /\ t <= clock /\ head[t] = e.plan.head
                 /\ s \in catalog /\ s.observed <= t /\ t <= s.observed + Window /\ t <= s.through
  <2>1. PICK s \in catalog : EvidenceFits(s, e)
    BY DEF LaunchInv, LaunchSound
  <2>2. e \in Evidence /\ s \in Snapshot /\ e.attestation \in attested
    BY DEF LaunchInv, LaunchSound
  <2>3. e.attestation.at \in 0..clock /\ head[e.attestation.at] = e.attestation.head
    BY <2>2 DEF LaunchInv
  <2>4. s.observed \in Nat /\ e.attestation.at \in Nat
    BY <2>2, <2>3, LaunchAssumption DEF Snapshot, LaunchTime
  <2> QED BY <1>0, <2>1, <2>2, <2>3, <2>4, LaunchIsOneGeneration DEF LaunchInv, LaunchTime
<1>3. ASSUME NEW e \in launched
      PROVE  /\ MaxTokens * e.receipt.snapshot.price[e.matrix.provider]
                    <= Scale * Cost(e.plan.snapshot, e.plan.provider, e.plan.tokens)
             /\ Cost(e.plan.snapshot, e.plan.provider, e.plan.tokens) <= MaxCost
  <2>1. PICK s \in catalog : EvidenceFits(s, e)
    BY DEF LaunchInv, LaunchSound
  <2>2. e \in Evidence /\ s \in Snapshot /\ e.plan.provider \in Provider
    BY DEF LaunchInv, LaunchSound, Evidence, Plan
  <2>3. MaxTokens * s.price[e.plan.provider] <= Scale * Cost(s, e.plan.provider, MaxTokens)
    BY <1>0, <2>2, CostCovers
  <2> QED BY <2>1, <2>2, <2>3, LaunchIsOneGeneration
<1>4. ASSUME NEW x \in rehearsed
      PROVE  LET m == x.roundtrip.matrix  e == x.launch
             IN  /\ m.provider = e.plan.provider /\ m.snapshot = e.receipt.snapshot
                 /\ x.roundtrip.tokens * m.snapshot.price[m.provider]
                        <= Scale * Cost(e.plan.snapshot, e.plan.provider, e.plan.tokens)
  <2>1. PICK e, rt : e = x.launch /\ rt = x.roundtrip
    OBVIOUS
  <2>2. PICK s \in catalog : EvidenceFits(s, e) /\ RoundtripFits(s, e, rt) /\ WithinPreflight(s, e, rt)
    BY <2>1 DEF LaunchInv, RehearsalSound
  <2>3. e \in Evidence /\ rt \in Roundtrip /\ s \in Snapshot
    BY <2>1 DEF LaunchInv, RehearsalSound, LaunchSound
  <2>4. /\ e.plan.snapshot = s /\ e.receipt.snapshot = s /\ e.matrix.snapshot = s
        /\ e.matrix.provider = e.plan.provider /\ e.plan.tokens = MaxTokens
    BY <2>2, <2>3, LaunchIsOneGeneration
  <2>5. rt.matrix = e.matrix /\ Cost(s, e.plan.provider, rt.tokens) <= Cost(s, e.plan.provider, MaxTokens)
    BY <2>2, <2>4 DEF RoundtripFits, WithinPreflight
  <2>6. PICK p \in Provider : p = e.plan.provider
    BY <2>3 DEF Evidence, Plan
  <2>7. PICK n \in Nat : n = rt.tokens
    BY <1>0, <2>3 DEF Roundtrip
  <2>8. PICK c, d \in Nat : c = Cost(s, p, n) /\ d = Cost(s, p, MaxTokens)
    BY <1>0, <2>3, CostCovers
  <2>9. n * s.price[p] <= Scale * c
    BY <2>3, <2>8, CostCovers
  <2>10. Scale * c <= Scale * d
    BY <1>0, <2>5, <2>6, <2>7, <2>8, TimesMonotone
  <2>11. PICK z \in Nat : z = n * s.price[p]
    BY <2>3, LaunchAssumption DEF Snapshot
  <2>12. PICK v, w \in Nat : v = Scale * c /\ w = Scale * d
    BY <1>0
  <2>13. z <= w
    BY <2>9, <2>10, <2>11, <2>12
  <2>14. n * s.price[p] <= Scale * d
    BY <2>11, <2>12, <2>13
  <2> QED BY <2>1, <2>4, <2>5, <2>6, <2>7, <2>8, <2>14
<1> QED BY <1>1, <1>2, <1>3, <1>4 DEF LaunchInvariant, LaunchVouched, RequestCovered, RehearsalOfLaunch

(* LaunchInvariant, for all prices, ceilings, windows and bounds: an       *)
(* accepted launch is of one generation, and its request and its rehearsal *)
(* are covered by the cost it shows.                                       *)
THEOREM LaunchInvariantHolds == LaunchSpec => []LaunchInvariant
  BY LaunchInvIsEnough, InitLaunchInv, NextLaunchInv, PTL DEF LaunchSpec

-----------------------------------------------------------------------------
(* The results of a task.                                                  *)

LEMMA LeastNatural ==
    ASSUME NEW S \in SUBSET Nat, S # {} PROVE \E n \in S : \A m \in S : n <= m
<1>1. PICK n \in S : \A m \in S : <<m, n>> \notin OpToRel(<, Nat)
  BY WFMin, NatLessThanWellFounded
<1>2. \A m \in S : ~ (m < n)
  BY <1>1 DEF OpToRel
<1> QED BY <1>2

(* A list of results by planned targets, in whatever order.                *)
Arrivals(rs) == \A k \in DOMAIN rs : rs[k] \in BatchResult /\ ForAssignment(rs[k])

BatchInv == arrived \in Seq(BatchResult) /\ Len(arrived) <= MaxArrivals /\ Arrivals(arrived)

LEMMA ResultFields ==
    ASSUME NEW r \in BatchResult
    PROVE  /\ r.id \in Nat /\ r.by \in Target /\ r.status \in ResultStatus
           /\ r.position \in Positions(r.status)
  BY ResearchAssumption DEF BatchResult

(* The answer that stands for an identity is one of its answers, and the   *)
(* only one of them among those that stand.                                *)
LEMMA CanonicalOf ==
    ASSUME NEW rs, Arrivals(rs), NEW i \in Identities(rs)
    PROVE  /\ Canonical(rs, i) \in Of(rs, i)
           /\ \A l \in Of(rs, i) : rs[Canonical(rs, i)].id <= rs[l].id
<1> DEFINE ids == {rs[k].id : k \in Of(rs, i)}
<1>1. ids \in SUBSET Nat /\ ids # {}
  BY ResultFields DEF Arrivals, Of, Identities
<1>2. PICK n \in ids : \A m \in ids : n <= m
  BY <1>1, LeastNatural
<1>3. PICK k \in Of(rs, i) : rs[k].id = n
  BY <1>2
<1>4. \E c \in Of(rs, i) : \A l \in Of(rs, i) : rs[c].id <= rs[l].id
  BY <1>2, <1>3
<1> QED BY <1>4 DEF Canonical

LEMMA UniqueStand ==
    ASSUME NEW rs, Arrivals(rs)
    PROVE  /\ Unique(rs) \subseteq DOMAIN rs
           /\ \A u \in Unique(rs) : u = Canonical(rs, rs[u].by)
           /\ \A k \in DOMAIN rs : /\ Canonical(rs, rs[k].by) \in Unique(rs)
                                   /\ rs[Canonical(rs, rs[k].by)].by = rs[k].by
<1>1. \A i \in Identities(rs) : Canonical(rs, i) \in DOMAIN rs /\ rs[Canonical(rs, i)].by = i
  BY CanonicalOf DEF Of
<1> QED BY <1>1 DEF Unique, Identities

(* In a list the aggregate accepts, an answer says what the one that       *)
(* stands for it says.                                                     *)
LEMMA StandsForAll ==
    ASSUME NEW rs, Arrivals(rs), Aggregable(rs), NEW k \in DOMAIN rs
    PROVE  LET u == Canonical(rs, rs[k].by)
           IN  /\ u \in Unique(rs) /\ rs[u].by = rs[k].by
               /\ rs[u].status = rs[k].status /\ rs[u].position = rs[k].position
<1>1. PICK u : u = Canonical(rs, rs[k].by)
  OBVIOUS
<1>2. u \in Unique(rs) /\ u \in DOMAIN rs /\ rs[u].by = rs[k].by
  BY <1>1, UniqueStand
<1>3. Content(rs[u]) = Content(rs[k])
  BY <1>2 DEF Aggregable, OneContent, Of, Identities
<1> QED BY <1>1, <1>2, <1>3 DEF Content

LEMMA InitBatchInv == BatchInit => BatchInv
  BY ResearchAssumption DEF BatchInit, BatchInv, Arrivals

LEMMA ArriveAdds ==
    ASSUME BatchInv, Arrive
    PROVE  /\ BatchInv'
           /\ \A k \in DOMAIN arrived : k \in DOMAIN arrived' /\ arrived'[k] = arrived[k]
<1>1. PICK r \in BatchResult : ForAssignment(r) /\ arrived' = Append(arrived, r)
  BY DEF Arrive
<1>2. arrived \in Seq(BatchResult) /\ Len(arrived) < MaxArrivals
  BY DEF BatchInv, Arrive
<1>3. arrived' \in Seq(BatchResult) /\ Len(arrived') <= MaxArrivals
  BY <1>1, <1>2, ResearchAssumption
<1>4. \A k \in DOMAIN arrived : k \in DOMAIN arrived' /\ arrived'[k] = arrived[k]
  BY <1>1, <1>2
<1>5. \A k \in DOMAIN arrived' : k \in DOMAIN arrived \/ arrived'[k] = r
  BY <1>1, <1>2
<1> QED BY <1>1, <1>3, <1>4, <1>5 DEF BatchInv, Arrivals

LEMMA NextBatchInv == BatchInv /\ [BatchNext]_arrived => BatchInv'
  BY ArriveAdds DEF BatchNext, BatchInv

(* A list refused for a conflict, a list longer than it is refused too.    *)
LEMMA ConflictInLonger ==
    ASSUME NEW rs, NEW ss, rs # <<>>, ~ Aggregable(rs),
           \A k \in DOMAIN rs : k \in DOMAIN ss /\ ss[k] = rs[k]
    PROVE  ~ Aggregable(ss)
<1>1. CASE ~ Fresh(rs)
  BY <1>1 DEF Fresh, Aggregable
<1>2. CASE \E i \in Identities(rs) : ~ OneContent(rs, i)
  <2>0. PICK i \in Identities(rs) : ~ OneContent(rs, i)
    BY <1>2
  <2>1. PICK k, l \in Of(rs, i) : Content(rs[k]) # Content(rs[l])
    BY <2>0 DEF OneContent
  <2>2. i \in Identities(ss) /\ k \in Of(ss, i) /\ l \in Of(ss, i) /\ Content(ss[k]) # Content(ss[l])
    BY <2>1 DEF Of, Identities
  <2> QED BY <2>2 DEF Aggregable, OneContent
<1> QED BY <1>1, <1>2 DEF Aggregable

(* In a list and a longer one, both accepted, a claim is held by at least  *)
(* the same sides.                                                         *)
LEMMA HeldInLonger ==
    ASSUME NEW rs, NEW ss, Arrivals(rs), Arrivals(ss), Aggregable(ss),
           \A k \in DOMAIN rs : k \in DOMAIN ss /\ ss[k] = rs[k],
           NEW c, NEW p, Holding(rs, c, p) # {}
    PROVE  Holding(ss, c, p) # {}
<1>1. PICK k \in Unique(rs) : /\ rs[k].status = "COMPLETED" /\ c \in DOMAIN rs[k].position
                              /\ rs[k].position[c] = p
  BY DEF Holding
<1>2. k \in DOMAIN ss /\ ss[k] = rs[k]
  BY <1>1, UniqueStand
<1>3. PICK u \in Unique(ss) : ss[u].status = ss[k].status /\ ss[u].position = ss[k].position
  BY <1>2, StandsForAll
<1>4. u \in Holding(ss, c, p)
  BY <1>1, <1>2, <1>3 DEF Holding
<1> QED BY <1>4

LEMMA DivergentMeans ==
    ASSUME NEW rs, NEW c
    PROVE  Label(rs, c) = "DIVERGENT" <=>
               Holding(rs, c, "SUPPORT") # {} /\ Holding(rs, c, "OPPOSE") # {}
  BY DEF Label

(* ReportsStand, for all targets, claims and bounds.                       *)
THEOREM ReportsStandHolds == BatchSpec => ReportsStand
<1>1. ASSUME BatchInv, Arrive, Aggregable(arrived) /\ Aggregable(arrived')
      PROVE  Aggregate(arrived).unresolved \subseteq Aggregate(arrived').unresolved
  <2>1. BatchInv' /\ \A k \in DOMAIN arrived : k \in DOMAIN arrived' /\ arrived'[k] = arrived[k]
    BY <1>1, ArriveAdds
  <2>2. Arrivals(arrived) /\ Arrivals(arrived')
    BY <1>1, <2>1 DEF BatchInv
  <2>3. ASSUME NEW c \in Raised(arrived), Label(arrived, c) = "DIVERGENT"
        PROVE  c \in Raised(arrived') /\ Label(arrived', c) = "DIVERGENT"
    <3>1. Holding(arrived', c, "SUPPORT") # {} /\ Holding(arrived', c, "OPPOSE") # {}
      BY <1>1, <2>1, <2>2, <2>3, DivergentMeans, HeldInLonger
    <3> QED BY <3>1, DivergentMeans DEF Raised, Position
  <2>4. \A rs : Aggregate(rs).unresolved = {c \in Raised(rs) : Label(rs, c) = "DIVERGENT"}
    BY DEF Aggregate
  <2> QED BY <2>3, <2>4
<1>2. ASSUME BatchInv, Arrive, arrived # <<>> /\ ~ Aggregable(arrived)
      PROVE  ~ Aggregable(arrived')
  BY <1>2, ArriveAdds, ConflictInLonger
<1>3. BatchInv /\ [BatchNext]_arrived =>
        /\ [Aggregable(arrived) /\ Aggregable(arrived') =>
               Aggregate(arrived).unresolved \subseteq Aggregate(arrived').unresolved]_arrived
        /\ [arrived # <<>> /\ ~ Aggregable(arrived) => ~ Aggregable(arrived')]_arrived
  BY <1>1, <1>2 DEF BatchNext
<1> QED BY <1>3, InitBatchInv, NextBatchInv, PTL DEF BatchSpec, ReportsStand, DivergenceKept, ConflictStays

-----------------------------------------------------------------------------
(* What the views say of a list they accept.                               *)

LEMMA ImageCounted ==
    ASSUME NEW f, IsFiniteSet(DOMAIN f)
    PROVE  /\ IsFiniteSet({f[x] : x \in DOMAIN f})
           /\ (\A x, y \in DOMAIN f : f[x] = f[y] => x = y) =>
                  Cardinality({f[x] : x \in DOMAIN f}) = Cardinality(DOMAIN f)
<1> DEFINE T == {f[x] : x \in DOMAIN f}  g == [x \in DOMAIN f |-> f[x]]
<1>1. g \in Surjection(DOMAIN f, T)
  BY DEF Surjection
<1>2. (\A x, y \in DOMAIN f : f[x] = f[y] => x = y) => g \in Injection(DOMAIN f, T)
  BY DEF Injection, IsInjective
<1> HIDE DEF T, g
<1>3. IsFiniteSet(T) /\ (g \in Injection(DOMAIN f, T) => Cardinality(T) = Cardinality(DOMAIN f))
  BY <1>1, FS_Surjection
<1> QED BY <1>2, <1>3 DEF T

LEMMA MoreThanOne ==
    ASSUME NEW S, IsFiniteSet(S)
    PROVE  Cardinality(S) > 1 <=> \E x, y \in S : x # y
<1>1. Cardinality(S) \in Nat
  BY FS_CardinalityType
<1>2. CASE S = {}
  BY <1>2, FS_EmptySet
<1>3. ASSUME NEW x \in S PROVE Cardinality(S) > 1 <=> \E y \in S : x # y
  <2>1. /\ IsFiniteSet(S \ {x}) /\ Cardinality(S \ {x}) = Cardinality(S) - 1
    BY FS_RemoveElement
  <2>2. Cardinality(S \ {x}) = 0 <=> S \ {x} = {}
    BY <2>1, FS_EmptySet
  <2> QED BY <1>1, <2>1, <2>2, FS_CardinalityType
<1> QED BY <1>2, <1>3

LEMMA ApartMeans ==
    ASSUME NEW A, NEW B, IsFiniteSet(A), IsFiniteSet(B)
    PROVE  Apart(A, B) <=> \E x \in A, y \in B : x # y
<1>1. IsFiniteSet(A \cup B)
  BY FS_Union
<1>2. Cardinality(A \cup B) > 1 <=> \E x, y \in A \cup B : x # y
  BY <1>1, MoreThanOne
<1> QED BY <1>2 DEF Apart

LEMMA HoldersFinite ==
    ASSUME NEW rs, Arrivals(rs), IsFiniteSet(DOMAIN rs), NEW c, NEW p
    PROVE  /\ IsFiniteSet(Holding(rs, c, p)) /\ Holding(rs, c, p) \subseteq DOMAIN rs
           /\ IsFiniteSet({ModelOf(rs[k].by) : k \in Holding(rs, c, p)})
           /\ IsFiniteSet({rs[k].by.provider : k \in Holding(rs, c, p)})
<1>1. Holding(rs, c, p) \subseteq DOMAIN rs
  BY UniqueStand DEF Holding
<1>2. PICK H : H = Holding(rs, c, p)
  OBVIOUS
<1>3. IsFiniteSet(H)
  BY <1>1, <1>2, FS_Subset
<1>4. IsFiniteSet({ModelOf(rs[k].by) : k \in H})
  <2> DEFINE f == [k \in H |-> ModelOf(rs[k].by)]
  <2>1. IsFiniteSet({f[k] : k \in DOMAIN f})
    <3> HIDE DEF f
    <3>1. DOMAIN f = H
      BY DEF f
    <3> QED BY <1>3, <3>1, ImageCounted
  <2> QED BY <2>1
<1>5. IsFiniteSet({rs[k].by.provider : k \in H})
  <2> DEFINE f == [k \in H |-> rs[k].by.provider]
  <2>1. IsFiniteSet({f[k] : k \in DOMAIN f})
    <3> HIDE DEF f
    <3>1. DOMAIN f = H
      BY DEF f
    <3> QED BY <1>3, <3>1, ImageCounted
  <2> QED BY <2>1
<1> QED BY <1>1, <1>2, <1>3, <1>4, <1>5

LEMMA DivergenceOfList ==
    ASSUME NEW rs, Arrivals(rs), IsFiniteSet(DOMAIN rs), NEW c
    PROVE  LET d == Diversity(rs, c)
           IN  /\ Label(rs, c) = "DIVERGENT" <=> d.within_model \/ d.cross_model
               /\ d.cross_provider => d.cross_model
               /\ d.cross_provider <=>
                      \E k \in Holding(rs, c, "SUPPORT"), l \in Holding(rs, c, "OPPOSE") :
                          rs[k].by.provider # rs[l].by.provider
<1> DEFINE models(p) == {ModelOf(rs[k].by) : k \in Holding(rs, c, p)}
           providers(p) == {rs[k].by.provider : k \in Holding(rs, c, p)}
<1>1. /\ Diversity(rs, c).within_model <=> models("SUPPORT") \cap models("OPPOSE") # {}
      /\ Diversity(rs, c).cross_model <=> Apart(models("SUPPORT"), models("OPPOSE"))
      /\ Diversity(rs, c).cross_provider <=> Apart(providers("SUPPORT"), providers("OPPOSE"))
  BY DEF Diversity
<1>2. /\ IsFiniteSet(models("SUPPORT")) /\ IsFiniteSet(models("OPPOSE"))
      /\ IsFiniteSet(providers("SUPPORT")) /\ IsFiniteSet(providers("OPPOSE"))
  BY HoldersFinite
<1>3. \A i, j : i.provider # j.provider => ModelOf(i) # ModelOf(j)
  BY DEF ModelOf
<1>4. Apart(models("SUPPORT"), models("OPPOSE")) <=>
          \E k \in Holding(rs, c, "SUPPORT"), l \in Holding(rs, c, "OPPOSE") :
              ModelOf(rs[k].by) # ModelOf(rs[l].by)
  <2>1. Apart(models("SUPPORT"), models("OPPOSE")) <=>
            \E x \in models("SUPPORT"), y \in models("OPPOSE") : x # y
    <3> HIDE DEF models
    <3> QED BY <1>2, ApartMeans
  <2> QED BY <2>1
<1>5. Apart(providers("SUPPORT"), providers("OPPOSE")) <=>
          \E k \in Holding(rs, c, "SUPPORT"), l \in Holding(rs, c, "OPPOSE") :
              rs[k].by.provider # rs[l].by.provider
  <2>1. Apart(providers("SUPPORT"), providers("OPPOSE")) <=>
            \E x \in providers("SUPPORT"), y \in providers("OPPOSE") : x # y
    <3> HIDE DEF providers
    <3> QED BY <1>2, ApartMeans
  <2> QED BY <2>1
<1>6. models("SUPPORT") \cap models("OPPOSE") # {} <=>
          \E k \in Holding(rs, c, "SUPPORT"), l \in Holding(rs, c, "OPPOSE") :
              ModelOf(rs[k].by) = ModelOf(rs[l].by)
  OBVIOUS
<1> HIDE DEF models, providers
<1> QED BY <1>1, <1>3, <1>4, <1>5, <1>6, DivergentMeans

(* Every identity that has a completed answer speaks, with its own one     *)
(* voice.                                                                  *)
Speakers(rs) == {i \in Identities(rs) : \A k \in Of(rs, i) : rs[k].status = "COMPLETED"}

LEMMA OneVoiceEach ==
    ASSUME NEW rs, Arrivals(rs), IsFiniteSet(DOMAIN rs), Aggregable(rs), NEW c, NEW p
    PROVE  Cardinality(Holding(rs, c, p)) =
               Cardinality({i \in Speakers(rs) : \E k \in Of(rs, i) :
                               c \in DOMAIN rs[k].position /\ rs[k].position[c] = p})
<1> DEFINE H == Holding(rs, c, p)  f == [k \in H |-> rs[k].by]
           voices == {i \in Speakers(rs) : \E k \in Of(rs, i) :
                         c \in DOMAIN rs[k].position /\ rs[k].position[c] = p}
<1>1. ASSUME NEW k \in H PROVE rs[k].by \in voices
  <2>1. /\ k \in Unique(rs) /\ k \in DOMAIN rs /\ rs[k].status = "COMPLETED"
        /\ c \in DOMAIN rs[k].position /\ rs[k].position[c] = p
    BY <1>1, UniqueStand DEF Holding
  <2>2. ASSUME NEW l \in Of(rs, rs[k].by) PROVE rs[l].status = "COMPLETED"
    <3>1. l \in DOMAIN rs /\ rs[l].by = rs[k].by
      BY DEF Of
    <3>2. k = Canonical(rs, rs[l].by)
      BY <2>1, <3>1, UniqueStand
    <3> QED BY <2>1, <3>1, <3>2, StandsForAll
  <2> QED BY <2>1, <2>2 DEF Speakers, Identities, Of
<1>2. ASSUME NEW i \in voices PROVE \E k \in H : rs[k].by = i
  <2>1. PICK l \in Of(rs, i) : c \in DOMAIN rs[l].position /\ rs[l].position[c] = p
    BY <1>2
  <2>2. l \in DOMAIN rs /\ rs[l].by = i /\ rs[l].status = "COMPLETED"
    BY <1>2, <2>1 DEF Of, Speakers
  <2>3. PICK u \in Unique(rs) : /\ rs[u].by = rs[l].by /\ rs[u].status = rs[l].status
                                 /\ rs[u].position = rs[l].position
    BY <2>2, StandsForAll
  <2> QED BY <2>1, <2>2, <2>3 DEF Holding
<1>3. IsFiniteSet(H) /\ \A k, l \in H : rs[k].by = rs[l].by => k = l
  <2>1. IsFiniteSet(H)
    BY HoldersFinite
  <2>2. \A k \in H : k = Canonical(rs, rs[k].by)
    BY UniqueStand DEF Holding
  <2> QED BY <2>1, <2>2, Zenon
<1>4. voices = {f[k] : k \in DOMAIN f}
  BY <1>1, <1>2
<1>5. DOMAIN f = H /\ \A k, l \in DOMAIN f : f[k] = f[l] => k = l
  BY <1>3
<1> HIDE DEF f, H, voices
<1>6. Cardinality({f[k] : k \in DOMAIN f}) = Cardinality(DOMAIN f)
  BY <1>3, <1>5, ImageCounted
<1> QED BY <1>4, <1>5, <1>6 DEF H, voices

LEMMA CompletedSpeak ==
    ASSUME NEW rs, Arrivals(rs), Aggregable(rs)
    PROVE  {rs[k].by : k \in Speaking(rs)} = Speakers(rs)
<1>1. ASSUME NEW k \in Speaking(rs) PROVE rs[k].by \in Speakers(rs)
  <2>1. k \in Unique(rs) /\ k \in DOMAIN rs /\ rs[k].status = "COMPLETED"
    BY UniqueStand DEF Speaking, Holding
  <2>2. ASSUME NEW l \in Of(rs, rs[k].by) PROVE rs[l].status = "COMPLETED"
    <3>1. l \in DOMAIN rs /\ rs[l].by = rs[k].by
      BY DEF Of
    <3>2. k = Canonical(rs, rs[l].by)
      BY <2>1, <3>1, UniqueStand
    <3> QED BY <2>1, <3>1, <3>2, StandsForAll
  <2> QED BY <2>1, <2>2 DEF Speakers, Identities
<1>2. ASSUME NEW i \in Speakers(rs) PROVE \E k \in Speaking(rs) : rs[k].by = i
  <2>1. PICK l \in DOMAIN rs : rs[l].by = i /\ rs[l].status = "COMPLETED"
    BY DEF Speakers, Identities, Of
  <2>2. PICK u \in Unique(rs) : /\ rs[u].by = i /\ rs[u].status = "COMPLETED"
    BY <2>1, StandsForAll
  <2>3. rs[u].position \in Positions("COMPLETED")
    BY <2>2, UniqueStand, ResultFields DEF Arrivals
  <2>4. PICK C \in (SUBSET Claim) \ {{}} : rs[u].position \in [C -> Position]
    BY <2>3 DEF Positions
  <2>5. PICK c \in C : c \in Claim
    BY <2>4
  <2>6. PICK p \in Position : c \in DOMAIN rs[u].position /\ rs[u].position[c] = p
    BY <2>4, <2>5
  <2>7. u \in Holding(rs, c, p)
    BY <2>2, <2>6 DEF Holding
  <2>8. c \in Raised(rs)
    BY <2>5, <2>6, <2>7 DEF Raised
  <2>9. u \in Speaking(rs)
    BY <2>2, <2>6, <2>7, <2>8 DEF Speaking
  <2> QED BY <2>2, <2>9
<1> QED BY <1>1, <1>2

(* Every answer counts once: for its identity, or as a repetition.         *)
LEMMA EveryAnswerCounts ==
    ASSUME NEW rs, Arrivals(rs), IsFiniteSet(DOMAIN rs), Fresh(rs)
    PROVE  Cardinality(DOMAIN rs) =
               Cardinality({rs[k].by : k \in Unique(rs)}) + Cardinality(Acknowledged(rs))
<1> DEFINE U == Unique(rs)  D == DOMAIN rs \ U
           f == [k \in U |-> rs[k].by]
           g == [k \in D |-> [submission |-> rs[k].id, duplicate_of |-> rs[Canonical(rs, rs[k].by)].id]]
<1>1. U \subseteq DOMAIN rs /\ \A k, l \in U : rs[k].by = rs[l].by => k = l
  BY UniqueStand
<1>2. DOMAIN f = U /\ \A k, l \in DOMAIN f : f[k] = f[l] => k = l
  BY <1>1
<1>3. DOMAIN g = D /\ \A k, l \in DOMAIN g : g[k] = g[l] => k = l
  BY DEF Fresh
<1>4. {f[k] : k \in DOMAIN f} = {rs[k].by : k \in U} /\ {g[k] : k \in DOMAIN g} = Acknowledged(rs)
  BY DEF Acknowledged
<1>5. IsFiniteSet(U) /\ IsFiniteSet(D) /\ Cardinality(D) = Cardinality(DOMAIN rs) - Cardinality(U)
  <2>1. IsFiniteSet(U) /\ DOMAIN rs \cap U = U
    BY <1>1, FS_Subset
  <2> QED BY <2>1, FS_Difference
<1> HIDE DEF U, D, f, g
<1>6. Cardinality({f[k] : k \in DOMAIN f}) = Cardinality(U)
  BY <1>2, <1>5, ImageCounted
<1>7. Cardinality({g[k] : k \in DOMAIN g}) = Cardinality(D)
  BY <1>3, <1>5, ImageCounted
<1>8. Cardinality(U) \in Nat /\ Cardinality(DOMAIN rs) \in Nat
  BY <1>5, FS_CardinalityType
<1>9. /\ Cardinality({rs[k].by : k \in U}) = Cardinality(U)
      /\ Cardinality(Acknowledged(rs)) = Cardinality(D)
  BY <1>4, <1>6, <1>7
<1>10. Cardinality(DOMAIN rs) = Cardinality(U) + Cardinality(D)
  BY <1>5, <1>8
<1> QED BY <1>9, <1>10 DEF U

(* In a batch that is complete, every assignment has one answer, and every *)
(* answer is a completed one.                                              *)
LEMMA CompleteBatch ==
    ASSUME NEW rs, Arrivals(rs), Summarizable(rs), Summary(rs).all_completed
    PROVE  /\ {rs[k].by : k \in DOMAIN rs} = Planned
           /\ \A k \in DOMAIN rs : rs[k].status = "COMPLETED"
           /\ \A k, l \in DOMAIN rs : rs[k].by = rs[l].by => k = l
<1>1. \A k \in DOMAIN rs : rs[k].by = rs[k].assignment /\ rs[k].by \in Planned
  BY DEF Arrivals, ForAssignment
<1>2. Cardinality(Completed(rs)) = Cardinality(Planned) /\ Completed(rs) \in SUBSET Planned
  BY <1>1 DEF Summary, SummaryOf, Completed
<1>3. Completed(rs) = Planned
  BY <1>2, FS_Subset, ResearchAssumption
<1>4. \A k, l \in DOMAIN rs : rs[k].by = rs[l].by => k = l
  BY <1>1 DEF Summarizable
<1>5. \A k \in DOMAIN rs : \E l \in DOMAIN rs : rs[l].by = rs[k].by /\ rs[l].status = "COMPLETED"
  BY <1>1, <1>3 DEF Completed
<1> QED BY <1>1, <1>3, <1>4, <1>5 DEF Completed

LEMMA CompleteBatchIsCovered ==
    ASSUME NEW rs, Arrivals(rs), IsFiniteSet(DOMAIN rs), Summarizable(rs), Summary(rs).all_completed, rs # <<>>
    PROVE  /\ Aggregable(rs) /\ Unique(rs) = DOMAIN rs
           /\ Speakers(rs) = Planned
           /\ RolesWithout(rs, {"COMPLETED"}) = Requested \ {t.role : t \in Planned}
<1>1. /\ {rs[k].by : k \in DOMAIN rs} = Planned
      /\ \A k \in DOMAIN rs : rs[k].status = "COMPLETED"
      /\ \A k, l \in DOMAIN rs : rs[k].by = rs[l].by => k = l
  BY CompleteBatch
<1>2. Aggregable(rs)
  BY <1>1 DEF Aggregable, Summarizable, OneContent, Of
<1>3. Unique(rs) = DOMAIN rs
  <2>1. ASSUME NEW k \in DOMAIN rs PROVE k \in Unique(rs)
    <3>1. Canonical(rs, rs[k].by) \in Unique(rs) /\ rs[Canonical(rs, rs[k].by)].by = rs[k].by
      BY UniqueStand
    <3>2. Canonical(rs, rs[k].by) \in DOMAIN rs
      BY <3>1, UniqueStand
    <3> QED BY <1>1, <3>1, <3>2
  <2> QED BY <2>1, UniqueStand
<1>4. Speakers(rs) = Planned
  BY <1>1 DEF Speakers, Identities, Of
<1>5. RolesWithout(rs, {"COMPLETED"}) = Requested \ {t.role : t \in Planned}
  BY <1>1, <1>3 DEF RolesWithout
<1> QED BY <1>2, <1>3, <1>4, <1>5

-----------------------------------------------------------------------------
(* The order of arrival.  A list rs is another one, ss, reordered by f.    *)

Reorders(f, rs, ss) ==
    /\ DOMAIN rs = DOMAIN ss /\ f \in [DOMAIN ss -> DOMAIN ss]
    /\ \A k, l \in DOMAIN ss : f[k] = f[l] => k = l
    /\ \A l \in DOMAIN ss : \E k \in DOMAIN ss : f[k] = l
    /\ \A k \in DOMAIN ss : rs[k] = ss[f[k]]

LEMMA ReorderedSame ==
    ASSUME NEW rs, NEW ss, NEW f, Reorders(f, rs, ss), Arrivals(ss)
    PROVE  /\ Arrivals(rs) /\ Identities(rs) = Identities(ss)
           /\ Fresh(rs) <=> Fresh(ss)
           /\ \A i : OneContent(rs, i) <=> OneContent(ss, i)
           /\ \A i : \A k \in DOMAIN ss : k \in Of(rs, i) <=> f[k] \in Of(ss, i)
<1>1. Arrivals(rs)
  BY DEF Reorders, Arrivals
<1>2. \A i : \A k \in DOMAIN ss : k \in Of(rs, i) <=> f[k] \in Of(ss, i)
  BY DEF Reorders, Of
<1>3. Identities(rs) = Identities(ss)
  BY DEF Reorders, Identities
<1>4. Fresh(rs) <=> Fresh(ss)
  BY DEF Reorders, Fresh
<1>5. ASSUME NEW i PROVE OneContent(rs, i) <=> OneContent(ss, i)
  <2>1. CASE OneContent(rs, i)
    <3>1. ASSUME NEW k \in Of(ss, i), NEW l \in Of(ss, i) PROVE Content(ss[k]) = Content(ss[l])
      <4>1. PICK a \in DOMAIN ss, b \in DOMAIN ss : f[a] = k /\ f[b] = l
        BY DEF Reorders, Of
      <4>2. Content(rs[a]) = Content(rs[b])
        BY <1>2, <2>1, <4>1 DEF OneContent
      <4> QED BY <4>1, <4>2 DEF Reorders
    <3> QED BY <2>1, <3>1 DEF OneContent
  <2>2. CASE OneContent(ss, i)
    <3>1. ASSUME NEW k \in Of(rs, i), NEW l \in Of(rs, i) PROVE Content(rs[k]) = Content(rs[l])
      <4>1. k \in DOMAIN ss /\ l \in DOMAIN ss
        BY DEF Reorders, Of
      <4>2. Content(ss[f[k]]) = Content(ss[f[l]])
        BY <1>2, <2>2, <4>1 DEF OneContent
      <4> QED BY <4>1, <4>2 DEF Reorders
    <3> QED BY <2>2, <3>1 DEF OneContent
  <2> QED BY <2>1, <2>2 DEF OneContent
<1> QED BY <1>1, <1>2, <1>3, <1>4, <1>5

(* The same answers stand for the identities.                              *)
LEMMA ReorderedStand ==
    ASSUME NEW rs, NEW ss, NEW f, Reorders(f, rs, ss), Arrivals(ss), Fresh(ss)
    PROVE  /\ \A i \in Identities(ss) : f[Canonical(rs, i)] = Canonical(ss, i)
           /\ \A k \in DOMAIN ss : k \in Unique(rs) <=> f[k] \in Unique(ss)
<1>1. /\ Arrivals(rs) /\ Identities(rs) = Identities(ss)
      /\ \A i : \A k \in DOMAIN ss : k \in Of(rs, i) <=> f[k] \in Of(ss, i)
  BY ReorderedSame
<1>2. ASSUME NEW i \in Identities(ss) PROVE f[Canonical(rs, i)] = Canonical(ss, i)
  <2>1. PICK c, u : c = Canonical(rs, i) /\ u = Canonical(ss, i)
    OBVIOUS
  <2>2. c \in Of(rs, i) /\ \A l \in Of(rs, i) : rs[c].id <= rs[l].id
    BY <1>1, <2>1, CanonicalOf
  <2>3. u \in Of(ss, i) /\ \A l \in Of(ss, i) : ss[u].id <= ss[l].id
    BY <2>1, CanonicalOf
  <2>4. c \in DOMAIN ss /\ f[c] \in Of(ss, i) /\ f[c] \in DOMAIN ss /\ rs[c] = ss[f[c]]
    BY <1>1, <2>2 DEF Reorders, Of
  <2>5. PICK k \in DOMAIN ss : f[k] = u /\ rs[k] = ss[u]
    BY <2>3 DEF Reorders, Of
  <2>6. ss[f[c]].id <= ss[u].id /\ ss[u].id <= ss[f[c]].id
    BY <1>1, <2>2, <2>3, <2>4, <2>5
  <2>7. ss[u].id \in Nat /\ ss[f[c]].id \in Nat /\ u \in DOMAIN ss
    BY <2>3, <2>4, ResultFields DEF Arrivals, Of
  <2>8. ss[f[c]].id = ss[u].id
    BY <2>6, <2>7
  <2> QED BY <2>1, <2>4, <2>7, <2>8 DEF Fresh
<1>3. ASSUME NEW k \in DOMAIN ss PROVE k \in Unique(rs) <=> f[k] \in Unique(ss)
  <2>1. PICK i : i = rs[k].by /\ i = ss[f[k]].by /\ f[k] \in DOMAIN ss
    BY DEF Reorders
  <2>2. i \in Identities(ss) /\ f[Canonical(rs, i)] = Canonical(ss, i)
    BY <1>2, <2>1 DEF Identities
  <2>3. Canonical(rs, i) \in DOMAIN ss
    BY <1>1, <2>2, CanonicalOf DEF Of, Reorders
  <2>4. k \in Unique(rs) <=> k = Canonical(rs, i)
    BY <1>1, <2>1, <2>2, UniqueStand DEF Unique
  <2>5. f[k] \in Unique(ss) <=> f[k] = Canonical(ss, i)
    BY <2>1, <2>2, UniqueStand DEF Unique
  <2> QED BY <2>2, <2>3, <2>4, <2>5 DEF Reorders
<1> QED BY <1>2, <1>3

LEMMA ReorderedHold ==
    ASSUME NEW rs, NEW ss, NEW f, Reorders(f, rs, ss), Arrivals(ss), IsFiniteSet(DOMAIN ss), Fresh(ss),
           NEW c, NEW p
    PROVE  /\ \A k \in DOMAIN ss : k \in Holding(rs, c, p) <=> f[k] \in Holding(ss, c, p)
           /\ Holding(rs, c, p) \subseteq DOMAIN ss /\ Holding(ss, c, p) \subseteq DOMAIN ss
           /\ Cardinality(Holding(rs, c, p)) = Cardinality(Holding(ss, c, p))
<1>1. Arrivals(rs) /\ DOMAIN rs = DOMAIN ss
  BY ReorderedSame DEF Reorders
<1>2. \A k \in DOMAIN ss : k \in Unique(rs) <=> f[k] \in Unique(ss)
  BY ReorderedStand
<1>3. \A k \in DOMAIN ss : k \in Holding(rs, c, p) <=> f[k] \in Holding(ss, c, p)
  BY <1>2 DEF Reorders, Holding
<1>4. /\ Holding(rs, c, p) \subseteq DOMAIN ss /\ Holding(ss, c, p) \subseteq DOMAIN ss
      /\ IsFiniteSet(Holding(rs, c, p))
  BY <1>1, HoldersFinite
<1>5. PICK H, K : H = Holding(rs, c, p) /\ K = Holding(ss, c, p)
  OBVIOUS
<1> DEFINE g == [k \in H |-> f[k]]
<1>6. K = {g[k] : k \in DOMAIN g}
  BY <1>3, <1>4, <1>5 DEF Reorders
<1>7. DOMAIN g = H /\ \A k, l \in DOMAIN g : g[k] = g[l] => k = l
  BY <1>4, <1>5 DEF Reorders
<1> HIDE DEF g
<1>8. Cardinality({g[k] : k \in DOMAIN g}) = Cardinality(DOMAIN g)
  BY <1>4, <1>5, <1>7, ImageCounted
<1> QED BY <1>3, <1>4, <1>5, <1>6, <1>7, <1>8

(* So the claims are the same.                                             *)
LEMMA ReorderedClaims ==
    ASSUME NEW rs, NEW ss, NEW f, Reorders(f, rs, ss), Arrivals(ss), IsFiniteSet(DOMAIN ss), Fresh(ss)
    PROVE  /\ Raised(rs) = Raised(ss)
           /\ \A c : Label(rs, c) = Label(ss, c) /\ ClaimEntry(rs, c) = ClaimEntry(ss, c)
<1>1. ASSUME NEW c, NEW p PROVE Holding(rs, c, p) # {} <=> Holding(ss, c, p) # {}
  <2>1. /\ \A k \in DOMAIN ss : k \in Holding(rs, c, p) <=> f[k] \in Holding(ss, c, p)
        /\ Holding(rs, c, p) \subseteq DOMAIN ss /\ Holding(ss, c, p) \subseteq DOMAIN ss
    BY ReorderedHold
  <2> QED BY <2>1 DEF Reorders
<1>2. Raised(rs) = Raised(ss)
  BY <1>1 DEF Raised
<1>3. \A c : Label(rs, c) = Label(ss, c)
  BY <1>1 DEF Label
<1>4. ASSUME NEW c, NEW p
      PROVE  /\ {ModelOf(rs[k].by) : k \in Holding(rs, c, p)} = {ModelOf(ss[k].by) : k \in Holding(ss, c, p)}
             /\ {rs[k].by.provider : k \in Holding(rs, c, p)} = {ss[k].by.provider : k \in Holding(ss, c, p)}
             /\ Entries(rs, Holding(rs, c, p)) = Entries(ss, Holding(ss, c, p))
  <2>1. /\ \A k \in DOMAIN ss : k \in Holding(rs, c, p) <=> f[k] \in Holding(ss, c, p)
        /\ Holding(rs, c, p) \subseteq DOMAIN ss /\ Holding(ss, c, p) \subseteq DOMAIN ss
    BY ReorderedHold
  <2>2. PICK H, K : H = Holding(rs, c, p) /\ K = Holding(ss, c, p)
    OBVIOUS
  <2>3. /\ \A k \in H : f[k] \in K /\ rs[k] = ss[f[k]]
        /\ \A l \in K : \E k \in H : rs[k] = ss[l]
    BY <2>1, <2>2 DEF Reorders
  <2>4. {ModelOf(rs[k].by) : k \in H} = {ModelOf(ss[k].by) : k \in K}
    BY <2>3
  <2>5. {rs[k].by.provider : k \in H} = {ss[k].by.provider : k \in K}
    BY <2>3
  <2>6. Entries(rs, H) = Entries(ss, K)
    BY <2>3 DEF Entries
  <2> QED BY <2>2, <2>4, <2>5, <2>6
<1>5. \A c, p : Cardinality(Holding(rs, c, p)) = Cardinality(Holding(ss, c, p))
  BY ReorderedHold
<1>6. \A c : Diversity(rs, c) = Diversity(ss, c)
  BY <1>4 DEF Diversity
<1>7. ASSUME NEW c PROVE ClaimEntry(rs, c) = ClaimEntry(ss, c)
  <2>1. [p \in Position |-> Cardinality(Holding(rs, c, p))] = [p \in Position |-> Cardinality(Holding(ss, c, p))]
    BY <1>5
  <2>2. [p \in Position |-> Entries(rs, Holding(rs, c, p))] = [p \in Position |-> Entries(ss, Holding(ss, c, p))]
    BY <1>4
  <2> QED BY <1>3, <1>6, <2>1, <2>2 DEF ClaimEntry
<1> QED BY <1>2, <1>3, <1>7

LEMMA ReorderedAggregate ==
    ASSUME NEW rs, NEW ss, NEW f, Reorders(f, rs, ss), Arrivals(ss), IsFiniteSet(DOMAIN ss), Fresh(ss),
           Len(rs) = Len(ss)
    PROVE  Aggregate(rs) = Aggregate(ss)
<1>1. Raised(rs) = Raised(ss) /\ \A c : Label(rs, c) = Label(ss, c) /\ ClaimEntry(rs, c) = ClaimEntry(ss, c)
  BY ReorderedClaims
<1>2. Arrivals(rs) /\ DOMAIN rs = DOMAIN ss
  BY ReorderedSame DEF Reorders
<1>3. PICK U, V : U = Unique(rs) /\ V = Unique(ss)
  OBVIOUS
<1>4. /\ U \subseteq DOMAIN ss /\ V \subseteq DOMAIN ss
      /\ \A k \in DOMAIN ss : k \in U <=> f[k] \in V
  BY <1>2, <1>3, UniqueStand, ReorderedStand
<1>5. /\ \A k \in U : f[k] \in V /\ rs[k] = ss[f[k]]
      /\ \A l \in V : \E k \in U : rs[k] = ss[l] /\ f[k] = l
  BY <1>4 DEF Reorders
<1>6. {rs[k].by : k \in U} = {ss[k].by : k \in V}
  BY <1>5
<1>7. Noncompleted(rs) = Noncompleted(ss)
  BY <1>3, <1>5 DEF Noncompleted
<1>8. \A S : RolesWithout(rs, S) = RolesWithout(ss, S)
  BY <1>3, <1>5 DEF RolesWithout
<1>9. {rs[k].by : k \in Speaking(rs)} = {ss[k].by : k \in Speaking(ss)}
  <2>1. ASSUME NEW k \in DOMAIN ss PROVE k \in Speaking(rs) <=> f[k] \in Speaking(ss)
    <3>1. \A c, p : k \in Holding(rs, c, p) <=> f[k] \in Holding(ss, c, p)
      BY ReorderedHold
    <3> QED BY <1>1, <1>3, <1>4, <3>1 DEF Speaking
  <2>2. Speaking(rs) \subseteq DOMAIN ss /\ Speaking(ss) \subseteq DOMAIN ss
    BY <1>3, <1>4 DEF Speaking
  <2>3. /\ \A k \in Speaking(rs) : f[k] \in Speaking(ss) /\ rs[k] = ss[f[k]]
        /\ \A l \in Speaking(ss) : \E k \in Speaking(rs) : rs[k] = ss[l]
    BY <2>1, <2>2 DEF Reorders
  <2> QED BY <2>3
<1>10. Acknowledged(rs) = Acknowledged(ss)
  <2> DEFINE repeat(rr, k) == [submission |-> rr[k].id, duplicate_of |-> rr[Canonical(rr, rr[k].by)].id]
  <2>1. ASSUME NEW k \in DOMAIN ss PROVE repeat(rs, k) = repeat(ss, f[k])
    <3>1. PICK i : i = rs[k].by /\ rs[k] = ss[f[k]] /\ f[k] \in DOMAIN ss
      BY DEF Reorders
    <3>2. i \in Identities(ss) /\ i \in Identities(rs)
      BY <1>2, <3>1 DEF Identities
    <3>3. Canonical(rs, i) \in DOMAIN ss /\ f[Canonical(rs, i)] = Canonical(ss, i)
      BY <1>2, <3>2, CanonicalOf, ReorderedStand DEF Of
    <3>4. rs[Canonical(rs, i)] = ss[Canonical(ss, i)]
      BY <3>3 DEF Reorders
    <3> QED BY <3>1, <3>4
  <2>2. PICK R, S : R = DOMAIN ss \ U /\ S = DOMAIN ss \ V
    OBVIOUS
  <2>3. /\ \A k \in R : f[k] \in S /\ k \in DOMAIN ss
        /\ \A l \in S : \E k \in R : f[k] = l
    BY <1>4, <2>2 DEF Reorders
  <2>4. Acknowledged(rs) = {repeat(rs, k) : k \in R} /\ Acknowledged(ss) = {repeat(ss, k) : k \in S}
    BY <1>2, <1>3, <2>2 DEF Acknowledged
  <2> HIDE DEF repeat
  <2>5. {repeat(rs, k) : k \in R} = {repeat(ss, k) : k \in S}
    BY <2>1, <2>3
  <2> QED BY <2>4, <2>5
<1> QED BY <1>1, <1>3, <1>6, <1>7, <1>8, <1>9, <1>10 DEF Aggregate

LEMMA ReorderedSummary ==
    ASSUME NEW rs, NEW ss, NEW f, Reorders(f, rs, ss), Arrivals(ss)
    PROVE  (Summarizable(rs) <=> Summarizable(ss)) /\ Summary(rs) = Summary(ss)
<1>1. Fresh(rs) <=> Fresh(ss)
  BY ReorderedSame
<1>2. Summarizable(rs) <=> Summarizable(ss)
  BY <1>1 DEF Summarizable, Reorders
<1>3. /\ {rs[k].assignment : k \in DOMAIN rs} = {ss[k].assignment : k \in DOMAIN ss}
      /\ Completed(rs) = Completed(ss)
  BY DEF Reorders, Completed
<1> QED BY <1>2, <1>3 DEF Summary, SummaryOf

LEMMA EntriesName ==
    ASSUME NEW rs, NEW H
    PROVE  /\ \A k \in H : \E s \in Entries(rs, H) : s.by = rs[k].by
           /\ \A s \in Entries(rs, H) : \E k \in H : s.by = rs[k].by
<1>1. ASSUME NEW k \in H PROVE \E s \in Entries(rs, H) : s.by = rs[k].by
  <2>1. [id |-> rs[k].id, by |-> rs[k].by, at |-> rs[k].at] \in Entries(rs, H)
    BY DEF Entries
  <2> QED BY <2>1
<1>2. ASSUME NEW s \in Entries(rs, H) PROVE \E k \in H : s.by = rs[k].by
  BY DEF Entries
<1> QED BY <1>1, <1>2

(* BatchInvariant, for all targets, claims and bounds: a statement about   *)
(* every list of answers by planned targets.                               *)
THEOREM BatchInvariantHolds == BatchSpec => []BatchInvariant
<1>1. BatchInv => BatchInvariant
  <2> SUFFICES ASSUME BatchInv PROVE BatchInvariant
    OBVIOUS
  <2>1. /\ Arrivals(arrived) /\ arrived \in Seq(BatchResult)
        /\ DOMAIN arrived = 1..Len(arrived) /\ Len(arrived) \in Nat
    BY DEF BatchInv
  <2>2. IsFiniteSet(DOMAIN arrived) /\ Cardinality(DOMAIN arrived) = Len(arrived)
    BY <2>1, FS_Interval
  <2>3. BatchTypeOK
    BY DEF BatchInv, BatchTypeOK, Arrivals, ForAssignment
  <2>4. ASSUME NEW rs \in Reordered
        PROVE  /\ Aggregable(rs) <=> Aggregable(arrived)
               /\ Aggregable(arrived) => Aggregate(rs) = Aggregate(arrived)
               /\ Summarizable(rs) <=> Summarizable(arrived)
               /\ Summary(rs) = Summary(arrived)
    <3>1. PICK f \in [DOMAIN arrived -> DOMAIN arrived] :
            /\ \A k, l \in DOMAIN arrived : f[k] = f[l] => k = l
            /\ rs = [k \in DOMAIN arrived |-> arrived[f[k]]]
      BY DEF Reordered
    <3>2. f \in Surjection(DOMAIN arrived, DOMAIN arrived)
      <4>1. f \in Injection(DOMAIN arrived, DOMAIN arrived)
        BY <3>1 DEF Injection, IsInjective
      <4> QED BY <2>2, <4>1, FS_Injection
    <3>3. Reorders(f, rs, arrived)
      BY <3>1, <3>2 DEF Reorders, Surjection
    <3>4. Len(rs) = Len(arrived) /\ (rs = <<>> <=> arrived = <<>>)
      <4>1. rs \in [1..Len(arrived) -> BatchResult]
        BY <2>1, <3>1
      <4>2. rs \in Seq(BatchResult)
        BY <2>1, <4>1
      <4>3. Len(rs) = Len(arrived)
        BY <2>1, <4>1, <4>2
      <4> QED BY <2>1, <4>2, <4>3
    <3>5. Aggregable(rs) <=> Aggregable(arrived)
      BY <2>1, <3>3, <3>4, ReorderedSame DEF Aggregable
    <3>6. Aggregable(arrived) => Aggregate(rs) = Aggregate(arrived)
      BY <2>1, <2>2, <3>3, <3>4, ReorderedAggregate DEF Aggregable
    <3> QED BY <2>1, <3>3, <3>5, <3>6, ReorderedSummary
  <2>5. OrderFree
    BY <2>4 DEF OrderFree, Aggregable, Summarizable, Fresh, OneContent
  <2>6. OneVoice
    <3> SUFFICES ASSUME Aggregable(arrived) PROVE OneVoice
      BY DEF OneVoice
    <3>1. ASSUME NEW c \in Raised(arrived), NEW p \in Position
          PROVE  Aggregate(arrived).claims[c].counts[p] = Cardinality(Holding(arrived, c, p))
      BY DEF Aggregate, ClaimEntry
    <3>2. DOMAIN Aggregate(arrived).claims = Raised(arrived)
      BY DEF Aggregate
    <3>3. Aggregate(arrived).completed.identities = Cardinality(Speakers(arrived))
      BY <2>1, CompletedSpeak DEF Aggregate, Diversities
    <3>4. /\ Aggregate(arrived).submissions = Cardinality(DOMAIN arrived)
          /\ Aggregate(arrived).observed.identities = Cardinality({arrived[k].by : k \in Unique(arrived)})
          /\ Aggregate(arrived).acknowledged = Acknowledged(arrived)
      BY <2>2 DEF Aggregate, Diversities
    <3>5. Fresh(arrived)
      BY DEF Aggregable
    <3>6. Aggregate(arrived).submissions
              = Aggregate(arrived).observed.identities + Cardinality(Aggregate(arrived).acknowledged)
      BY <2>1, <2>2, <3>4, <3>5, EveryAnswerCounts
    <3>7. ASSUME NEW c \in DOMAIN Aggregate(arrived).claims, NEW p \in Position
          PROVE  Aggregate(arrived).claims[c].counts[p] =
                    Cardinality({i \in Speakers(arrived) : \E k \in Of(arrived, i) :
                        c \in DOMAIN arrived[k].position /\ arrived[k].position[c] = p})
      BY <2>1, <2>2, <3>1, <3>2, OneVoiceEach
    <3> QED BY <3>3, <3>6, <3>7 DEF OneVoice, Speakers
  <2>7. DivergenceExplained
    <3> SUFFICES ASSUME Aggregable(arrived), NEW c \in Raised(arrived)
                 PROVE  LET e == Aggregate(arrived).claims[c]
                            d == e.diversity
                        IN  /\ (e.label = "DIVERGENT") = (d.within_model \/ d.cross_model)
                            /\ d.cross_provider => d.cross_model
                            /\ d.cross_provider = \E s \in e.holders["SUPPORT"], o \in e.holders["OPPOSE"] :
                                                      s.by.provider # o.by.provider
      BY DEF DivergenceExplained, Aggregate
    <3>1. PICK e : e = ClaimEntry(arrived, c) /\ e = Aggregate(arrived).claims[c]
      BY DEF Aggregate
    <3>2. /\ e.label = Label(arrived, c) /\ e.diversity = Diversity(arrived, c)
          /\ e.holders["SUPPORT"] = Entries(arrived, Holding(arrived, c, "SUPPORT"))
          /\ e.holders["OPPOSE"] = Entries(arrived, Holding(arrived, c, "OPPOSE"))
      BY <3>1 DEF ClaimEntry, Position
    <3>3. (\E s \in e.holders["SUPPORT"], o \in e.holders["OPPOSE"] : s.by.provider # o.by.provider)
             <=> \E k \in Holding(arrived, c, "SUPPORT"), l \in Holding(arrived, c, "OPPOSE") :
                    arrived[k].by.provider # arrived[l].by.provider
      <4>1. PICK H, K : H = Holding(arrived, c, "SUPPORT") /\ K = Holding(arrived, c, "OPPOSE")
        OBVIOUS
      <4>2. PICK X, Y : X = Entries(arrived, H) /\ Y = Entries(arrived, K)
        OBVIOUS
      <4>3. e.holders["SUPPORT"] = X /\ e.holders["OPPOSE"] = Y
        BY <3>2, <4>1, <4>2
      <4>4. /\ \A k \in H : \E s \in X : s.by = arrived[k].by
            /\ \A s \in X : \E k \in H : s.by = arrived[k].by
        BY <4>2, EntriesName
      <4>5. /\ \A k \in K : \E s \in Y : s.by = arrived[k].by
            /\ \A s \in Y : \E k \in K : s.by = arrived[k].by
        BY <4>2, EntriesName
      <4>6. (\E s \in X, o \in Y : s.by.provider # o.by.provider)
               <=> \E k \in H, l \in K : arrived[k].by.provider # arrived[l].by.provider
        <5>1. ASSUME NEW s \in X, NEW o \in Y, s.by.provider # o.by.provider
              PROVE  \E k \in H, l \in K : arrived[k].by.provider # arrived[l].by.provider
          BY <4>4, <4>5, <5>1
        <5>2. ASSUME NEW k \in H, NEW l \in K, arrived[k].by.provider # arrived[l].by.provider
              PROVE  \E s \in X, o \in Y : s.by.provider # o.by.provider
          BY <4>4, <4>5, <5>2
        <5> QED BY <5>1, <5>2
      <4> QED BY <4>1, <4>3, <4>6
    <3>4. PICK d : d = Diversity(arrived, c)
      OBVIOUS
    <3>5. d.within_model \in BOOLEAN /\ d.cross_model \in BOOLEAN /\ d.cross_provider \in BOOLEAN
      BY <3>4 DEF Diversity, Apart
    <3>6. /\ Label(arrived, c) = "DIVERGENT" <=> d.within_model \/ d.cross_model
          /\ d.cross_provider => d.cross_model
          /\ d.cross_provider <=>
                 \E k \in Holding(arrived, c, "SUPPORT"), l \in Holding(arrived, c, "OPPOSE") :
                     arrived[k].by.provider # arrived[l].by.provider
      BY <2>1, <2>2, <3>4, DivergenceOfList
    <3> QED BY <3>1, <3>2, <3>3, <3>4, <3>5, <3>6
  <2>8. CompleteBatchCovers
    <3> SUFFICES ASSUME Summarizable(arrived), Summary(arrived).all_completed, arrived # <<>>
                 PROVE  /\ Aggregable(arrived)
                        /\ LET a == Aggregate(arrived)
                           IN  /\ a.acknowledged = {} /\ a.noncompleted = {}
                               /\ a.completed.identities = Cardinality(Planned)
                               /\ a.roles_without_completed = Requested \ {t.role : t \in Planned}
      BY DEF CompleteBatchCovers
    <3>1. /\ Aggregable(arrived) /\ Unique(arrived) = DOMAIN arrived /\ Speakers(arrived) = Planned
          /\ RolesWithout(arrived, {"COMPLETED"}) = Requested \ {t.role : t \in Planned}
          /\ \A k \in DOMAIN arrived : arrived[k].status = "COMPLETED"
      BY <2>1, <2>2, CompleteBatchIsCovered, CompleteBatch
    <3>2. Acknowledged(arrived) = {} /\ Noncompleted(arrived) = {}
      BY <3>1 DEF Acknowledged, Noncompleted
    <3>3. {arrived[k].by : k \in Speaking(arrived)} = Planned
      BY <2>1, <3>1, CompletedSpeak
    <3> QED BY <3>1, <3>2, <3>3 DEF Aggregate, Diversities
  <2> QED BY <2>3, <2>5, <2>6, <2>7, <2>8 DEF BatchInvariant
<1> QED BY <1>1, InitBatchInv, NextBatchInv, PTL DEF BatchSpec

-----------------------------------------------------------------------------
(* The records of Phase B.                                                 *)
(*                                                                         *)
(* The inductive invariant keeps, of each confirmed record, the generation *)
(* it was handed with, and that it is what is built of that generation.    *)

(* How far a cost in whole units is from the exact one.                    *)
LEMMA CostBounds ==
    ASSUME NEW s \in Snapshot, NEW p \in Provider, NEW tokens \in Nat
    PROVE  /\ Cost(s, p, tokens) \in Nat /\ tokens * s.price[p] \in Nat
           /\ tokens * s.price[p] <= Scale * Cost(s, p, tokens)
           /\ Scale * Cost(s, p, tokens) < tokens * s.price[p] + Scale
<1>1. s.price[p] \in Nat /\ Scale \in Nat \ {0}
  BY LaunchAssumption DEF Snapshot
<1>2. PICK n \in Nat : n = tokens * s.price[p]
  BY <1>1
<1> DEFINE q == (n + Scale - 1) \div Scale  r == (n + Scale - 1) % Scale
<1>3. q \in Int /\ r \in 0..(Scale - 1) /\ n + Scale - 1 = Scale * q + r
  BY <1>1, SMTT(30)
<1>4. Scale * q \in Int
  BY <1>1, <1>3
<1>5. Cost(s, p, tokens) = q
  BY <1>2 DEF Cost
<1> HIDE DEF q, r
<1>6. Scale * q < n + Scale
  BY <1>1, <1>3, <1>4
<1> QED BY <1>2, <1>5, <1>6, CostCovers

LEMMA CostMonotone ==
    ASSUME NEW s \in Snapshot, NEW p \in Provider, NEW few \in Nat, NEW many \in Nat, few <= many
    PROVE  Cost(s, p, few) <= Cost(s, p, many)
<1>1. s.price[p] \in Nat /\ Scale \in Nat \ {0}
  BY LaunchAssumption DEF Snapshot
<1>0. PICK price \in Nat : price = s.price[p]
  BY <1>1
<1>2. PICK m, n \in Nat : m = few * price /\ n = many * price
  OBVIOUS
<1>3. m <= n
  <2>1. price * few <= price * many
    BY TimesMonotone
  <2> QED BY <1>2, <2>1
<1>4. PICK c, d \in Nat : c = Cost(s, p, few) /\ d = Cost(s, p, many)
  BY CostBounds
<1>5. PICK v, w \in Nat : v = Scale * c /\ w = Scale * d
  BY <1>1
<1>6. v < m + Scale /\ n <= w
  BY <1>0, <1>2, <1>4, <1>5, CostBounds
<1>7. ASSUME d < c PROVE FALSE
  <2>1. Scale * (d + 1) <= v
    BY <1>1, <1>5, <1>7, TimesMonotone
  <2>2. Scale * (d + 1) = w + Scale
    BY <1>1, <1>5
  <2> QED BY <1>1, <1>3, <1>6, <2>1, <2>2
<1> QED BY <1>4, <1>7

SmokeCost(s, p) == Cost(s, p, MaxTokens)

(* There is a provider whose cost is lowest, and the first by name of      *)
(* those, if all of them are eligible.                                     *)
LEMMA SelectedIsCheapest ==
    ASSUME NEW s \in Snapshot, NEW v, \A o \in Provider : o \in v.wire,
           NEW q, q = Selected(Comparison(s, v))
    PROVE  /\ q \in Provider /\ Comparison(s, v)[q].cost = SmokeCost(s, q)
           /\ \A o \in Provider : SmokeCost(s, q) <= SmokeCost(s, o)
<1>0. MaxTokens \in Nat /\ Pinned \in Provider /\ Rank \in [Provider -> Nat]
  BY LaunchAssumption, PhaseAssumption
<1>1. \A o \in Provider : SmokeCost(s, o) \in Nat
  BY <1>0, CostBounds DEF SmokeCost
<1>2. PICK n \in {SmokeCost(s, o) : o \in Provider} : \A m \in {SmokeCost(s, o) : o \in Provider} : n <= m
  <2>1. {SmokeCost(s, o) : o \in Provider} \in SUBSET Nat /\ {SmokeCost(s, o) : o \in Provider} # {}
    BY <1>0, <1>1
  <2> QED BY <2>1, LeastNatural
<1>3. PICK C : C = {o \in Provider : SmokeCost(s, o) = n}
  OBVIOUS
<1>4. PICK k \in {Rank[o] : o \in C} : \A m \in {Rank[o] : o \in C} : k <= m
  <2>1. {Rank[o] : o \in C} \in SUBSET Nat /\ {Rank[o] : o \in C} # {}
    BY <1>0, <1>2, <1>3
  <2> QED BY <2>1, LeastNatural
<1>5. PICK p \in C : Rank[p] = k
  BY <1>4
<1>6. /\ p \in Provider
      /\ \A o \in Provider : \/ SmokeCost(s, p) < SmokeCost(s, o)
                             \/ SmokeCost(s, p) = SmokeCost(s, o) /\ Rank[p] <= Rank[o]
  <2>0. p \in Provider /\ p \in C
    BY <1>3, <1>5
  <2>1. ASSUME NEW o \in Provider, o \notin C PROVE SmokeCost(s, p) < SmokeCost(s, o)
    BY <1>1, <1>2, <1>3, <1>5, <2>1
  <2>2. ASSUME NEW o \in C PROVE SmokeCost(s, p) = SmokeCost(s, o) /\ Rank[p] <= Rank[o]
    BY <1>3, <1>4, <1>5
  <2> QED BY <2>0, <2>1, <2>2
<1>7. PICK rows : rows = Comparison(s, v)
  OBVIOUS
<1>8. \A o \in Provider : rows[o].eligible /\ rows[o].cost = SmokeCost(s, o)
  BY <1>7 DEF Comparison, SmokeCost
<1>9. {o \in Provider : rows[o].eligible} = Provider
  BY <1>8
<1>10. \E r \in Provider : \A o \in Provider :
          \/ rows[r].cost < rows[o].cost
          \/ rows[r].cost = rows[o].cost /\ Rank[r] <= Rank[o]
  BY <1>6, <1>8
<1>11. /\ q \in Provider
       /\ \A o \in Provider : \/ rows[q].cost < rows[o].cost
                              \/ rows[q].cost = rows[o].cost /\ Rank[q] <= Rank[o]
  BY <1>7, <1>9, <1>10, Zenon DEF Selected
<1> QED BY <1>1, <1>7, <1>8, <1>11

-----------------------------------------------------------------------------
(* Two synthetic answers: Google's is complete, Anthropic's may refuse.   *)

Pair(s, first, status, second) ==
    <<Synthetic(2, s, Google, "COMPLETED", first), Synthetic(1, s, Anthropic, status, second)>>

LEMMA TwoAims ==
    ASSUME NEW s \in Snapshot
    PROVE  Aim(s, Google).provider # Aim(s, Anthropic).provider
  BY PhaseAssumption DEF Snapshot, Aim

LEMMA PairHeard ==
    ASSUME NEW s \in Snapshot, NEW first \in Position, NEW second \in Position,
           NEW status \in {"COMPLETED", "REFUSED"}
    PROVE  LET rs == Pair(s, first, status, second)
           IN  /\ Aggregable(rs) /\ Summarizable(rs) /\ Unique(rs) = {1, 2} /\ DOMAIN rs = {1, 2}
               /\ \A p : /\ Holding(rs, Topic, p) \subseteq {1, 2}
                         /\ 1 \in Holding(rs, Topic, p) <=> p = first
                         /\ 2 \in Holding(rs, Topic, p) <=> status = "COMPLETED" /\ p = second
               /\ Raised(rs) = {Topic}
               /\ Speaking(rs) = IF status = "COMPLETED" THEN {1, 2} ELSE {1}
<1>1. PICK rs : rs = Pair(s, first, status, second)
  OBVIOUS
<1>2. /\ DOMAIN rs = {1, 2} /\ rs # <<>>
      /\ rs[1] = Synthetic(2, s, Google, "COMPLETED", first)
      /\ rs[2] = Synthetic(1, s, Anthropic, status, second)
  BY <1>1 DEF Pair
<1>3. /\ rs[1].id = 2 /\ rs[2].id = 1
      /\ rs[1].by = Aim(s, Google) /\ rs[2].by = Aim(s, Anthropic)
      /\ rs[1].assignment = Aim(s, Google) /\ rs[2].assignment = Aim(s, Anthropic)
      /\ rs[1].status = "COMPLETED" /\ rs[2].status = status
  BY <1>2 DEF Synthetic
<1>4. rs[1].position = [c \in {Topic} |-> first]
  BY <1>2 DEF Synthetic
<1>5. status = "COMPLETED" => rs[2].position = [c \in {Topic} |-> second]
  BY <1>2 DEF Synthetic
<1>6. rs[1].by # rs[2].by
  BY <1>3, TwoAims
<1>7. Of(rs, rs[1].by) = {1} /\ Of(rs, rs[2].by) = {2} /\ Identities(rs) = {rs[1].by, rs[2].by}
  BY <1>2, <1>6 DEF Of, Identities
<1>8. Canonical(rs, rs[1].by) = 1 /\ Canonical(rs, rs[2].by) = 2
  BY <1>3, <1>7 DEF Canonical
<1>9. Unique(rs) = {1, 2}
  BY <1>7, <1>8 DEF Unique
<1>10. Aggregable(rs) /\ Summarizable(rs)
  BY <1>2, <1>3, <1>6, <1>7 DEF Aggregable, Summarizable, Fresh, OneContent
<1>a. DOMAIN rs[1].position = {Topic} /\ rs[1].position[Topic] = first
  BY <1>4
<1>b. status = "COMPLETED" => DOMAIN rs[2].position = {Topic} /\ rs[2].position[Topic] = second
  BY <1>5
<1>c. ASSUME NEW c, NEW p
      PROVE  /\ Holding(rs, c, p) \subseteq {1, 2}
             /\ 1 \in Holding(rs, c, p) <=> c = Topic /\ p = first
             /\ 2 \in Holding(rs, c, p) <=> c = Topic /\ status = "COMPLETED" /\ p = second
  <2>1. \A k : k \in Holding(rs, c, p) <=>
            /\ k \in {1, 2} /\ rs[k].status = "COMPLETED" /\ c \in DOMAIN rs[k].position
            /\ rs[k].position[c] = p
    BY <1>9 DEF Holding
  <2>2. 1 \in Holding(rs, c, p) <=> c = Topic /\ p = first
    BY <1>3, <1>a, <2>1
  <2>3. 2 \in Holding(rs, c, p) <=> c = Topic /\ status = "COMPLETED" /\ p = second
    BY <1>3, <1>b, <2>1
  <2> QED BY <2>1, <2>2, <2>3
<1>11. \A p : /\ Holding(rs, Topic, p) \subseteq {1, 2}
              /\ 1 \in Holding(rs, Topic, p) <=> p = first
              /\ 2 \in Holding(rs, Topic, p) <=> status = "COMPLETED" /\ p = second
  BY <1>c
<1>12. \A c, p : c # Topic => Holding(rs, c, p) = {}
  BY <1>c
<1>13. 1 \in Holding(rs, Topic, first)
  BY <1>c
<1>14. Raised(rs) = {Topic}
  BY <1>12, <1>13, PhaseAssumption DEF Raised
<1>15. Speaking(rs) = {k \in {1, 2} : \E p \in Position : k \in Holding(rs, Topic, p)}
  BY <1>9, <1>14 DEF Speaking
<1>16. Speaking(rs) = IF status = "COMPLETED" THEN {1, 2} ELSE {1}
  BY <1>c, <1>15
<1> QED BY <1>1, <1>2, <1>9, <1>10, <1>11, <1>14, <1>16

(* Both aims are planned; what the batch of two answers comes to.          *)
LEMMA CountTwo ==
    ASSUME NEW a, NEW b, a # b
    PROVE  Cardinality({a, b}) = 2 /\ IsFiniteSet({a, b}) /\ Cardinality({a}) = 1 /\ IsFiniteSet({a})
<1>1. IsFiniteSet({a}) /\ Cardinality({a}) = 1
  BY FS_Singleton
<1>2. IsFiniteSet({a} \cup {b}) /\ Cardinality({a} \cup {b}) = 1 + 1
  BY <1>1, FS_AddElement
<1>3. {a} \cup {b} = {a, b}
  OBVIOUS
<1> QED BY <1>1, <1>2, <1>3

Assigned(rs) == {rs[k].assignment : k \in DOMAIN rs}

LEMMA SummaryFields ==
    ASSUME NEW planned, NEW rs, NEW observed, observed = Assigned(rs), NEW f, f = SummaryOf(planned, rs)
    PROVE  /\ f.observed = observed /\ f.completed = Completed(rs) /\ f.missing = planned \ observed
           /\ f.all_observed <=> planned \subseteq observed
           /\ f.all_completed <=> planned \subseteq observed
                                    /\ Cardinality(Completed(rs)) = Cardinality(planned)
  BY Zenon DEF SummaryOf, Assigned

LEMMA PairSummary ==
    ASSUME NEW s \in Snapshot, NEW first \in Position, NEW second \in Position,
           NEW status \in {"COMPLETED", "REFUSED"}
    PROVE  LET f == SummaryOf({Aim(s, Google), Aim(s, Anthropic)}, Pair(s, first, status, second))
           IN  /\ Cardinality(f.observed) = 2 /\ f.missing = {} /\ f.all_observed
               /\ status = "COMPLETED" => Cardinality(f.completed) = 2 /\ f.all_completed
               /\ status = "REFUSED" => Cardinality(f.completed) = 1 /\ ~ f.all_completed
<1>1. PICK rs, a, b : rs = Pair(s, first, status, second) /\ a = Aim(s, Google) /\ b = Aim(s, Anthropic)
  OBVIOUS
<1>2. /\ DOMAIN rs = {1, 2} /\ rs[1].assignment = a /\ rs[2].assignment = b
      /\ rs[1].status = "COMPLETED" /\ rs[2].status = status
  BY <1>1 DEF Pair, Synthetic
<1>3. a # b
  BY <1>1, TwoAims
<1>4. {rs[k].assignment : k \in DOMAIN rs} = {a, b}
  BY <1>2
<1>5. Completed(rs) = IF status = "COMPLETED" THEN {a, b} ELSE {a}
  BY <1>2 DEF Completed
<1>6. Cardinality({a, b}) = 2 /\ Cardinality({a}) = 1
  BY <1>3, CountTwo
<1>7. PICK f : f = SummaryOf({a, b}, rs)
  OBVIOUS
<1>8. /\ f.observed = {a, b} /\ f.completed = Completed(rs) /\ f.missing = {a, b} \ {a, b}
      /\ f.all_observed <=> {a, b} \subseteq {a, b}
      /\ f.all_completed <=> {a, b} \subseteq {a, b} /\ Cardinality(Completed(rs)) = Cardinality({a, b})
  <2>1. PICK P : P = {a, b} /\ P = Assigned(rs)
    BY <1>4 DEF Assigned
  <2>2. /\ f.observed = P /\ f.completed = Completed(rs) /\ f.missing = P \ P
        /\ f.all_observed <=> P \subseteq P
        /\ f.all_completed <=> P \subseteq P /\ Cardinality(Completed(rs)) = Cardinality(P)
    BY <1>7, <2>1, SummaryFields
  <2> QED BY <2>1, <2>2
<1> QED BY <1>1, <1>5, <1>6, <1>7, <1>8

LEMMA OneSummary ==
    ASSUME NEW s \in Snapshot, NEW first \in Position
    PROVE  LET f == SummaryOf({Aim(s, Google), Aim(s, Anthropic)}, <<FromGoogle(s, first)>>)
           IN  /\ Summarizable(<<FromGoogle(s, first)>>)
               /\ Cardinality(f.observed) = 1 /\ Cardinality(f.completed) = 1
               /\ Cardinality(f.missing) = 1 /\ ~ f.all_observed /\ ~ f.all_completed
<1>1. PICK rs, a, b : rs = <<FromGoogle(s, first)>> /\ a = Aim(s, Google) /\ b = Aim(s, Anthropic)
  OBVIOUS
<1>2. DOMAIN rs = {1} /\ rs[1].assignment = a /\ rs[1].status = "COMPLETED"
  BY <1>1 DEF FromGoogle, Synthetic
<1>3. a # b
  BY <1>1, TwoAims
<1>4. {rs[k].assignment : k \in DOMAIN rs} = {a} /\ Completed(rs) = {a} /\ {a, b} \ {a} = {b}
  BY <1>2, <1>3 DEF Completed
<1>5. Cardinality({a}) = 1 /\ Cardinality({b}) = 1
  BY FS_Singleton
<1>6. PICK f : f = SummaryOf({a, b}, rs)
  OBVIOUS
<1>7. /\ f.observed = {a} /\ f.completed = {a} /\ f.missing = {b}
      /\ f.all_observed <=> {a, b} \subseteq {a}
      /\ f.all_completed => {a, b} \subseteq {a}
  <2>1. PICK P, o : P = {a, b} /\ o = {a} /\ o = Assigned(rs)
    BY <1>4 DEF Assigned
  <2>2. /\ f.observed = o /\ f.completed = Completed(rs) /\ f.missing = P \ o
        /\ f.all_observed <=> P \subseteq o
        /\ f.all_completed <=> P \subseteq o /\ Cardinality(Completed(rs)) = Cardinality(P)
    BY <1>6, <2>1, SummaryFields
  <2>3. P \ o = {b}
    BY <1>4, <2>1
  <2> QED BY <1>4, <2>1, <2>2, <2>3
<1>8. ~ {a, b} \subseteq {a}
  BY <1>3
<1>9. Summarizable(rs)
  BY <1>2 DEF Summarizable, Fresh
<1> QED BY <1>1, <1>5, <1>6, <1>7, <1>8, <1>9

(* The batches of the fan-out are accepted and come out as demanded.       *)
LEMMA FanoutRehearsed ==
    ASSUME NEW s \in Snapshot
    PROVE  /\ \A x \in DOMAIN FanoutLists(s) : Summarizable(FanoutLists(s)[x])
           /\ FanoutPasses(FanoutOutcome(s))
<1>1. PICK full, missing, failure :
        /\ full = Pair(s, "UNKNOWN", "COMPLETED", "UNKNOWN")
        /\ missing = <<FromGoogle(s, "UNKNOWN")>>
        /\ failure = Pair(s, "UNKNOWN", "REFUSED", "OPPOSE")
  OBVIOUS
<1>2. FanoutLists(s) = [full |-> full, missing |-> missing, failure |-> failure]
  BY <1>1 DEF FanoutLists, Pair, FromGoogle, FromAnthropic, AnthropicRefuses
<1>3. Summarizable(full) /\ Summarizable(missing) /\ Summarizable(failure)
  BY <1>1, PairHeard, OneSummary DEF Position
<1>4. \A x \in DOMAIN FanoutLists(s) : Summarizable(FanoutLists(s)[x])
  BY <1>2, <1>3
<1>5. PICK P : P = {Aim(s, Google), Aim(s, Anthropic)}
  OBVIOUS
<1>6. /\ FanoutOutcome(s).full = SummaryOf(P, full)
      /\ FanoutOutcome(s).missing = SummaryOf(P, missing)
      /\ FanoutOutcome(s).failure = SummaryOf(P, failure)
  BY <1>2, <1>5 DEF FanoutOutcome
<1>7. PICK f : f = FanoutOutcome(s)
  OBVIOUS
<1>8. /\ Cardinality(f.full.observed) = 2 /\ Cardinality(f.full.completed) = 2
      /\ f.full.missing = {} /\ f.full.all_observed /\ f.full.all_completed
  <2>1. f.full = SummaryOf({Aim(s, Google), Aim(s, Anthropic)}, Pair(s, "UNKNOWN", "COMPLETED", "UNKNOWN"))
    BY <1>1, <1>5, <1>6, <1>7
  <2>2. PICK x : x = f.full
    OBVIOUS
  <2>3. /\ Cardinality(x.observed) = 2 /\ x.missing = {} /\ x.all_observed
        /\ Cardinality(x.completed) = 2 /\ x.all_completed
    <3>1. PICK u \in Position, done \in {"COMPLETED", "REFUSED"} : u = "UNKNOWN" /\ done = "COMPLETED"
      BY DEF Position
    <3>2. x = SummaryOf({Aim(s, Google), Aim(s, Anthropic)}, Pair(s, u, done, u))
      BY <2>1, <2>2, <3>1
    <3> QED BY <3>1, <3>2, PairSummary
  <2> QED BY <2>2, <2>3
<1>9. /\ Cardinality(f.missing.observed) = 1 /\ Cardinality(f.missing.completed) = 1
      /\ Cardinality(f.missing.missing) = 1 /\ ~ f.missing.all_observed /\ ~ f.missing.all_completed
  BY <1>1, <1>5, <1>6, <1>7, OneSummary DEF Position
<1>10. /\ Cardinality(f.failure.observed) = 2 /\ Cardinality(f.failure.completed) = 1
       /\ f.failure.missing = {} /\ f.failure.all_observed /\ ~ f.failure.all_completed
  BY <1>1, <1>5, <1>6, <1>7, PairSummary DEF Position
<1> QED BY <1>4, <1>7, <1>8, <1>9, <1>10 DEF FanoutPasses

(* What is read of an aggregate.                                           *)
HolderModels(rs, c, p) == {ModelOf(rs[k].by) : k \in Holding(rs, c, p)}
HolderProviders(rs, c, p) == {rs[k].by.provider : k \in Holding(rs, c, p)}
ProvidersAmong(ids) == {i.provider : i \in ids}
ModelsAmong(ids) == {ModelOf(i) : i \in ids}
Heard(rs) == {rs[k].by : k \in Unique(rs)}
Spoken(rs) == {rs[k].by : k \in Speaking(rs)}

LEMMA DiversityFields ==
    ASSUME NEW rs, NEW c, NEW d, d = Diversity(rs, c)
    PROVE  /\ d.cross_model <=> Apart(HolderModels(rs, c, "SUPPORT"), HolderModels(rs, c, "OPPOSE"))
           /\ d.cross_provider <=> Apart(HolderProviders(rs, c, "SUPPORT"), HolderProviders(rs, c, "OPPOSE"))
           /\ d.within_model <=> HolderModels(rs, c, "SUPPORT") \cap HolderModels(rs, c, "OPPOSE") # {}
  BY Zenon DEF Diversity, HolderModels, HolderProviders

LEMMA AggregateFields ==
    ASSUME NEW rs, NEW a, a = Aggregate(rs), Raised(rs) = {Topic}
    PROVE  /\ DOMAIN a.claims = {Topic}
           /\ a.unresolved = {c \in {Topic} : Label(rs, c) = "DIVERGENT"}
           /\ a.claims[Topic].label = Label(rs, Topic)
           /\ a.claims[Topic].diversity = Diversity(rs, Topic)
           /\ a.noncompleted = Noncompleted(rs)
           /\ a.observed.providers = Cardinality(ProvidersAmong(Heard(rs)))
           /\ a.completed.providers = Cardinality(ProvidersAmong(Spoken(rs)))
           /\ a.completed.models = Cardinality(ModelsAmong(Spoken(rs)))
<1>1. /\ a.claims = [c \in {Topic} |-> ClaimEntry(rs, c)]
      /\ a.unresolved = {c \in {Topic} : Label(rs, c) = "DIVERGENT"}
      /\ a.noncompleted = Noncompleted(rs)
      /\ a.observed = Diversities(Heard(rs)) /\ a.completed = Diversities(Spoken(rs))
  BY DEF Aggregate, Heard, Spoken
<1>2. a.claims[Topic].label = Label(rs, Topic) /\ a.claims[Topic].diversity = Diversity(rs, Topic)
  BY <1>1 DEF ClaimEntry
<1> QED BY <1>1, <1>2 DEF Diversities, ProvidersAmong, ModelsAmong

LEMMA PairReport ==
    ASSUME NEW s \in Snapshot, NEW second \in {"SUPPORT", "OPPOSE"},
           NEW status \in {"COMPLETED", "REFUSED"}
    PROVE  LET rs == Pair(s, "SUPPORT", status, second)
               x == Aim(s, Google)
               y == Aim(s, Anthropic)
               both == status = "COMPLETED"
           IN  /\ Raised(rs) = {Topic} /\ Heard(rs) = {x, y}
               /\ Spoken(rs) = IF both THEN {x, y} ELSE {x}
               /\ HolderModels(rs, Topic, "SUPPORT") =
                      IF both /\ second = "SUPPORT" THEN {ModelOf(x), ModelOf(y)} ELSE {ModelOf(x)}
               /\ HolderModels(rs, Topic, "OPPOSE") =
                      IF both /\ second = "OPPOSE" THEN {ModelOf(y)} ELSE {}
               /\ HolderProviders(rs, Topic, "SUPPORT") =
                      IF both /\ second = "SUPPORT" THEN {x.provider, y.provider} ELSE {x.provider}
               /\ HolderProviders(rs, Topic, "OPPOSE") =
                      IF both /\ second = "OPPOSE" THEN {y.provider} ELSE {}
               /\ Label(rs, Topic) = IF both /\ second = "OPPOSE" THEN "DIVERGENT" ELSE "SUPPORT_ONLY"
               /\ ~ both => Noncompleted(rs) = {[id |-> 1, by |-> y, status |-> "REFUSED", at |-> s.observed]}
<1>0. PICK first \in Position : first = "SUPPORT"
  BY DEF Position
<1>1. PICK rs, x, y : rs = Pair(s, first, status, second) /\ x = Aim(s, Google) /\ y = Aim(s, Anthropic)
  OBVIOUS
<1>2. /\ DOMAIN rs = {1, 2} /\ rs[1].by = x /\ rs[2].by = y /\ rs[2].id = 1 /\ rs[2].at = s.observed
      /\ rs[1].status = "COMPLETED" /\ rs[2].status = status
  BY <1>1 DEF Pair, Synthetic
<1>3. /\ Unique(rs) = {1, 2} /\ Raised(rs) = {Topic}
      /\ Speaking(rs) = IF status = "COMPLETED" THEN {1, 2} ELSE {1}
  BY <1>1, PairHeard DEF Position
<1>4. \A p : /\ Holding(rs, Topic, p) \subseteq {1, 2}
             /\ 1 \in Holding(rs, Topic, p) <=> p = first
             /\ 2 \in Holding(rs, Topic, p) <=> status = "COMPLETED" /\ p = second
  BY <1>1, PairHeard DEF Position
<1>5. Holding(rs, Topic, "SUPPORT") = IF status = "COMPLETED" /\ second = "SUPPORT" THEN {1, 2} ELSE {1}
  BY <1>0, <1>4
<1>6. Holding(rs, Topic, "OPPOSE") = IF status = "COMPLETED" /\ second = "OPPOSE" THEN {2} ELSE {}
  BY <1>0, <1>4
<1>7. Holding(rs, Topic, "UNKNOWN") = {}
  BY <1>0, <1>4
<1>8. Heard(rs) = {x, y} /\ Spoken(rs) = IF status = "COMPLETED" THEN {x, y} ELSE {x}
  BY <1>2, <1>3 DEF Heard, Spoken
<1>9. /\ HolderModels(rs, Topic, "SUPPORT") =
             IF status = "COMPLETED" /\ second = "SUPPORT" THEN {ModelOf(x), ModelOf(y)} ELSE {ModelOf(x)}
      /\ HolderModels(rs, Topic, "OPPOSE") =
             IF status = "COMPLETED" /\ second = "OPPOSE" THEN {ModelOf(y)} ELSE {}
  BY <1>2, <1>5, <1>6 DEF HolderModels
<1>10. /\ HolderProviders(rs, Topic, "SUPPORT") =
              IF status = "COMPLETED" /\ second = "SUPPORT" THEN {x.provider, y.provider} ELSE {x.provider}
       /\ HolderProviders(rs, Topic, "OPPOSE") =
              IF status = "COMPLETED" /\ second = "OPPOSE" THEN {y.provider} ELSE {}
  BY <1>2, <1>5, <1>6 DEF HolderProviders
<1>11. Label(rs, Topic) = IF status = "COMPLETED" /\ second = "OPPOSE" THEN "DIVERGENT" ELSE "SUPPORT_ONLY"
  BY <1>5, <1>6, <1>7 DEF Label
<1>12. status # "COMPLETED" =>
          Noncompleted(rs) = {[id |-> 1, by |-> y, status |-> "REFUSED", at |-> s.observed]}
  <2> SUFFICES ASSUME status # "COMPLETED"
               PROVE  Noncompleted(rs) = {[id |-> 1, by |-> y, status |-> "REFUSED", at |-> s.observed]}
    OBVIOUS
  <2>1. {u \in Unique(rs) : rs[u].status # "COMPLETED"} = {2} /\ status = "REFUSED"
    BY <1>2, <1>3
  <2> QED BY <1>2, <2>1 DEF Noncompleted
<1> QED BY <1>0, <1>1, <1>3, <1>8, <1>9, <1>10, <1>11, <1>12

LEMMA ApartAlone == \A A : ~ Apart(A, {}) /\ ~ Apart({}, A)
  BY DEF Apart

LEMMA ApartTwo == ASSUME NEW x, NEW y, x # y PROVE Apart({x}, {y})
<1>1. {x} \cup {y} = {x, y} /\ Cardinality({x, y}) = 2
  BY CountTwo
<1> QED BY <1>1 DEF Apart

LEMMA TwoParticipants ==
    ASSUME NEW x, NEW y, x.provider # y.provider
    PROVE  /\ Cardinality(ProvidersAmong({x, y})) = 2 /\ Cardinality(ModelsAmong({x, y})) = 2
           /\ Cardinality(ProvidersAmong({x})) = 1
<1>1. PICK p, q, m, n : p = x.provider /\ q = y.provider /\ m = ModelOf(x) /\ n = ModelOf(y)
  OBVIOUS
<1>2. p # q /\ m # n
  BY <1>1 DEF ModelOf
<1>3. ProvidersAmong({x, y}) = {p, q} /\ ModelsAmong({x, y}) = {m, n} /\ ProvidersAmong({x}) = {p}
  BY <1>1 DEF ProvidersAmong, ModelsAmong
<1>4. Cardinality({p, q}) = 2 /\ Cardinality({m, n}) = 2 /\ Cardinality({p}) = 1
  BY <1>2, CountTwo
<1> QED BY <1>3, <1>4

(* Opposite answers come out divergent, answers that agree do not, and a   *)
(* refusal is heard and silent.                                            *)
LEMMA OppositionRehearsed ==
    ASSUME NEW s \in Snapshot, NEW a, a = Aggregate(Pair(s, "SUPPORT", "COMPLETED", "OPPOSE"))
    PROVE  OppositionDiverges(a)
<1>0. PICK second \in {"SUPPORT", "OPPOSE"}, done \in {"COMPLETED", "REFUSED"} :
        second = "OPPOSE" /\ done = "COMPLETED"
  OBVIOUS
<1>1. PICK rs, x, y :
        rs = Pair(s, "SUPPORT", done, second) /\ x = Aim(s, Google) /\ y = Aim(s, Anthropic)
  OBVIOUS
<1>2. /\ Raised(rs) = {Topic} /\ Spoken(rs) = {x, y} /\ Label(rs, Topic) = "DIVERGENT"
      /\ HolderModels(rs, Topic, "SUPPORT") = {ModelOf(x)} /\ HolderModels(rs, Topic, "OPPOSE") = {ModelOf(y)}
      /\ HolderProviders(rs, Topic, "SUPPORT") = {x.provider}
      /\ HolderProviders(rs, Topic, "OPPOSE") = {y.provider}
  BY <1>0, <1>1, PairReport
<1>3. x.provider # y.provider /\ ModelOf(x) # ModelOf(y)
  BY <1>1, TwoAims DEF ModelOf
<1>4. PICK d : d = a.claims[Topic].diversity
  OBVIOUS
<1>5. /\ DOMAIN a.claims = {Topic} /\ a.unresolved = {c \in {Topic} : Label(rs, c) = "DIVERGENT"}
      /\ a.claims[Topic].label = "DIVERGENT" /\ d = Diversity(rs, Topic)
      /\ a.completed.providers = Cardinality(ProvidersAmong({x, y}))
      /\ a.completed.models = Cardinality(ModelsAmong({x, y}))
  BY <1>0, <1>1, <1>2, <1>4, AggregateFields
<1>6. a.completed.providers = 2 /\ a.completed.models = 2
  BY <1>3, <1>5, TwoParticipants
<1>7. a.unresolved = {Topic}
  BY <1>2, <1>5
<1>8. d = [within_model |-> FALSE, cross_model |-> TRUE, cross_provider |-> TRUE]
  <2>1. /\ Apart({ModelOf(x)}, {ModelOf(y)}) /\ Apart({x.provider}, {y.provider})
        /\ {ModelOf(x)} \cap {ModelOf(y)} = {}
    BY <1>3, ApartTwo
  <2> DEFINE one == {ModelOf(x)} \cap {ModelOf(y)} # {}  two == Apart({ModelOf(x)}, {ModelOf(y)})
             three == Apart({x.provider}, {y.provider})
  <2>2. Diversity(rs, Topic) = [within_model |-> one, cross_model |-> two, cross_provider |-> three]
    BY <1>2, Zenon DEF Diversity, HolderModels, HolderProviders
  <2>3. one = FALSE /\ two = TRUE /\ three = TRUE
    BY <2>1, Zenon DEF Apart
  <2> HIDE DEF one, two, three
  <2> QED BY <1>5, <2>2, <2>3
<1> QED BY <1>4, <1>5, <1>6, <1>7, <1>8 DEF OppositionDiverges

LEMMA AgreementRehearsed ==
    ASSUME NEW s \in Snapshot, NEW a, NEW status \in {"COMPLETED", "REFUSED"}, NEW second \in {"SUPPORT", "OPPOSE"},
           status = "REFUSED" \/ second = "SUPPORT", a = Aggregate(Pair(s, "SUPPORT", status, second))
    PROVE  SupportOnly(a)
<1>1. PICK rs : rs = Pair(s, "SUPPORT", status, second)
  OBVIOUS
<1>2. /\ Raised(rs) = {Topic} /\ Label(rs, Topic) = "SUPPORT_ONLY"
      /\ HolderModels(rs, Topic, "OPPOSE") = {} /\ HolderProviders(rs, Topic, "OPPOSE") = {}
  BY <1>1, PairReport
<1>3. PICK d : d = a.claims[Topic].diversity
  OBVIOUS
<1>4. /\ DOMAIN a.claims = {Topic} /\ a.unresolved = {c \in {Topic} : Label(rs, c) = "DIVERGENT"}
      /\ a.claims[Topic].label = "SUPPORT_ONLY" /\ d = Diversity(rs, Topic)
  BY <1>1, <1>2, <1>3, AggregateFields
<1>5. ~ d.cross_model /\ ~ d.cross_provider
  BY <1>2, <1>4, DiversityFields, ApartAlone
<1>6. a.unresolved = {}
  BY <1>2, <1>4
<1> QED BY <1>3, <1>4, <1>5, <1>6 DEF SupportOnly

LEMMA RefusalRehearsed ==
    ASSUME NEW s \in Snapshot, NEW a, a = Aggregate(Pair(s, "SUPPORT", "REFUSED", "OPPOSE"))
    PROVE  RefusalIsSilent(a)
<1>0. PICK second \in {"SUPPORT", "OPPOSE"}, refused \in {"COMPLETED", "REFUSED"} :
        second = "OPPOSE" /\ refused = "REFUSED"
  OBVIOUS
<1>1. PICK rs, x, y :
        rs = Pair(s, "SUPPORT", refused, second) /\ x = Aim(s, Google) /\ y = Aim(s, Anthropic)
  OBVIOUS
<1>2. SupportOnly(a)
  BY <1>0, <1>1, AgreementRehearsed
<1>3. /\ Raised(rs) = {Topic} /\ Heard(rs) = {x, y} /\ Spoken(rs) = {x}
      /\ Noncompleted(rs) = {[id |-> 1, by |-> y, status |-> "REFUSED", at |-> s.observed]}
  BY <1>0, <1>1, PairReport
<1>4. /\ a.noncompleted = Noncompleted(rs)
      /\ a.observed.providers = Cardinality(ProvidersAmong({x, y}))
      /\ a.completed.providers = Cardinality(ProvidersAmong({x}))
  BY <1>0, <1>1, <1>3, AggregateFields
<1>6. x.provider # y.provider
  BY <1>1, TwoAims
<1>7. a.observed.providers = 2 /\ a.completed.providers = 1
  BY <1>4, <1>6, TwoParticipants
<1>8. PICK n : n = [id |-> 1, by |-> y, status |-> "REFUSED", at |-> s.observed]
  OBVIOUS
<1>9. a.noncompleted = {n} /\ n.status = "REFUSED"
  BY <1>3, <1>4, <1>8
<1>10. {z \in {n} : z.status = "REFUSED"} = {n} /\ Cardinality({n}) = 1
  BY <1>9, FS_Singleton
<1> QED BY <1>2, <1>7, <1>9, <1>10 DEF RefusalIsSilent

(* So no demand of the rehearsals is in their own way.                     *)
LEMMA RehearsalsNotInTheWay ==
    ASSUME NEW s \in Snapshot, Askable(s) PROVE RehearsalsPass(s)
<1>1. PICK opposed, agreed, refused :
        /\ opposed = Pair(s, "SUPPORT", "COMPLETED", "OPPOSE")
        /\ agreed = Pair(s, "SUPPORT", "COMPLETED", "SUPPORT")
        /\ refused = Pair(s, "SUPPORT", "REFUSED", "OPPOSE")
  OBVIOUS
<1>2. ResearchLists(s) = [opposed |-> opposed, agreed |-> agreed, refused |-> refused]
  BY <1>1 DEF ResearchLists, Pair, FromGoogle, FromAnthropic, AnthropicRefuses
<1>3. Aggregable(opposed) /\ Aggregable(agreed) /\ Aggregable(refused)
  BY <1>1, PairHeard DEF Position
<1>4. \A z \in DOMAIN ResearchLists(s) : Aggregable(ResearchLists(s)[z])
  BY <1>2, <1>3
<1>5. PICK r : r = ResearchOutcome(s)
  OBVIOUS
<1>6. r.opposed = Aggregate(opposed) /\ r.agreed = Aggregate(agreed) /\ r.refused = Aggregate(refused)
  BY <1>2, <1>5 DEF ResearchOutcome
<1>7. OppositionDiverges(r.opposed) /\ SupportOnly(r.agreed) /\ RefusalIsSilent(r.refused)
  BY <1>1, <1>6, OppositionRehearsed, AgreementRehearsed, RefusalRehearsed
<1>8. PICK f : f = FanoutOutcome(s) /\ FanoutPasses(f)
  BY FanoutRehearsed
<1>9. FederationPasses(f, r)
  <2>1. f.full.all_completed /\ ~ f.missing.all_completed /\ f.failure.all_observed /\ ~ f.failure.all_completed
    BY <1>8 DEF FanoutPasses
  <2>2. r.opposed.claims[Topic].diversity.cross_provider
    BY <1>7 DEF OppositionDiverges
  <2>3. ~ r.agreed.claims[Topic].diversity.cross_provider
    BY <1>7 DEF SupportOnly
  <2>4. /\ r.refused.claims[Topic].label = "SUPPORT_ONLY" /\ r.refused.completed.providers = 1
        /\ ~ r.refused.claims[Topic].diversity.cross_provider
    BY <1>7 DEF RefusalIsSilent, SupportOnly
  <2> QED BY <2>1, <2>2, <2>3, <2>4 DEF FederationPasses
<1> QED BY <1>4, <1>5, <1>7, <1>8, <1>9, FanoutRehearsed DEF RehearsalsPass, ResearchPasses

(* The chain of a fresh catalog within the ceiling is built.               *)
LEMMA ChainNotInTheWay ==
    ASSUME NEW b, b.snapshot \in Snapshot,
           FreshnessFits(b.snapshot, [snapshot |-> b.snapshot, checked |-> b.checked]),
           \A p \in {Google, Anthropic} : Candidate(b.snapshot, p, MaxTokens)
    PROVE  ChainBuilds(b)
<1>1. GenerationFits(b.snapshot, b)
  BY DEF GenerationFits
<1>2. ASSUME NEW p \in {Google, Anthropic} PROVE ProviderChained(b, p)
  <2>0. PICK s \in Snapshot : s = b.snapshot
    OBVIOUS
  <2>1. PICK e : e = EvidenceOn(b, p)
    OBVIOUS
  <2>2. /\ e.matrix = [snapshot |-> s, provider |-> p]
        /\ e.plan = [snapshot |-> s, provider |-> p, head |-> b.head, tokens |-> MaxTokens]
        /\ e.receipt = [snapshot |-> s, checked |-> b.checked]
        /\ e.attestation = [at |-> b.checked, head |-> b.head]
    BY <2>0, <2>1 DEF EvidenceOn, Restated
  <2>3. Candidate(s, p, MaxTokens) /\ FreshnessFits(s, e.receipt)
    BY <2>0, <2>2
  <2>4. MatrixFits(s, e.matrix) /\ PlanFits(s, e.plan)
    BY <2>2, <2>3 DEF MatrixFits, PlanFits
  <2>5. /\ SameCatalog(e.plan, e.receipt) /\ SameTime(e.receipt, e.attestation)
        /\ SameHead(e.plan, e.attestation) /\ Aligned(e.matrix, e.plan)
    BY <2>2 DEF SameCatalog, SameTime, SameHead, Aligned
  <2>6. EvidenceFits(s, e)
    BY <2>3, <2>4, <2>5 DEF EvidenceFits
  <2>7. PICK rt : rt = [matrix |-> e.matrix, tokens |-> Usage]
    OBVIOUS
  <2>8. RoundtripFits(s, e, rt)
    BY <2>4, <2>7 DEF RoundtripFits
  <2>9. Usage <= MaxTokens /\ Cost(s, p, Usage) <= Cost(s, p, MaxTokens)
    <3>1. Usage \in Nat /\ MaxTokens \in Nat /\ Usage <= MaxTokens /\ p \in Provider
      BY LaunchAssumption, PhaseAssumption
    <3> QED BY <3>1, CostMonotone
  <2>10. WithinPreflight(s, e, rt)
    BY <2>2, <2>7, <2>9 DEF WithinPreflight
  <2>11. ProviderRehearsed(b, p)
    BY <2>0, <2>1, <2>6, <2>7, <2>8, <2>10 DEF ProviderRehearsed
  <2> QED BY <2>0, <2>1, <2>2, <2>11 DEF ProviderChained
<1> QED BY <1>1, <1>2 DEF ChainBuilds

LEMMA NothingIsInTheWay == ASSUME LaunchInv PROVE NothingInTheWay
<1> DEFINE fit == {s \in catalog : Askable(s) /\ \A p \in {Google, Anthropic} : Candidate(s, p, MaxTokens)}
<1>1. ASSUME NEW s \in fit PROVE s \in Passing
  <2>1. s \in Snapshot /\ s \in catalog /\ RehearsalsPass(s)
    BY RehearsalsNotInTheWay DEF LaunchInv
  <2>2. <<s.price, s.observed>> \in Rehearsable
    BY <2>1 DEF Rehearsable
  <2> QED BY <2>1, <2>2 DEF Passing
<1>2. ASSUME NEW b \in BasesOn(fit),
             FreshnessFits(b.snapshot, [snapshot |-> b.snapshot, checked |-> b.checked])
      PROVE  ChainBuilds(b)
  <2>1. b.snapshot \in fit
    BY DEF BasesOn
  <2>2. b.snapshot \in Snapshot /\ \A p \in {Google, Anthropic} : Candidate(b.snapshot, p, MaxTokens)
    BY <2>1 DEF LaunchInv
  <2> QED BY <1>2, <2>2, ChainNotInTheWay
<1>3. fit \subseteq Passing
  BY <1>1
<1> QED BY <1>2, <1>3 DEF NothingInTheWay

-----------------------------------------------------------------------------
(* What a validator accepted keeps its basis: the catalog and main's       *)
(* history only grow.                                                      *)
StoodAt(h) == \E t \in 0..clock : head[t] = h

ConfirmedSound(x) ==
    /\ x.record = RecordOn(x.handed)
    /\ x.handed.snapshot \in catalog /\ StoodAt(x.handed.head) /\ x.handed.checked \in LaunchTime
    /\ \A p \in {Google, Anthropic} : ProviderRehearsed(x.handed, p)

PacketSound(x) ==
    LET k == x.packet.parts
    IN  /\ k.snapshot \in catalog
        /\ x.expected.checked \in LaunchTime /\ x.expected.price \in PriceList
        /\ PacketFits(x.expected, x.packet)
        /\ x.packet = PacketOf(k.snapshot, k.verification, x.expected)

PhaseInv ==
    /\ LaunchInv
    /\ \A x \in confirmed : ConfirmedSound(x)
    /\ \A x \in packets : PacketSound(x)

LEMMA InitPhaseInv == PhaseInit => PhaseInv
  BY InitLaunchInv DEF PhaseInit, PhaseInv

LEMMA WorldOnlyGrows ==
    ASSUME LaunchInv, [LaunchNext]_launchVars
    PROVE  catalog \subseteq catalog' /\ \A h : StoodAt(h) => StoodAt(h)'
<1>1. CASE ClockTicks \/ MoveMain
  <2>1. PICK h : head' = [t \in 0..(clock + 1) |-> IF t <= clock THEN head[t] ELSE h]
    BY <1>1 DEF ClockTicks, MoveMain
  <2>2. clock' = clock + 1 /\ catalog' = catalog /\ clock \in Nat
    BY <1>1, LaunchAssumption DEF ClockTicks, MoveMain, LaunchInv, LaunchTime
  <2>3. \A t \in 0..clock : t \in 0..clock' /\ head'[t] = head[t]
    BY <2>1, <2>2
  <2> QED BY <2>2, <2>3 DEF StoodAt
<1>2. CASE UNCHANGED <<clock, head>> /\ catalog \subseteq catalog'
  BY <1>2 DEF StoodAt
<1> QED BY <1>1, <1>2 DEF LaunchNext, Observe, Attest, Launch, Rehearse, launchVars

LEMMA ConfirmKeeps ==
    ASSUME PhaseInv, UNCHANGED launchVars, ConfirmFederation \/ ConfirmChain PROVE PhaseInv'
<1>1. PICK B : B = BasesOn(Passing)
  OBVIOUS
<1>2. PICK made, handed \in B :
        /\ \A p \in {Google, Anthropic} : ProviderRehearsed(handed, p)
        /\ Confirm(made, handed)
  <2>1. CASE ConfirmFederation
    BY <1>1, <2>1 DEF ConfirmFederation, Federations, FederationBuilds
  <2>2. CASE ConfirmChain
    BY <1>1, <2>2 DEF ConfirmChain, Chains, ChainBuilds, ProviderChained
  <2> QED BY <2>1, <2>2
<1>3. /\ RecordOn(made) = RecordOn(handed) /\ UNCHANGED packets
      /\ confirmed' = confirmed \cup {[handed |-> handed, record |-> RecordOn(handed)]}
  BY <1>2 DEF Confirm, Matches
<1>4. handed.snapshot \in catalog /\ StoodAt(handed.head) /\ handed.checked \in LaunchTime
  BY <1>1 DEF BasesOn, Passing, StoodAt
<1>5. PICK x : x = [handed |-> handed, record |-> RecordOn(handed)]
  OBVIOUS
<1>6. ConfirmedSound(x)
  BY <1>2, <1>4, <1>5 DEF ConfirmedSound
<1>7. /\ LaunchInv' /\ \A y : ConfirmedSound(y) => ConfirmedSound(y)'
      /\ \A y : PacketSound(y) => PacketSound(y)'
  BY DEF PhaseInv, LaunchInv, LaunchSound, RehearsalSound, launchVars, ConfirmedSound, PacketSound, StoodAt
<1> QED BY <1>3, <1>5, <1>6, <1>7 DEF PhaseInv

(* The parts of a packet, and of one put together of two.                  *)
Names == {"head", "snapshot", "receipt", "verification", "comparison", "selection", "strict", "wire",
          "matrix", "ingestion", "termination", "limits"}

LEMMA PacketShape ==
    ASSUME NEW s, NEW v, NEW x, NEW a, a = PacketOf(s, v, x)
    PROVE  /\ DOMAIN a.parts = Names /\ a.parts.snapshot = s /\ a.parts.verification = v
           /\ a.parts.receipt = [snapshot |-> s, checked |-> x.checked]
           /\ a.hashes = HashesOf(a.parts)
           /\ a.parts.limits = [tokens |-> a.parts.limits.tokens, cost |-> a.parts.limits.cost]
  BY DEF PacketOf, Names

LEMMA PacketWasBuilt ==
    ASSUME NEW a \in Packets
    PROVE  \E s \in catalog : \E v, x : a = PacketOf(s, v, x) /\ x.checked = v.checked
<1>1. PICK b \in Builds : a = PacketOf(b[1], b[2], b[3])
  BY DEF Packets
<1>2. b \in catalog \X Verifications \X Expectations /\ PacketBuilds(b[1], b[2], b[3])
  BY DEF Builds
<1>3. PICK s, v, x : s = b[1] /\ v = b[2] /\ x = b[3]
  OBVIOUS
<1>4. s \in catalog
  BY <1>2, <1>3
<1>5. VerificationFits(s, v, x)
  BY <1>2, <1>3 DEF PacketBuilds
<1>6. x.checked = v.checked
  BY <1>5 DEF VerificationFits
<1> QED BY <1>1, <1>3, <1>4, <1>6

LEMMA SplicedParts ==
    ASSUME NEW a, NEW b, NEW names, NEW z, z = Spliced(a, b, names),
           DOMAIN a.parts = Names
    PROVE  LET k == z.parts
           IN  /\ k = [head |-> k.head, snapshot |-> k.snapshot, receipt |-> k.receipt,
                       verification |-> k.verification, comparison |-> k.comparison,
                       selection |-> k.selection, strict |-> k.strict, wire |-> k.wire,
                       matrix |-> k.matrix, ingestion |-> k.ingestion, termination |-> k.termination,
                       limits |-> k.limits]
               /\ z = [parts |-> k, hashes |-> z.hashes]
               /\ k.snapshot = a.parts.snapshot \/ k.snapshot = b.parts.snapshot
               /\ k.limits = a.parts.limits \/ k.limits = b.parts.limits
               /\ z.hashes = a.hashes \/ z.hashes = b.hashes
<1>1. PICK k : k = [f \in Names |-> IF f \in names THEN b.parts[f] ELSE a.parts[f]]
  OBVIOUS
<1>2. z = [parts |-> k, hashes |-> IF "hashes" \in names THEN b.hashes ELSE a.hashes]
  BY <1>1 DEF Spliced
<1>3. /\ k.snapshot = a.parts.snapshot \/ k.snapshot = b.parts.snapshot
      /\ k.limits = a.parts.limits \/ k.limits = b.parts.limits
  BY <1>1 DEF Names
<1>4. k = [head |-> k.head, snapshot |-> k.snapshot, receipt |-> k.receipt,
           verification |-> k.verification, comparison |-> k.comparison,
           selection |-> k.selection, strict |-> k.strict, wire |-> k.wire,
           matrix |-> k.matrix, ingestion |-> k.ingestion, termination |-> k.termination,
           limits |-> k.limits]
  BY <1>1 DEF Names
<1> QED BY <1>2, <1>3, <1>4

(* Hashes that are those of a packet's parts bind its receipt and its      *)
(* verification: they are those of one build.                              *)
LEMMA HashesBind ==
    ASSUME NEW k, NEW l, HashesOf(k) = HashesOf(l)
    PROVE  k.receipt = l.receipt /\ k.verification = l.verification
  BY DEF HashesOf

LEMMA OfOnePiece ==
    ASSUME NEW y, NEW z, NEW k, z = [parts |-> k, hashes |-> z.hashes], k = z.parts,
           k = [head |-> k.head, snapshot |-> k.snapshot, receipt |-> k.receipt,
                verification |-> k.verification, comparison |-> k.comparison,
                selection |-> k.selection, strict |-> k.strict, wire |-> k.wire,
                matrix |-> k.matrix, ingestion |-> k.ingestion, termination |-> k.termination,
                limits |-> k.limits],
           PacketFits(y, z), k.receipt = [snapshot |-> k.snapshot, checked |-> y.checked],
           k.limits = [tokens |-> k.limits.tokens, cost |-> k.limits.cost]
    PROVE  z = PacketOf(k.snapshot, k.verification, y)
<1>1. PICK rows : rows = Comparison(k.snapshot, k.verification)
  OBVIOUS
<1>2. PICK p : p = Selected(rows)
  OBVIOUS
<1>3. k.matrix.provider = p /\ k.matrix = MatrixOf(k.snapshot, p)
  BY <1>1, <1>2 DEF PacketFits, PartsFit, Selection
<1>4. PICK m, strict : m = MatrixOf(k.snapshot, p) /\ strict = StrictSchema(m.assignment)
  OBVIOUS
<1>5. /\ k.head = y.head /\ k.comparison = rows /\ k.selection = Selection(rows)
      /\ k.matrix = m /\ k.strict = strict /\ k.wire = m.schema
      /\ k.ingestion = Ingestion(m, strict, m.schema) /\ k.termination = Termination(m)
      /\ k.limits = [tokens |-> MaxTokens, cost |-> Cost(k.snapshot, m.provider, MaxTokens)]
  BY <1>1, <1>3, <1>4 DEF PacketFits, PartsFit
<1>6. z.hashes = HashesOf(k)
  BY DEF PacketFits
<1>7. PICK s, v, limits :
        s = k.snapshot /\ v = k.verification
        /\ limits = [tokens |-> MaxTokens, cost |-> Cost(k.snapshot, m.provider, MaxTokens)]
  OBVIOUS
<1>8. k = [head |-> y.head, snapshot |-> s, receipt |-> [snapshot |-> s, checked |-> y.checked],
           verification |-> v, comparison |-> rows, selection |-> Selection(rows),
           strict |-> strict, wire |-> m.schema, matrix |-> m,
           ingestion |-> Ingestion(m, strict, m.schema), termination |-> Termination(m),
           limits |-> limits]
  BY <1>5, <1>7
<1>9. /\ rows = Comparison(s, v) /\ p = Selected(rows) /\ m = MatrixOf(s, p)
      /\ strict = StrictSchema(m.assignment)
      /\ limits = [tokens |-> MaxTokens, cost |-> Cost(s, m.provider, MaxTokens)]
      /\ z = [parts |-> k, hashes |-> HashesOf(k)]
  BY <1>1, <1>2, <1>4, <1>6, <1>7
<1>10. z = PacketOf(s, v, y)
  BY <1>8, <1>9, Zenon DEF PacketOf
<1> QED BY <1>7, <1>10

LEMMA ConfirmPacketKeeps ==
    ASSUME PhaseInv, UNCHANGED launchVars, ConfirmPacket PROVE PhaseInv'
<1>1. PICK a \in Packets, b \in Packets, names \in Splice, y \in Expectations :
        /\ PacketFits(y, Spliced(a, b, names))
        /\ packets' = packets \cup {[expected |-> y, packet |-> Spliced(a, b, names)]}
  BY DEF ConfirmPacket
<1>2. PICK s1 : s1 \in catalog /\ \E v, x : a = PacketOf(s1, v, x) /\ x.checked = v.checked
  BY <1>1, PacketWasBuilt
<1>3. PICK s2 : s2 \in catalog /\ \E v, x : b = PacketOf(s2, v, x) /\ x.checked = v.checked
  BY <1>1, PacketWasBuilt
<1>18. PICK v1, x1 : a = PacketOf(s1, v1, x1) /\ x1.checked = v1.checked
  BY <1>2
<1>19. PICK v2, x2 : b = PacketOf(s2, v2, x2) /\ x2.checked = v2.checked
  BY <1>3
<1>4. PICK z, k : z = Spliced(a, b, names) /\ k = z.parts
  OBVIOUS
<1>5. /\ DOMAIN a.parts = Names /\ a.parts.snapshot = s1 /\ a.parts.verification = v1
      /\ a.parts.receipt = [snapshot |-> s1, checked |-> x1.checked]
      /\ a.hashes = HashesOf(a.parts)
      /\ a.parts.limits = [tokens |-> a.parts.limits.tokens, cost |-> a.parts.limits.cost]
  BY <1>18, PacketShape
<1>6. /\ b.parts.snapshot = s2 /\ b.parts.verification = v2
      /\ b.parts.receipt = [snapshot |-> s2, checked |-> x2.checked]
      /\ b.hashes = HashesOf(b.parts)
      /\ b.parts.limits = [tokens |-> b.parts.limits.tokens, cost |-> b.parts.limits.cost]
  BY <1>19, PacketShape
<1>7. /\ k = [head |-> k.head, snapshot |-> k.snapshot, receipt |-> k.receipt,
              verification |-> k.verification, comparison |-> k.comparison,
              selection |-> k.selection, strict |-> k.strict, wire |-> k.wire,
              matrix |-> k.matrix, ingestion |-> k.ingestion, termination |-> k.termination,
              limits |-> k.limits]
      /\ z = [parts |-> k, hashes |-> z.hashes]
      /\ k.snapshot = s1 \/ k.snapshot = s2
      /\ k.limits = a.parts.limits \/ k.limits = b.parts.limits
      /\ z.hashes = a.hashes \/ z.hashes = b.hashes
  BY <1>4, <1>5, <1>6, SplicedParts
<1>8. PacketFits(y, z) /\ z.hashes = HashesOf(k) /\ k.verification.checked = y.checked
      /\ k.receipt.snapshot = k.snapshot
  BY <1>1, <1>4 DEF PacketFits, PartsFit, VerificationFits, FreshnessFits
<1>9. \/ k.receipt = a.parts.receipt /\ k.verification = v1
      \/ k.receipt = b.parts.receipt /\ k.verification = v2
  BY <1>5, <1>6, <1>7, <1>8, HashesBind
<1>10. k.receipt = [snapshot |-> k.snapshot, checked |-> y.checked]
  BY <1>5, <1>6, <1>8, <1>9, <1>18, <1>19
<1>11. k.limits = [tokens |-> k.limits.tokens, cost |-> k.limits.cost]
  BY <1>5, <1>6, <1>7
<1>12. z = PacketOf(k.snapshot, k.verification, y)
  BY <1>4, <1>7, <1>8, <1>10, <1>11, OfOnePiece
<1>13. PICK w : w = [expected |-> y, packet |-> z]
  OBVIOUS
<1>14. w.expected = y /\ w.packet = z /\ y.checked \in LaunchTime /\ y.price \in PriceList
       /\ k.snapshot \in catalog
  BY <1>2, <1>3, <1>7, <1>13 DEF Expectations
<1>15. PacketSound(w)
  BY <1>4, <1>8, <1>12, <1>14 DEF PacketSound
<1>16. /\ LaunchInv' /\ \A u : ConfirmedSound(u) => ConfirmedSound(u)'
      /\ \A u : PacketSound(u) => PacketSound(u)'
  BY DEF PhaseInv, LaunchInv, LaunchSound, RehearsalSound, launchVars, ConfirmedSound, PacketSound, StoodAt
<1>17. confirmed' = confirmed /\ packets' = packets \cup {w}
  BY <1>1, <1>4, <1>13 DEF ConfirmPacket
<1> QED BY <1>15, <1>16, <1>17 DEF PhaseInv

LEMMA NextPhaseInv == PhaseInv /\ [PhaseNext]_<<launchVars, phaseVars>> => PhaseInv'
<1> SUFFICES ASSUME PhaseInv, [PhaseNext]_<<launchVars, phaseVars>> PROVE PhaseInv'
  OBVIOUS
<1>1. CASE [LaunchNext]_launchVars /\ UNCHANGED phaseVars
  <2>1. LaunchInv' /\ catalog \subseteq catalog' /\ \A h : StoodAt(h) => StoodAt(h)'
    BY <1>1, NextLaunchInv, WorldOnlyGrows DEF PhaseInv
  <2>2. \A y : ConfirmedSound(y) => ConfirmedSound(y)'
    BY <2>1 DEF ConfirmedSound
  <2>3. \A y : PacketSound(y) => PacketSound(y)'
    BY <2>1 DEF PacketSound
  <2> QED BY <1>1, <2>1, <2>2, <2>3 DEF PhaseInv, phaseVars
<1>2. CASE (ConfirmFederation \/ ConfirmChain \/ ConfirmPacket) /\ UNCHANGED launchVars
  BY <1>2, ConfirmKeeps, ConfirmPacketKeeps
<1> QED BY <1>1, <1>2 DEF PhaseNext

LEMMA ConfirmedIsOneGeneration == ASSUME PhaseInv PROVE OneGeneration
<1>1. ASSUME NEW x \in confirmed, NEW p \in {Google, Anthropic}
      PROVE  LET e == x.record.evidence[p]
                 s == x.handed.snapshot
             IN  /\ s \in catalog /\ \E t \in 0..clock : head[t] = e.plan.head
                 /\ e.plan.head = x.handed.head /\ e.plan.snapshot = s /\ e.matrix.snapshot = s
                 /\ s.observed <= e.attestation.at /\ e.attestation.at <= s.observed + Window
                 /\ e.attestation.at <= s.through
                 /\ MaxTokens * s.price[p] <= Scale * Cost(s, p, e.plan.tokens)
                 /\ Cost(s, p, e.plan.tokens) <= MaxCost
  <2>1. PICK b, s, e : b = x.handed /\ s = b.snapshot /\ e = EvidenceOn(b, p)
    OBVIOUS
  <2>2. ConfirmedSound(x)
    BY DEF PhaseInv
  <2>3. x.record.evidence[p] = e
    BY <2>1, <2>2 DEF ConfirmedSound, RecordOn
  <2>4. /\ s \in catalog /\ s \in Snapshot /\ StoodAt(b.head) /\ b.checked \in LaunchTime
        /\ EvidenceFits(s, e)
    BY <2>1, <2>2 DEF ConfirmedSound, PhaseInv, LaunchInv, ProviderRehearsed
  <2>5. /\ e.plan.snapshot = s /\ e.plan.provider = p /\ e.plan.head = b.head /\ e.plan.tokens = MaxTokens
        /\ e.matrix.snapshot = s /\ e.receipt.checked = b.checked /\ e.attestation.at = b.checked
    BY <2>1 DEF EvidenceOn, Restated
  <2>6. /\ b.checked >= s.observed /\ b.checked - s.observed <= Window /\ b.checked <= s.through
        /\ Cost(s, p, MaxTokens) <= MaxCost
    BY <2>4, <2>5 DEF EvidenceFits, FreshnessFits, PlanFits, Candidate
  <2>7. s.observed \in Nat /\ b.checked \in Nat /\ Window \in Nat /\ MaxTokens \in Nat /\ p \in Provider
    BY <2>4, LaunchAssumption, PhaseAssumption DEF Snapshot, LaunchTime
  <2>8. s.observed <= b.checked /\ b.checked <= s.observed + Window
    BY <2>6, <2>7
  <2>9. MaxTokens * s.price[p] <= Scale * Cost(s, p, MaxTokens)
    BY <2>4, <2>7, CostBounds
  <2> QED BY <2>1, <2>3, <2>4, <2>5, <2>6, <2>8, <2>9 DEF StoodAt
<1> QED BY <1>1 DEF OneGeneration

LEMMA PacketIsCheapest == ASSUME PhaseInv PROVE PacketCheapest /\ PacketOfOnePiece
<1>1. ASSUME NEW x \in packets
      PROVE  LET k == x.packet.parts
                 s == k.snapshot
             IN  /\ s \in catalog /\ k.verification.of = s /\ s.price = x.expected.price
                 /\ s.observed <= x.expected.checked /\ x.expected.checked <= s.observed + Window
                 /\ x.expected.checked <= s.through
                 /\ MaxTokens * s.price[k.matrix.provider] <= Scale * k.limits.cost
                 /\ k.limits.cost <= MaxCost
                 /\ \A o \in Provider :
                        /\ k.limits.cost <= Cost(s, o, MaxTokens)
                        /\ MaxTokens * s.price[k.matrix.provider] < MaxTokens * s.price[o] + Scale
  <2>1. PICK y, k, s, q : y = x.expected /\ k = x.packet.parts /\ s = k.snapshot /\ q = k.matrix.provider
    OBVIOUS
  <2>2. /\ s \in catalog /\ s \in Snapshot /\ y.checked \in LaunchTime
        /\ y.price \in PriceList /\ PartsFit(y, k) /\ x.packet = PacketOf(s, k.verification, y)
    BY <2>1 DEF PhaseInv, PacketSound, LaunchInv, PacketFits
  <2>20. PICK a, v : a = x.packet /\ v = k.verification
    OBVIOUS
  <2>21. a = PacketOf(s, v, y)
    BY <2>2, <2>20
  <2>22. a.parts.receipt = [snapshot |-> s, checked |-> y.checked]
    BY <2>21 DEF PacketOf
  <2>0. k.receipt = [snapshot |-> s, checked |-> y.checked]
    BY <2>1, <2>20, <2>22
  <2>10. s.price \in [Provider -> Nat \ {0}] /\ y.price \in [Provider -> Nat \ {0}]
    BY <2>2, LaunchAssumption DEF Snapshot
  <2>11. \A o \in Provider : s.price[o] = y.price[o]
    BY <2>1, <2>2 DEF PartsFit, VerificationFits
  <2>12. s.price = y.price
    BY <2>10, <2>11
  <2>13. /\ FreshnessFits(s, k.receipt) /\ VerificationFits(s, k.verification, y)
         /\ k.comparison = Comparison(s, k.verification) /\ k.selection = Selection(k.comparison)
         /\ q = k.selection.provider /\ k.limits.cost = SmokeCost(s, q) /\ k.limits.cost <= MaxCost
    BY <2>1, <2>2 DEF PartsFit, SmokeCost
  <2>14. q = Selected(Comparison(s, k.verification))
    BY <2>13 DEF Selection
  <2>15. k.verification.of = s /\ \A o \in Provider : o \in k.verification.wire
    BY <2>13 DEF VerificationFits
  <2>3. /\ k.receipt.checked = y.checked /\ FreshnessFits(s, k.receipt) /\ s.price = y.price
        /\ k.verification.of = s /\ \A o \in Provider : o \in k.verification.wire
        /\ q = Selected(Comparison(s, k.verification)) /\ k.limits.cost = SmokeCost(s, q)
        /\ k.limits.cost <= MaxCost
    BY <2>0, <2>12, <2>13, <2>14, <2>15
  <2>4. s.observed \in Nat /\ y.checked \in Nat /\ Window \in Nat /\ MaxTokens \in Nat /\ Scale \in Nat \ {0}
    BY <2>2, LaunchAssumption DEF Snapshot, LaunchTime
  <2>5. s.observed <= y.checked /\ y.checked <= s.observed + Window /\ y.checked <= s.through
    BY <2>3, <2>4 DEF FreshnessFits
  <2>6. PICK p \in Provider : p = q /\ \A o \in Provider : SmokeCost(s, p) <= SmokeCost(s, o)
    BY <2>2, <2>3, SelectedIsCheapest
  <2>7. MaxTokens * s.price[p] <= Scale * SmokeCost(s, p)
    BY <2>2, <2>4, CostBounds DEF SmokeCost
  <2>8. ASSUME NEW o \in Provider PROVE MaxTokens * s.price[p] < MaxTokens * s.price[o] + Scale
    <3>1. PICK c, d \in Nat : c = SmokeCost(s, p) /\ d = SmokeCost(s, o)
      BY <2>2, <2>4, CostBounds DEF SmokeCost
    <3>2. PICK m, n \in Nat : m = MaxTokens * s.price[p] /\ n = MaxTokens * s.price[o]
      BY <2>2, <2>4, CostBounds
    <3>3. PICK g, h \in Nat : g = Scale * c /\ h = Scale * d
      BY <2>4
    <3>4. m <= g /\ h < n + Scale
      BY <2>2, <2>4, <3>1, <3>2, <3>3, CostBounds DEF SmokeCost
    <3>5. g <= h
      BY <2>4, <2>6, <3>1, <3>3, TimesMonotone
    <3>6. m < n + Scale
      BY <2>4, <3>4, <3>5
    <3> QED BY <3>2, <3>6
  <2> QED BY <2>1, <2>2, <2>3, <2>5, <2>6, <2>7, <2>8 DEF SmokeCost
<1>2. PacketOfOnePiece
  BY DEF PhaseInv, PacketSound, PacketOfOnePiece
<1> QED BY <1>1, <1>2 DEF PacketCheapest

LEMMA AgeOfReceipt ==
    ASSUME NEW s \in Snapshot, NEW r, FreshnessFits(s, r), r.checked \in LaunchTime
    PROVE  r.checked - r.snapshot.observed \in 0..Window
<1>1. s.observed \in Nat /\ r.checked \in Nat /\ Window \in Nat
  BY LaunchAssumption DEF Snapshot, LaunchTime
<1> QED BY <1>1 DEF FreshnessFits

LEMMA SchemasDiffer == ASSUME NEW a PROVE StrictSchema(a) # WireSchema(StrictSchema(a))
<1>1. PICK d : d = StrictSchema(a)
  OBVIOUS
<1>2. d = [for |-> a, keys |-> {"shape", "bounds"}]
  BY <1>1 DEF StrictSchema
<1>3. WireSchema(d).keys = {"shape", "bounds"} \ {"bounds"}
  BY <1>2 DEF WireSchema
<1>4. "bounds" \in d.keys /\ "bounds" \notin WireSchema(d).keys
  BY <1>2, <1>3
<1> QED BY <1>1, <1>4

LEMMA AllAreEligible ==
    ASSUME NEW s, NEW v, \A p \in Provider : p \in v.wire
    PROVE  Selection(Comparison(s, v)).among = Cardinality(Provider)
<1>1. PICK rows : rows = Comparison(s, v)
  OBVIOUS
<1>2. \A p \in Provider : rows[p].eligible = TRUE
  BY <1>1 DEF Comparison
<1>3. {p \in Provider : rows[p].eligible} = Provider
  BY <1>2
<1> QED BY <1>1, <1>3 DEF Selection

LEMMA ValidatorsBothPass == ASSUME PhaseInv PROVE ValidatorsAgree
<1> SUFFICES ASSUME NEW w \in packets PROVE Validated(w.expected, w.packet)
  BY DEF ValidatorsAgree
<1>1. PICK y, z, k : y = w.expected /\ z = w.packet /\ k = z.parts
  OBVIOUS
<1>2. PICK s, v : s = k.snapshot /\ v = k.verification
  OBVIOUS
<1>11. PacketSound(w) /\ catalog \subseteq Snapshot
  BY DEF PhaseInv, LaunchInv
<1>3. /\ s \in Snapshot /\ y.checked \in LaunchTime
      /\ PartsFit(y, k) /\ z.hashes = HashesOf(k) /\ z = PacketOf(s, v, y)
  BY <1>1, <1>2, <1>11 DEF PacketSound, PacketFits
<1>4. k.receipt = [snapshot |-> s, checked |-> y.checked]
  BY <1>1, <1>3 DEF PacketOf
<1>5. k.receipt.checked - k.receipt.snapshot.observed \in 0..Window
  BY <1>2, <1>3, <1>4, AgeOfReceipt DEF PartsFit
<1>6. /\ k.head = y.head /\ k.selection.provider = Pinned /\ k.limits.cost = k.selection.cost
      /\ k.limits.cost <= MaxCost /\ k.selection = Selection(Comparison(s, v))
      /\ VerificationFits(s, v, y)
  BY <1>2, <1>3 DEF PartsFit
<1>7. k.selection.among = Cardinality(Provider)
  BY <1>6, AllAreEligible DEF VerificationFits
<1>8. k.strict # k.wire
  BY <1>3, SchemasDiffer DEF PartsFit
<1>9. /\ k.ingestion.strict = k.strict /\ k.ingestion.wire = k.wire
      /\ k.termination.assignment = k.matrix.assignment /\ k.termination.request = k.matrix
  BY <1>3 DEF PartsFit, Ingestion, Termination
<1>10. z.hashes.strict = k.strict /\ z.hashes.wire = k.wire /\ z.hashes.matrix = k.matrix
  BY <1>3 DEF HashesOf
<1> QED BY <1>1, <1>5, <1>6, <1>7, <1>8, <1>9, <1>10 DEF Validated

(* PhaseInvariant, for all snapshots, prices, windows, models and bounds:  *)
(* accepted records are of the generation they were handed with, nothing   *)
(* that is demanded of a rehearsal is in its way, and an accepted packet   *)
(* names the cheapest provider, is of one piece and passes both of its     *)
(* validators.                                                             *)
THEOREM PhaseInvariantHolds == PhaseSpec => []PhaseInvariant
<1>1. PhaseInv => PhaseInvariant
  BY NothingIsInTheWay, ConfirmedIsOneGeneration, PacketIsCheapest, ValidatorsBothPass
  DEF PhaseInv, PhaseInvariant
<1> QED BY <1>1, InitPhaseInv, NextPhaseInv, PTL DEF PhaseSpec

-----------------------------------------------------------------------------
(* The documents of a request (RequestDocuments.tla).                      *)

LEMMA LeastOfTwo ==
    ASSUME NEW a \in Nat, NEW b \in Nat
    PROVE  Least(a, b) \in Nat /\ Least(a, b) <= a /\ Least(a, b) <= b /\ Least(a, b) \in {a, b}
  BY DEF Least

(* What one writer makes, document by document.                            *)
BoundTo(d, k) ==
    [provider |-> d.bound, envelope |-> k.envelope,
     render |-> RenderOf(d.bound, k.assignment, k.prompt, d.schema)]

LEMMA DocsShape ==
    ASSUME NEW t, NEW s, NEW d
    PROVE  LET k == DocsOf(t, s, d)
           IN
           /\ k.task = t /\ k.assignment = AssignmentOf(t, d) /\ k.fanout = FanoutOf(k.assignment)
           /\ k.target = TargetOf(k.assignment, s) /\ k.capability = CapabilityOf(k.assignment, k.target)
           /\ k.prompt = PromptOf(t, d.spoken, d.schema) /\ k.schema = d.schema
           /\ k.render = RenderOf(d.to, k.assignment, k.prompt, d.schema)
           /\ k.envelope = EnvelopeOf(k.assignment, k.target, k.capability, k.prompt,
                                      RenderOf(d.named, k.assignment, k.prompt, d.schema), d.asked)
           /\ k.smoke = SmokeOf(k.fanout, k.assignment, k.target, k.capability, k.envelope)
           /\ k.prep.provider = d.to /\ k.prep.host = d.to /\ k.prep.smoke = k.smoke
           /\ k.prep.tokens = d.tokens /\ k.prep.cost = d.cost /\ k.prep.binding = BoundTo(d, k)
<1>0. PICK k : k = DocsOf(t, s, d)
  OBVIOUS
<1>1. PICK a, target, capability, prompt, envelope, smoke, sent :
        /\ a = AssignmentOf(t, d) /\ target = TargetOf(a, s) /\ capability = CapabilityOf(a, target)
        /\ prompt = PromptOf(t, d.spoken, d.schema)
        /\ envelope = EnvelopeOf(a, target, capability, prompt, RenderOf(d.named, a, prompt, d.schema), d.asked)
        /\ smoke = SmokeOf(FanoutOf(a), a, target, capability, envelope)
        /\ sent = RenderOf(d.bound, a, prompt, d.schema)
  OBVIOUS
<1>2. k = [task |-> t, assignment |-> a, fanout |-> FanoutOf(a), target |-> target,
           capability |-> capability, prompt |-> prompt, schema |-> d.schema,
           render |-> RenderOf(d.to, a, prompt, d.schema), envelope |-> envelope, smoke |-> smoke,
           prep |-> [provider |-> d.to, host |-> d.to, smoke |-> smoke, tokens |-> d.tokens, cost |-> d.cost,
                     binding |-> [provider |-> d.bound, envelope |-> envelope, render |-> sent]]]
  BY <1>0, <1>1, Zenon DEF DocsOf
<1>3. /\ k.task = t /\ k.assignment = a /\ k.fanout = FanoutOf(a) /\ k.target = target
      /\ k.capability = capability /\ k.prompt = prompt /\ k.schema = d.schema
      /\ k.render = RenderOf(d.to, a, prompt, d.schema) /\ k.envelope = envelope /\ k.smoke = smoke
  BY <1>2
<1>4. PICK prep, binding :
        /\ prep = k.prep /\ binding = [provider |-> d.bound, envelope |-> envelope, render |-> sent]
  OBVIOUS
<1>5. prep = [provider |-> d.to, host |-> d.to, smoke |-> smoke, tokens |-> d.tokens, cost |-> d.cost,
              binding |-> binding]
  BY <1>2, <1>4
<1>6. /\ prep.provider = d.to /\ prep.host = d.to /\ prep.smoke = smoke /\ prep.tokens = d.tokens
      /\ prep.cost = d.cost /\ prep.binding = binding
  BY <1>5
<1>7. binding = BoundTo(d, k)
  BY <1>1, <1>3, <1>4 DEF BoundTo
<1> QED BY <1>0, <1>1, <1>3, <1>4, <1>6, <1>7

(* A writer who does the straightforward thing within the task's limits    *)
(* passes every validator.                                                 *)
Straight(t, d, p) ==
    /\ d.to = p /\ d.named = p /\ d.bound = p /\ d.aim = p /\ d.spoken = d.role
    /\ d.role \in t.shape.roles /\ t.created <= d.created /\ d.created <= d.asked
    /\ d.network = FALSE /\ 1 <= d.seconds /\ d.seconds <= t.shape.seconds
    /\ LeastBytes <= d.bytes /\ d.bytes <= t.shape.bytes
    /\ d.created \in Nat /\ 1 <= d.tokens /\ d.tokens <= MaxTokens /\ 1 <= d.cost /\ d.cost <= MaxCost

LEMMA StraightFits ==
    ASSUME NEW t, NEW s, NEW p, NEW d, NEW k, k = DocsOf(t, s, d), Straight(t, d, p)
    PROVE  DocsFit(k) /\ k.prep.binding = BindingOf(k)
<1>1. PICK a, e, b, prompt :
        /\ a = k.assignment /\ e = k.envelope /\ b = k.prep.binding /\ prompt = k.prompt
  OBVIOUS
<1>2. /\ k.task = t /\ a = AssignmentOf(t, d) /\ k.fanout = FanoutOf(a)
      /\ k.target = TargetOf(a, s) /\ k.capability = CapabilityOf(a, k.target)
      /\ prompt = PromptOf(t, d.role, d.schema) /\ k.schema = d.schema
      /\ k.render = RenderOf(p, a, prompt, d.schema)
      /\ e = EnvelopeOf(a, k.target, k.capability, prompt, k.render, d.asked)
      /\ k.smoke = SmokeOf(k.fanout, a, k.target, k.capability, e)
      /\ b = [provider |-> p, envelope |-> e, render |-> k.render]
      /\ k.prep.provider = p /\ k.prep.host = p /\ k.prep.smoke = k.smoke
      /\ k.prep.tokens = d.tokens /\ k.prep.cost = d.cost
  <2>1. d.to = p /\ d.named = p /\ d.bound = p /\ d.spoken = d.role
    BY DEF Straight
  <2>2. /\ k.task = t /\ k.assignment = AssignmentOf(t, d) /\ k.fanout = FanoutOf(k.assignment)
        /\ k.target = TargetOf(k.assignment, s) /\ k.capability = CapabilityOf(k.assignment, k.target)
        /\ k.prompt = PromptOf(t, d.role, d.schema) /\ k.schema = d.schema
        /\ k.render = RenderOf(p, k.assignment, k.prompt, d.schema)
        /\ k.envelope = EnvelopeOf(k.assignment, k.target, k.capability, k.prompt, k.render, d.asked)
        /\ k.smoke = SmokeOf(k.fanout, k.assignment, k.target, k.capability, k.envelope)
    BY <2>1, DocsShape, k = DocsOf(t, s, d)
  <2>3. /\ k.prep.provider = p /\ k.prep.host = p /\ k.prep.smoke = k.smoke
        /\ k.prep.tokens = d.tokens /\ k.prep.cost = d.cost /\ k.prep.binding = BoundTo(d, k)
    BY <2>1, DocsShape, k = DocsOf(t, s, d)
  <2>4. BoundTo(d, k) = [provider |-> p, envelope |-> e, render |-> k.render]
    BY <1>1, <2>1, <2>2 DEF BoundTo
  <2> QED BY <1>1, <2>2, <2>3, <2>4
<1>3. /\ a.task = t /\ a.created = d.created /\ a.provider = p /\ a.model = d.model /\ a.role = d.role
      /\ a.transport = p /\ a.network = FALSE /\ a.seconds = d.seconds /\ a.bytes = d.bytes
  BY <1>2 DEF AssignmentOf, Straight
<1>4. AssignmentFits(k)
  <2>1. a.created >= t.created /\ a.role \in t.shape.roles
    BY <1>3 DEF Straight
  <2> QED BY <1>1, <1>2, <1>3, <2>1 DEF AssignmentFits, Straight
<1>5. FanoutFits(k) /\ TargetFits(k) /\ CapabilityFits(k)
  <2>1. k.fanout.task = a.task /\ k.fanout.of = {a} /\ k.fanout.created = a.created /\ a.created \in Nat
    BY <1>2, <1>3 DEF FanoutOf, Straight
  <2>2. k.target.of = a /\ k.target.provider = a.provider /\ k.target.model = a.model
    BY <1>2 DEF TargetOf
  <2> QED BY <1>1, <1>2, <1>3, <2>1, <2>2 DEF FanoutFits, TargetFits, CapabilityFits
<1>6. prompt.role = d.role /\ prompt.schema = d.schema /\ PromptFits(k)
  <2>1. prompt.role = d.role /\ prompt.schema = d.schema
    BY <1>2 DEF PromptOf
  <2>2. d.role \in t.shape.roles
    BY DEF Straight
  <2> QED BY <1>1, <1>2, <2>1, <2>2 DEF PromptFits
<1>7. /\ e.task = t /\ e.of = a /\ e.target = k.target /\ e.capability = k.capability
      /\ e.prompt = prompt /\ e.transport = a.transport /\ e.created = d.asked
      /\ e.egress = t.shape.evidence /\ e.payload = k.render
  BY <1>2, <1>3 DEF EnvelopeOf
<1>8. e.created >= a.created
  BY <1>3, <1>7 DEF Straight
<1>9. EnvelopeFits(k)
  BY <1>1, <1>2, <1>3, <1>6, <1>7, <1>8 DEF EnvelopeFits
<1>10. k.render.provider = p
  BY <1>2 DEF RenderOf
<1>11. RenderFits(k) /\ SmokeFits(k)
  BY <1>1, <1>2, <1>6, <1>7, <1>10 DEF RenderFits, SmokeFits
<1>12. b = BindingOf(k)
  BY <1>1, <1>2, <1>10 DEF BindingOf
<1>13. PrepFits(k)
  BY <1>1, <1>2, <1>10, <1>12 DEF PrepFits, Straight
<1> QED BY <1>1, <1>4, <1>5, <1>6, <1>9, <1>11, <1>12, <1>13 DEF DocsFit

-----------------------------------------------------------------------------
(* What the chain of validators makes of documents of any origin.          *)
LEMMA FitIsOneRequest ==
    ASSUME NEW k, DocsFit(k)
    PROVE  OneRequest(k) /\ WithinTask(k) /\ ReportOn(k, ReportOf(k))
<1>1. PICK t, a, e, render, prompt :
        t = k.task /\ a = k.assignment /\ e = k.envelope /\ render = k.render /\ prompt = k.prompt
  OBVIOUS
<1>2. PICK q : q = render.provider
  OBVIOUS
<1>3. /\ prompt = PromptOf(t, prompt.role, prompt.schema) /\ k.schema = prompt.schema
      /\ render = RenderOf(q, a, prompt, prompt.schema) /\ e.payload = render
      /\ e.prompt = prompt /\ prompt.role = a.role
  BY <1>1, <1>2 DEF DocsFit, PromptFits, EnvelopeFits, RenderFits
<1>4. PICK role, schema : role = prompt.role /\ schema = prompt.schema
  OBVIOUS
<1>5. prompt.task = t /\ prompt.role = role /\ prompt.evidence = t.shape.evidence
  BY <1>3, <1>4 DEF PromptOf
<1>6. render.model = a.model /\ render.input = prompt /\ render.schema = schema
  BY <1>3, <1>4 DEF RenderOf
<1>7. /\ k.prep.provider = q /\ k.prep.host = q /\ k.prep.smoke = k.smoke /\ k.prep.binding = BindingOf(k)
      /\ 1 <= k.prep.tokens /\ k.prep.tokens <= MaxTokens /\ 1 <= k.prep.cost /\ k.prep.cost <= MaxCost
  BY <1>1, <1>2 DEF DocsFit, PrepFits
<1>8. OneRequest(k)
  BY <1>1, <1>2, <1>3, <1>4, <1>5, <1>6, <1>7 DEF OneRequest
<1>9. WithinTask(k)
  BY <1>7 DEF DocsFit, AssignmentFits, EnvelopeFits, WithinTask
<1>10. PICK plan, target, capability, smoke, binding :
        /\ plan = k.fanout /\ target = k.target /\ capability = k.capability /\ smoke = k.smoke
        /\ binding = BindingOf(k)
  OBVIOUS
<1>11. /\ smoke = SmokeOf(plan, a, target, capability, e) /\ plan.of = {a} /\ target.of = a
       /\ binding = [provider |-> q, envelope |-> e, render |-> render]
  BY <1>1, <1>2, <1>10 DEF DocsFit, SmokeFits, FanoutFits, TargetFits, BindingOf
<1>12. /\ smoke.plan = plan /\ smoke.target = target /\ smoke.envelope = e
       /\ binding.render = render
  BY <1>11 DEF SmokeOf
<1>13. PICK prep, r : prep = k.prep /\ r = ReportOf(k)
  OBVIOUS
<1>14. r = [provider |-> q, smoke |-> smoke, binding |-> binding, prep |-> prep]
  BY <1>7, <1>10, <1>13 DEF ReportOf
<1>15. r.provider = q /\ r.smoke = smoke /\ r.binding = binding /\ r.prep = prep
  BY <1>14
<1>16. prep.binding = binding
  BY <1>7, <1>10, <1>13
<1>17. /\ r.smoke.plan.of = {a} /\ r.smoke.target.of = a /\ r.smoke.envelope.payload = r.binding.render
       /\ r.binding.render.input = prompt /\ k.smoke.envelope.prompt = prompt
       /\ r.prep.binding = r.binding /\ r.provider = r.binding.render.provider
  BY <1>2, <1>3, <1>6, <1>10, <1>11, <1>12, <1>15, <1>16
<1>18. ReportOn(k, r)
  BY <1>1, <1>17 DEF ReportOn
<1> QED BY <1>8, <1>9, <1>13, <1>18

(* The decisions a matrix is built with.                                   *)
Decisions(t, s, p, schema, role, v) ==
    [to |-> p, aim |-> p, named |-> p, bound |-> p, role |-> role, spoken |-> role,
     model |-> ListedModel[s.price][p], schema |-> schema, created |-> s.observed, asked |-> s.observed,
     adapter |-> v, network |-> FALSE, seconds |-> Least(Seconds, t.shape.seconds),
     bytes |-> Least(Bytes, t.shape.bytes), tokens |-> MaxTokens, cost |-> Cost(s, p, MaxTokens)]

LEMMA PilotShape ==
    ASSUME NEW t, NEW s, NEW p, NEW schema, NEW role, NEW v
    PROVE  LET m == Pilot(t, s, p, schema, role, v)
           IN
           /\ m.docs = DocsOf(t, s, Decisions(t, s, p, schema, role, v))
           /\ m.provider = p /\ m.entry = s /\ m.adapter = v /\ m.report = ReportOf(m.docs)
<1>1. PICK d, k, r : d = Decisions(t, s, p, schema, role, v) /\ k = DocsOf(t, s, d) /\ r = ReportOf(k)
  OBVIOUS
<1>0. PICK m : m = Pilot(t, s, p, schema, role, v)
  OBVIOUS
<1>2. m = [provider |-> p, entry |-> s, adapter |-> v, docs |-> k, report |-> r]
  BY <1>0, <1>1, Zenon DEF Pilot, Decisions
<1>3. m.provider = p /\ m.entry = s /\ m.adapter = v /\ m.docs = k /\ m.report = r
  BY <1>2
<1> QED BY <1>0, <1>1, <1>3

PilotAssignment(t, s, p, role, v) ==
    [task |-> t, created |-> s.observed, provider |-> p, model |-> ListedModel[s.price][p],
     role |-> role, adapter |-> v, transport |-> p, network |-> FALSE,
     seconds |-> Least(Seconds, t.shape.seconds), bytes |-> Least(Bytes, t.shape.bytes)]

LEMMA PilotAssigns ==
    ASSUME NEW t, NEW s, NEW p, NEW schema, NEW role, NEW v
    PROVE  LET k == Pilot(t, s, p, schema, role, v).docs
           IN
           /\ k.task = t /\ k.schema = schema /\ k.prompt.schema = schema
           /\ k.assignment = PilotAssignment(t, s, p, role, v)
           /\ k.target = TargetOf(k.assignment, s) /\ k.render = RenderOf(p, k.assignment, k.prompt, schema)
           /\ k.envelope.created = s.observed /\ k.prep.host = p /\ k.prep.cost = Cost(s, p, MaxTokens)
<1>1. PICK d, k : d = Decisions(t, s, p, schema, role, v) /\ k = Pilot(t, s, p, schema, role, v).docs
  OBVIOUS
<1>2. k = DocsOf(t, s, d)
  BY <1>1, PilotShape
<1>3. PICK seconds, bytes, model, cost :
        /\ seconds = Least(Seconds, t.shape.seconds) /\ bytes = Least(Bytes, t.shape.bytes)
        /\ model = ListedModel[s.price][p] /\ cost = Cost(s, p, MaxTokens)
  OBVIOUS
<1>4. /\ d.to = p /\ d.aim = p /\ d.named = p /\ d.role = role /\ d.spoken = role
      /\ d.model = model /\ d.schema = schema /\ d.created = s.observed
      /\ d.asked = s.observed /\ d.adapter = v /\ d.network = FALSE /\ d.seconds = seconds
      /\ d.bytes = bytes /\ d.cost = cost
  BY <1>1, <1>3 DEF Decisions
<1>5. /\ k.task = t /\ k.schema = d.schema /\ k.assignment = AssignmentOf(t, d)
      /\ k.prompt = PromptOf(t, d.spoken, d.schema)
      /\ k.target = TargetOf(k.assignment, s) /\ k.render = RenderOf(d.to, k.assignment, k.prompt, d.schema)
  BY <1>2, DocsShape
<1>6. k.prompt.schema = schema
  BY <1>4, <1>5 DEF PromptOf
<1>7. k.assignment = [task |-> t, created |-> s.observed, provider |-> p, model |-> model, role |-> role,
                      adapter |-> v, transport |-> p, network |-> FALSE, seconds |-> seconds, bytes |-> bytes]
  BY <1>4, <1>5 DEF AssignmentOf
<1>15. k.assignment = PilotAssignment(t, s, p, role, v)
  BY <1>3, <1>7 DEF PilotAssignment
<1>8. PICK a, target, capability, prompt, sent :
        /\ a = k.assignment /\ target = k.target /\ capability = k.capability /\ prompt = k.prompt
        /\ sent = RenderOf(d.named, k.assignment, k.prompt, d.schema)
  OBVIOUS
<1>9. k.envelope = EnvelopeOf(a, target, capability, prompt, sent, d.asked)
  BY <1>2, <1>8, DocsShape
<1>10. k.envelope.created = s.observed
  BY <1>4, <1>9 DEF EnvelopeOf
<1>13. k.prep.host = p /\ k.prep.cost = cost
  BY <1>2, <1>4, DocsShape
<1> QED BY <1>1, <1>3, <1>4, <1>5, <1>6, <1>10, <1>13, <1>15

LEMMA CostIsPositive ==
    ASSUME NEW s \in Snapshot, NEW p \in Provider
    PROVE  Cost(s, p, MaxTokens) \in Nat /\ 1 <= Cost(s, p, MaxTokens)
<1>1. s.price[p] \in Nat \ {0} /\ Scale \in Nat \ {0} /\ MaxTokens \in Nat \ {0}
  BY LaunchAssumption DEF Snapshot
<1>2. PICK price, cost \in Nat : price = s.price[p] /\ cost = Cost(s, p, MaxTokens)
  BY <1>1, CostBounds
<1>3. MaxTokens * price <= Scale * cost
  BY <1>1, <1>2, CostBounds
<1>4. MaxTokens * price > 0
  BY <1>1, <1>2
<1>5. cost # 0
  BY <1>1, <1>2, <1>3, <1>4
<1> QED BY <1>2, <1>5

(* NothingRefused, of the matrix.                                          *)
LEMMA PilotIsNotRefused ==
    ASSUME NEW t \in [shape : TaskShape, created : Nat], NEW s \in Snapshot, NEW p \in Provider,
           NEW schema, NEW role \in t.shape.roles, NEW v,
           Candidate(s, p, MaxTokens), t.created <= s.observed
    PROVE  PilotBuilds(t, s, p, schema, role, v)
<1>1. PICK d, k : d = Decisions(t, s, p, schema, role, v) /\ k = DocsOf(t, s, d)
  OBVIOUS
<1>2. PICK seconds, bytes, model, cost :
        /\ seconds = Least(Seconds, t.shape.seconds) /\ bytes = Least(Bytes, t.shape.bytes)
        /\ model = ListedModel[s.price][p] /\ cost = Cost(s, p, MaxTokens)
  OBVIOUS
<1>3. /\ d.to = p /\ d.aim = p /\ d.named = p /\ d.bound = p /\ d.role = role /\ d.spoken = role
      /\ d.created = s.observed /\ d.asked = s.observed /\ d.network = FALSE /\ d.seconds = seconds
      /\ d.bytes = bytes /\ d.tokens = MaxTokens /\ d.cost = cost
  BY <1>1, <1>2 DEF Decisions
<1>4. t.shape.seconds \in Nat \ {0} /\ t.shape.bytes \in Nat /\ LeastBytes <= t.shape.bytes
      /\ Seconds \in Nat \ {0} /\ Bytes \in Nat /\ LeastBytes \in Nat /\ LeastBytes <= Bytes
  BY RequestAssumption
<1>5. 1 <= seconds /\ seconds <= t.shape.seconds /\ LeastBytes <= bytes /\ bytes <= t.shape.bytes
  BY <1>2, <1>4 DEF Least
<1>6. s.observed \in Nat /\ MaxTokens \in Nat \ {0} /\ MaxCost \in Nat
  BY LaunchAssumption, RequestAssumption DEF Snapshot, LaunchTime
<1>7. cost \in Nat /\ cost >= 1 /\ cost <= MaxCost
  BY <1>2, <1>6, CostIsPositive DEF Candidate
<1>8. Straight(t, d, p)
  BY <1>3, <1>5, <1>6, <1>7 DEF Straight
<1>9. DocsFit(k)
  BY <1>1, <1>8, StraightFits
<1>10. k = Pilot(t, s, p, schema, role, v).docs
  BY <1>1, PilotShape
<1> QED BY <1>9, <1>10 DEF PilotBuilds

-----------------------------------------------------------------------------
(* A round trip.                                                           *)
LEMMA TripPilotShape ==
    ASSUME NEW kind, NEW t, NEW s, NEW p, NEW schema, NEW v
    PROVE  LET m == TripPilot(kind, t, s, p, schema, v)
           IN  \E other : /\ m = Pilot(t, s, p, other, PilotRole, v)
                          /\ kind = Again => other = ResultSchema(m.docs.assignment)
<1>0. PICK m : m = TripPilot(kind, t, s, p, schema, v)
  OBVIOUS
<1>1. PICK known : known = Pilot(t, s, p, schema, PilotRole, v).docs.assignment
  OBVIOUS
<1>2. PICK other : other = IF kind = Again THEN ResultSchema(known) ELSE schema
  OBVIOUS
<1>3. m = Pilot(t, s, p, other, PilotRole, v)
  BY <1>0, <1>1, <1>2 DEF TripPilot
<1>4. m.docs.assignment = known
  BY <1>1, <1>3, PilotAssigns
<1> QED BY <1>0, <1>2, <1>3, <1>4

(* The round trip of what the matrix of these inputs is.                   *)
TripOf(kind, t, s, p, schema, v) == TripOn(kind, t, p, TripPilot(kind, t, s, p, schema, v))

LEMMA TripShape ==
    ASSUME NEW kind, NEW t, NEW s, NEW p, NEW schema, NEW v
    PROVE  LET x == TripOf(kind, t, s, p, schema, v)
               a == x.matrix.docs.assignment
           IN  /\ x.kind = kind /\ x.matrix = TripPilot(kind, t, s, p, schema, v)
               /\ x.result = Simulated(a)
               /\ x.seen.provider = p /\ x.seen.model = a.model /\ x.seen.state = "COMPLETED"
               /\ kind = Again => x.seen.text = Simulated(a)
               /\ x.ended.of = a /\ x.ended.request = x.matrix.docs.envelope
               /\ x.ended.state = "COMPLETED" /\ x.ended.at = 5
               /\ x.receipt.task = t /\ x.receipt.of = a /\ x.receipt.request = x.matrix.docs.envelope
               /\ x.receipt.ended = x.ended /\ x.receipt.result = x.result /\ x.receipt.provider = a.provider
               /\ x.receipt.model = x.seen.model /\ x.receipt.adapter = a.adapter
               /\ x.receipt.answer = x.seen.text
               /\ x.receipt.started = 1 /\ x.receipt.received = 5 /\ x.receipt.recorded = 7
<1>0. PICK x : x = TripOf(kind, t, s, p, schema, v)
  OBVIOUS
<1>1. PICK m, a, seen, result, envelope :
        /\ m = TripPilot(kind, t, s, p, schema, v) /\ a = m.docs.assignment /\ seen = SeenOf(kind, p, a)
        /\ result = Simulated(a) /\ envelope = m.docs.envelope
  OBVIOUS
<1>2. /\ seen.provider = p /\ seen.model = a.model /\ seen.state = "COMPLETED"
      /\ kind = Again => seen.text = result
  BY <1>1 DEF SeenOf
<1>3. PICK ended : ended = [of |-> a, request |-> envelope, state |-> seen.state, at |-> 5]
  OBVIOUS
<1>4. PICK receipt :
        receipt = [task |-> t, of |-> a, request |-> envelope, ended |-> ended, result |-> result,
                   provider |-> a.provider, model |-> seen.model, adapter |-> a.adapter,
                   answer |-> seen.text, started |-> 1, received |-> 5, recorded |-> 7]
  OBVIOUS
<1>5. x = [kind |-> kind, matrix |-> m, seen |-> seen, ended |-> ended, result |-> result,
           receipt |-> receipt]
  <2>1. x = TripOn(kind, t, p, m)
    BY <1>0, <1>1 DEF TripOf
  <2> QED BY <1>1, <1>3, <1>4, <2>1, Zenon DEF TripOn
<1>6. /\ x.kind = kind /\ x.matrix = m /\ x.seen = seen /\ x.ended = ended /\ x.result = result
      /\ x.receipt = receipt
  BY <1>5
<1>7. ended.of = a /\ ended.request = envelope /\ ended.state = "COMPLETED" /\ ended.at = 5
  BY <1>2, <1>3
<1>8. /\ receipt.task = t /\ receipt.of = a /\ receipt.request = envelope /\ receipt.ended = ended
      /\ receipt.result = result /\ receipt.provider = a.provider /\ receipt.model = seen.model
      /\ receipt.adapter = a.adapter /\ receipt.answer = seen.text
      /\ receipt.started = 1 /\ receipt.received = 5 /\ receipt.recorded = 7
  BY <1>4
<1> QED BY <1>0, <1>1, <1>2, <1>6, <1>7, <1>8

LEMMA SimulatedShape ==
    ASSUME NEW a
    PROVE  LET r == Simulated(a)
           IN
           /\ r.for = a /\ r.by = [provider |-> a.provider, model |-> a.model, role |-> a.role]
           /\ r.status = "COMPLETED" /\ r.at = 6
<1>0. PICK r : r = Simulated(a)
  OBVIOUS
<1>1. PICK by : by = [provider |-> a.provider, model |-> a.model, role |-> a.role]
  OBVIOUS
<1>2. r = [for |-> a, by |-> by, status |-> "COMPLETED", at |-> 6]
  BY <1>0, <1>1 DEF Simulated
<1> QED BY <1>0, <1>1, <1>2

(* NothingRefused, of the round trip.                                      *)
LEMMA TripIsNotRefused ==
    ASSUME NEW t \in [shape : TaskShape, created : Nat], NEW s \in Snapshot, NEW p \in Provider,
           NEW schema, NEW v, NEW kind \in {First, Again},
           PilotRole \in t.shape.roles, Candidate(s, p, MaxTokens), t.created <= s.observed,
           Citable(kind, t) # {}, ResultBytes <= Least(Bytes, t.shape.bytes)
    PROVE  TripBuilds(kind, t, s, p, schema, v)
<1>1. PICK x, m, k, a, r :
        /\ x = TripOf(kind, t, s, p, schema, v) /\ m = TripPilot(kind, t, s, p, schema, v)
        /\ k = m.docs /\ a = k.assignment /\ r = Simulated(a)
  OBVIOUS
<1>2. PICK other : m = Pilot(t, s, p, other, PilotRole, v)
  BY <1>1, TripPilotShape
<1>3. PilotBuilds(t, s, p, schema, PilotRole, v) /\ PilotBuilds(t, s, p, other, PilotRole, v)
  BY PilotIsNotRefused
<1>4. DocsFit(k)
  BY <1>1, <1>2, <1>3 DEF PilotBuilds
<1>5. PICK bytes : bytes = Least(Bytes, t.shape.bytes)
  OBVIOUS
<1>6. k.task = t /\ k.target = TargetOf(a, s) /\ a = PilotAssignment(t, s, p, PilotRole, v)
  BY <1>1, <1>2, PilotAssigns
<1>7. a.bytes = bytes /\ k.target.model = a.model
  BY <1>5, <1>6 DEF TargetOf, PilotAssignment
<1>8. /\ r.for = a /\ r.by = [provider |-> a.provider, model |-> a.model, role |-> a.role]
      /\ r.status = "COMPLETED" /\ r.at = 6
  BY <1>1, SimulatedShape
<1>9. PICK seen, ended, receipt : seen = x.seen /\ ended = x.ended /\ receipt = x.receipt
  OBVIOUS
<1>10. /\ x.matrix = m /\ x.result = r /\ seen.model = a.model /\ seen.state = "COMPLETED"
       /\ kind = Again => seen.text = r
       /\ ended.of = a /\ ended.request = k.envelope /\ ended.state = "COMPLETED" /\ ended.at = 5
  BY <1>1, <1>9, TripShape
<1>11. /\ receipt.task = t /\ receipt.of = a /\ receipt.request = k.envelope /\ receipt.ended = ended
       /\ receipt.result = r /\ receipt.provider = a.provider /\ receipt.model = seen.model
       /\ receipt.adapter = a.adapter /\ receipt.answer = seen.text
       /\ receipt.started = 1 /\ receipt.received = 5 /\ receipt.recorded = 7
  BY <1>1, <1>9, TripShape
<1>12. EndedFits(k, x) /\ ResultFits(k, x.result) /\ SeenFits(x)
  BY <1>1, <1>8, <1>9, <1>10, <1>11 DEF EndedFits, ResultFits, SeenFits
<1>13. kind = Again => DecodedFits(k, x)
  BY <1>1, <1>5, <1>7, <1>8, <1>9, <1>10 DEF DecodedFits, ResultFits
<1>14. ReceiptAccepted(k, x)
  <2>1. /\ receipt.task = k.task /\ receipt.of = k.assignment /\ receipt.request = k.envelope
        /\ receipt.ended = x.ended /\ receipt.result = x.result
        /\ receipt.provider = k.assignment.provider /\ receipt.model = k.target.model
        /\ receipt.adapter = k.assignment.adapter
    BY <1>1, <1>6, <1>7, <1>9, <1>10, <1>11
  <2>2. /\ receipt.started >= 0 /\ receipt.received >= receipt.started /\ receipt.received = ended.at
        /\ r.at >= receipt.received /\ receipt.recorded >= r.at
    BY <1>8, <1>10, <1>11
  <2>3. (r.status = "COMPLETED") = (ended.state = "COMPLETED")
    BY <1>8, <1>10
  <2> QED BY <1>9, <1>10, <2>1, <2>2, <2>3 DEF ReceiptAccepted
<1>15. TripFits(kind, t, x)
  BY <1>1, <1>10, <1>12, <1>13, <1>14 DEF TripFits
<1> QED BY <1>1, <1>3, <1>4, <1>15 DEF TripBuilds, TripOf

-----------------------------------------------------------------------------
(* What was accepted was so when it was accepted, and stays so.            *)
PilotSound(y) ==
    LET m == y.matrix
    IN  /\ y.snapshot \in Snapshot /\ m.provider \in Provider
        /\ \E role : /\ PilotBuilds(y.task, y.snapshot, m.provider, y.schema, role, y.at)
                     /\ m = Pilot(y.task, y.snapshot, m.provider, y.schema, role, y.at)

TripSound(z) ==
    \E kind \in {First, Again}, schema \in AnySchema :
        /\ z.task \in [shape : TaskShape, created : Nat]
        /\ TripBuilds(kind, z.task, z.snapshot, z.provider, schema, z.at)
        /\ z.trip = TripOf(kind, z.task, z.snapshot, z.provider, schema, z.at)

RequestInv ==
    /\ LaunchInv
    /\ tasks \subseteq [shape : TaskShape, created : Nat]
    /\ \A x \in ready : DocsFit(x.docs) /\ x.report = ReportOf(x.docs)
    /\ \A y \in pilots : PilotSound(y)
    /\ \A z \in trips : TripSound(z)

LEMMA InitRequestInv == RequestInit => RequestInv
  BY InitLaunchInv DEF RequestInit, RequestInv

LEMMA PrepareKeeps == ASSUME RequestInv, UNCHANGED launchVars, Prepare PROVE RequestInv'
<1>1. PICK x : DocsFit(x) /\ ready' = ready \cup {[docs |-> x, report |-> ReportOf(x)]}
  BY DEF Prepare
<1>2. PICK r, w : r = ReportOf(x) /\ w = [docs |-> x, report |-> r]
  OBVIOUS
<1>3. w.docs = x /\ w.report = r
  BY <1>2
<1>4. DocsFit(w.docs) /\ w.report = ReportOf(w.docs)
  BY <1>1, <1>2, <1>3
<1>5. LaunchInv' /\ UNCHANGED <<tasks, pilots, trips>>
  BY DEF RequestInv, LaunchInv, LaunchSound, RehearsalSound, launchVars, Prepare
<1>6. ready' = ready \cup {w}
  BY <1>1, <1>2
<1> QED BY <1>4, <1>5, <1>6 DEF RequestInv

LEMMA ConfirmPilotKeeps == ASSUME RequestInv, UNCHANGED launchVars, ConfirmPilot PROVE RequestInv'
<1>1. PICK u \in tasks, r \in catalog, p \in Provider, other \in AnySchema, v \in 0..adapter :
        \E t \in tasks, s \in catalog, schema \in AnySchema : \E role \in u.shape.roles :
            LET m == Pilot(u, r, p, other, role, v)
            IN  /\ PilotFits(t, s, schema, m)
                /\ pilots' = pilots \cup
                       {[task |-> t, snapshot |-> s, schema |-> schema, matrix |-> m, at |-> adapter]}
  BY DEF ConfirmPilot
<1>2. PICK t \in tasks, s \in catalog, schema \in AnySchema : \E role \in u.shape.roles :
            LET m == Pilot(u, r, p, other, role, v)
            IN  /\ PilotFits(t, s, schema, m)
                /\ pilots' = pilots \cup
                       {[task |-> t, snapshot |-> s, schema |-> schema, matrix |-> m, at |-> adapter]}
  BY <1>1
<1>3. PICK role, m :
        /\ m = Pilot(u, r, p, other, role, v) /\ PilotFits(t, s, schema, m)
        /\ pilots' = pilots \cup {[task |-> t, snapshot |-> s, schema |-> schema, matrix |-> m, at |-> adapter]}
  BY <1>2
<1>4. m.provider = p
  BY <1>3, PilotShape
<1>5. PICK y, a : y = [task |-> t, snapshot |-> s, schema |-> schema, matrix |-> m, at |-> a] /\ a = adapter
  OBVIOUS
<1>6. y.task = t /\ y.snapshot = s /\ y.schema = schema /\ y.matrix = m /\ y.at = a
  BY <1>5
<1>7. \E some : PilotBuilds(t, s, m.provider, schema, some, a) /\ m = Pilot(t, s, m.provider, schema, some, a)
  BY <1>3, <1>5 DEF PilotFits
<1>8. s \in Snapshot
  BY <1>2 DEF RequestInv, LaunchInv
<1>9. PilotSound(y)
  BY <1>1, <1>4, <1>6, <1>7, <1>8 DEF PilotSound
<1>10. pilots' = pilots \cup {y}
  BY <1>3, <1>5
<1>11. LaunchInv' /\ UNCHANGED <<tasks, ready, trips>>
  BY DEF RequestInv, LaunchInv, LaunchSound, RehearsalSound, launchVars, ConfirmPilot
<1> QED BY <1>9, <1>10, <1>11 DEF RequestInv

LEMMA ConfirmTripKeeps == ASSUME RequestInv, UNCHANGED launchVars, ConfirmTrip PROVE RequestInv'
<1>1. PICK kind, t, s, p, schema, x :
        /\ kind \in {First, Again} /\ t \in tasks /\ schema \in AnySchema
        /\ TripBuilds(kind, t, s, p, schema, adapter) /\ x = TripOf(kind, t, s, p, schema, adapter)
        /\ trips' = trips \cup {[task |-> t, snapshot |-> s, provider |-> p, trip |-> x, at |-> adapter]}
  <2>1. PICK kind \in {First, Again}, t \in tasks, u \in tasks, s \in catalog, r \in catalog,
            p \in Provider, q \in Provider, schema \in AnySchema, v \in 0..adapter :
          \E m \in {TripPilot(kind, u, r, q, schema, v)}, n \in {TripPilot(kind, t, s, p, schema, adapter)} :
              /\ TripBuilds(kind, t, s, p, schema, adapter)
              /\ TripOn(kind, u, q, m) = TripOn(kind, t, p, n)
              /\ trips' = trips \cup
                     {[task |-> t, snapshot |-> s, provider |-> p, trip |-> TripOn(kind, u, q, m),
                       at |-> adapter]}
    BY DEF ConfirmTrip
  <2>2. PICK m \in {TripPilot(kind, u, r, q, schema, v)}, n \in {TripPilot(kind, t, s, p, schema, adapter)} :
          /\ TripBuilds(kind, t, s, p, schema, adapter) /\ TripOn(kind, u, q, m) = TripOn(kind, t, p, n)
          /\ trips' = trips \cup
                 {[task |-> t, snapshot |-> s, provider |-> p, trip |-> TripOn(kind, u, q, m), at |-> adapter]}
    BY <2>1
  <2>3. PICK x : x = TripOn(kind, u, q, m)
    OBVIOUS
  <2>4. x = TripOf(kind, t, s, p, schema, adapter)
    BY <2>2, <2>3 DEF TripOf
  <2> QED BY <2>1, <2>2, <2>3, <2>4
<1>2. PICK z, a : z = [task |-> t, snapshot |-> s, provider |-> p, trip |-> x, at |-> a] /\ a = adapter
  OBVIOUS
<1>3. z.task = t /\ z.snapshot = s /\ z.provider = p /\ z.trip = x /\ z.at = a
  BY <1>2
<1>4. TripSound(z)
  BY <1>1, <1>2, <1>3 DEF TripSound, RequestInv
<1>5. trips' = trips \cup {z}
  BY <1>1, <1>2
<1>6. LaunchInv' /\ UNCHANGED <<tasks, ready, pilots>>
  BY DEF RequestInv, LaunchInv, LaunchSound, RehearsalSound, launchVars, ConfirmTrip
<1> QED BY <1>4, <1>5, <1>6 DEF RequestInv

LEMMA NextRequestInv == RequestInv /\ [RequestNext]_<<launchVars, requestVars>> => RequestInv'
<1> SUFFICES ASSUME RequestInv, [RequestNext]_<<launchVars, requestVars>> PROVE RequestInv'
  OBVIOUS
<1>1. CASE (ClockTicks \/ Observe) /\ UNCHANGED requestVars
  <2>1. LaunchInv'
    BY <1>1, NextLaunchInv DEF RequestInv, LaunchNext
  <2> QED BY <1>1, <2>1 DEF RequestInv, requestVars
<1>2. CASE WriteTask /\ UNCHANGED launchVars
  <2>1. PICK shape \in TaskShape : tasks' = tasks \cup {[shape |-> shape, created |-> clock]}
    BY <1>2 DEF WriteTask
  <2>2. clock \in Nat
    BY LaunchAssumption DEF RequestInv, LaunchInv, LaunchTime
  <2>3. LaunchInv' /\ UNCHANGED <<ready, pilots, trips>>
    BY <1>2 DEF RequestInv, LaunchInv, LaunchSound, RehearsalSound, launchVars, WriteTask
  <2> QED BY <2>1, <2>2, <2>3 DEF RequestInv
<1>3. CASE EditAdapter /\ UNCHANGED launchVars
  BY <1>3 DEF RequestInv, LaunchInv, LaunchSound, RehearsalSound, launchVars, EditAdapter
<1>4. CASE UNCHANGED <<launchVars, requestVars>>
  BY <1>4 DEF RequestInv, LaunchInv, LaunchSound, RehearsalSound, launchVars, requestVars
<1> QED BY <1>1, <1>2, <1>3, <1>4, PrepareKeeps, ConfirmPilotKeeps, ConfirmTripKeeps DEF RequestNext

LEMMA PilotsAreCurrent == ASSUME RequestInv PROVE PilotIsCurrent
<1> SUFFICES ASSUME NEW y \in pilots
             PROVE  LET k == y.matrix.docs  a == k.assignment  host == k.prep.host
                    IN  /\ k.task = y.task /\ y.matrix.entry = y.snapshot /\ a.adapter = y.at
                        /\ a.provider = host /\ k.render.provider = host
                        /\ k.render.model = ListedModel[y.snapshot.price][host]
                        /\ MaxTokens * y.snapshot.price[host] <= Scale * k.prep.cost /\ k.prep.cost <= MaxCost
                        /\ y.task.created <= y.snapshot.observed /\ k.envelope.created = y.snapshot.observed
                        /\ OneRequest(k) /\ WithinTask(k) /\ ReportOn(k, y.matrix.report)
  BY DEF PilotIsCurrent
<1>1. PICK t, s, p, schema, v, m, k, a :
        /\ t = y.task /\ s = y.snapshot /\ m = y.matrix /\ p = m.provider /\ schema = y.schema /\ v = y.at
        /\ k = m.docs /\ a = k.assignment
  OBVIOUS
<1>2. PICK role : PilotBuilds(t, s, p, schema, role, v) /\ m = Pilot(t, s, p, schema, role, v)
  BY <1>1 DEF RequestInv, PilotSound
<1>3. s \in Snapshot /\ p \in Provider
  BY <1>1 DEF RequestInv, PilotSound
<1>4. m.entry = s /\ m.report = ReportOf(k)
  BY <1>1, <1>2, PilotShape
<1>5. /\ k.task = t /\ a = PilotAssignment(t, s, p, role, v)
      /\ k.render = RenderOf(p, a, k.prompt, schema) /\ k.envelope.created = s.observed
      /\ k.prep.host = p /\ k.prep.cost = Cost(s, p, MaxTokens)
  BY <1>1, <1>2, PilotAssigns
<1>6. /\ a.provider = p /\ a.adapter = v /\ a.model = ListedModel[s.price][p] /\ a.created = s.observed
  BY <1>5 DEF PilotAssignment
<1>7. k.render.provider = p /\ k.render.model = a.model
  BY <1>5 DEF RenderOf
<1>8. DocsFit(k) /\ Candidate(s, p, MaxTokens)
  BY <1>1, <1>2 DEF PilotBuilds
<1>9. OneRequest(k) /\ WithinTask(k) /\ ReportOn(k, m.report)
  BY <1>4, <1>8, FitIsOneRequest
<1>10. t.created <= s.observed
  BY <1>1, <1>5, <1>6, <1>8 DEF DocsFit, AssignmentFits
<1>11. MaxTokens \in Nat
  BY LaunchAssumption
<1>12. MaxTokens * s.price[p] <= Scale * Cost(s, p, MaxTokens)
  BY <1>3, <1>11, CostBounds
<1>13. Cost(s, p, MaxTokens) <= MaxCost
  BY <1>8 DEF Candidate
<1> QED BY <1>1, <1>4, <1>5, <1>6, <1>7, <1>9, <1>10, <1>12, <1>13

LEMMA TripsAreDecoded == ASSUME RequestInv PROVE TripIsDecoded
<1> SUFFICES ASSUME NEW z \in trips
             PROVE  LET x == z.trip  k == x.matrix.docs
                    IN  /\ k.task = z.task /\ k.assignment.provider = z.provider /\ k.assignment.adapter = z.at
                        /\ k.target.evidence = z.snapshot /\ x.seen.provider = k.prep.host
                        /\ x.ended.request = k.envelope /\ x.receipt.ended = x.ended
                        /\ x.receipt.result = x.result
                        /\ x.result.for = k.assignment /\ x.seen.model = k.render.model
                        /\ x.receipt.answer = x.seen.text /\ x.receipt.received <= x.result.at
                        /\ (x.kind = Again =>
                                /\ x.seen.text = x.result /\ ResultBytes <= k.task.shape.bytes
                                /\ k.render.schema = ResultSchema(k.assignment))
  BY DEF TripIsDecoded
<1>1. PICK t, s, p, v, x, m, k, a :
        /\ t = z.task /\ s = z.snapshot /\ p = z.provider /\ v = z.at /\ x = z.trip /\ m = x.matrix
        /\ k = m.docs /\ a = k.assignment
  OBVIOUS
<1>2. PICK kind \in {First, Again}, schema \in AnySchema :
        /\ t \in [shape : TaskShape, created : Nat]
        /\ TripBuilds(kind, t, s, p, schema, v) /\ x = TripOf(kind, t, s, p, schema, v)
  BY <1>1 DEF RequestInv, TripSound
<1>3. m = TripPilot(kind, t, s, p, schema, v)
  BY <1>1, <1>2, TripShape
<1>4. PICK other : m = Pilot(t, s, p, other, PilotRole, v) /\ (kind = Again => other = ResultSchema(a))
  BY <1>1, <1>3, TripPilotShape
<1>5. /\ k.task = t /\ a = PilotAssignment(t, s, p, PilotRole, v) /\ k.target = TargetOf(a, s)
      /\ k.render = RenderOf(p, a, k.prompt, other) /\ k.prep.host = p
  BY <1>1, <1>4, PilotAssigns
<1>6. a.provider = p /\ a.adapter = v /\ a.bytes = Least(Bytes, t.shape.bytes)
  BY <1>5 DEF PilotAssignment
<1>7. k.target.evidence = s /\ k.render.model = a.model /\ k.render.schema = other
  BY <1>5 DEF TargetOf, RenderOf
<1>8. PICK seen, ended, receipt, r : seen = x.seen /\ ended = x.ended /\ receipt = x.receipt /\ r = x.result
  OBVIOUS
<1>9. /\ x.kind = kind /\ r = Simulated(a) /\ seen.provider = p /\ seen.model = a.model
      /\ ended.request = k.envelope /\ receipt.ended = ended /\ receipt.result = r
      /\ receipt.answer = seen.text /\ receipt.received = 5
      /\ kind = Again => seen.text = Simulated(a)
  BY <1>1, <1>2, <1>8, TripShape
<1>13. r = Simulated(a)
  BY <1>9
<1>10. r.for = a /\ r.at = 6
  BY <1>13, SimulatedShape
<1>11. receipt.received <= r.at
  BY <1>9, <1>10
<1>12. ASSUME kind = Again PROVE ResultBytes <= t.shape.bytes
  <2>1. TripFits(kind, t, TripOf(kind, t, s, p, schema, v))
    BY <1>2 DEF TripBuilds, TripOf
  <2>2. TripFits(kind, t, x)
    BY <1>2, <2>1
  <2>3. DecodedFits(k, x)
    BY <1>1, <1>12, <2>2 DEF TripFits
  <2>4. ResultBytes <= Least(Bytes, t.shape.bytes)
    BY <1>1, <1>6, <2>3 DEF DecodedFits
  <2>5. ResultBytes \in Nat /\ Bytes \in Nat /\ t.shape.bytes \in Nat
    BY <1>2, RequestAssumption
  <2> QED BY <2>4, <2>5 DEF Least
<1> QED BY <1>1, <1>4, <1>5, <1>6, <1>7, <1>8, <1>9, <1>10, <1>11, <1>12

LEMMA NothingIsRefused == ASSUME RequestInv PROVE NothingRefused
<1> SUFFICES ASSUME NEW t \in tasks, NEW s \in catalog, NEW host \in Provider, NEW schema \in AnySchema,
                    PilotRole \in t.shape.roles, Candidate(s, host, MaxTokens), t.created <= s.observed
             PROVE  /\ PilotBuilds(t, s, host, schema, PilotRole, adapter)
                    /\ \A kind \in {First, Again} :
                          (Citable(kind, t) # {} /\ ResultBytes <= Least(Bytes, t.shape.bytes)) =>
                              TripBuilds(kind, t, s, host, schema, adapter)
  BY DEF NothingRefused
<1>1. t \in [shape : TaskShape, created : Nat] /\ s \in Snapshot
  BY DEF RequestInv, LaunchInv
<1>2. PilotBuilds(t, s, host, schema, PilotRole, adapter)
  BY <1>1, PilotIsNotRefused
<1>3. ASSUME NEW kind \in {First, Again}, Citable(kind, t) # {}, ResultBytes <= Least(Bytes, t.shape.bytes)
      PROVE  TripBuilds(kind, t, s, host, schema, adapter)
  BY <1>1, <1>3, TripIsNotRefused
<1> QED BY <1>2, <1>3

(* RequestInvariant, for all tasks, catalogs, prices, ceilings, writers    *)
(* and mixtures of documents: what is ready is one request, what was       *)
(* rebuilt is of its task, its catalog and the adapters of then, a round   *)
(* trip is of one request and decodes to its result, and the validators    *)
(* refuse nothing that the repository makes itself.                        *)
THEOREM RequestInvariantHolds == RequestSpec => []RequestInvariant
<1>1. RequestInv => LaunchInvariant
  BY LaunchInvIsEnough DEF RequestInv
<1>2. RequestInv => ReadyIsOneRequest
  <2> SUFFICES ASSUME RequestInv, NEW x \in ready
               PROVE  OneRequest(x.docs) /\ WithinTask(x.docs) /\ ReportOn(x.docs, x.report)
    BY DEF ReadyIsOneRequest
  <2>1. DocsFit(x.docs) /\ x.report = ReportOf(x.docs)
    BY DEF RequestInv
  <2> QED BY <2>1, FitIsOneRequest
<1>3. RequestInv => RequestInvariant
  BY <1>1, <1>2, PilotsAreCurrent, TripsAreDecoded, NothingIsRefused DEF RequestInvariant
<1> QED BY <1>3, InitRequestInv, NextRequestInv, PTL DEF RequestSpec
=============================================================================
