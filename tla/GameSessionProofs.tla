--------------------------- MODULE GameSessionProofs ---------------------------
(***************************************************************************)
(* Proofs about GameSession for any number of callers, stages, decisions   *)
(* and recoveries: its types, and, when human decisions do not time out,   *)
(* that concurrent submissions never answer a decision they were not       *)
(* validated against.                                                      *)
(***************************************************************************)
EXTENDS GameSession, TLAPS

-------------------------------------------------------------------------------
(* The inductive invariant.                                                *)

GuardInv ==
  \A c \in Clients : pc[c] \in {"checked", "waiting", "expired"} <=> guard = c

\* A session out of the registry is cancelled; a waiting thread shows a decision.
ThreadInv ==
  /\ ~registered => cancelled
  /\ thread = "await" => decision # NoDecision

\* No choice is under way, and the decision shown is the one waited for.
Calm ==
  /\ choices = <<>>
  /\ decision # NoDecision => thread = "await"

\* What the holder of the guard knows: the view it checked is still the view;
\* its choice is in the channel, or taken, or answered by a later view.
HolderInv ==
  ~cancelled /\ ~HumanTimeout =>
    /\ guard = NoClient => Calm
    /\ \A c \in Clients :
         /\ pc[c] = "checked" =>
              /\ Calm
              /\ decision # NoDecision
              /\ submission[c] = [rev |-> revision, id |-> decision]
         /\ pc[c] \in {"waiting", "expired"} =>
              \/ /\ submission[c] = [rev |-> revision, id |-> decision]
                 /\ \/ thread = "await" /\ choices = <<submission[c]>>
                    \/ thread = "run" /\ choices = <<>>
              \/ submission[c].rev < revision /\ Calm

\* Until the last view, the staged error is the latest since the last view.
ErrorInv == thread # "done" => staged = raised

IInv ==
  /\ ErrorInv
  /\ TypeOK
  /\ GuardInv
  /\ ThreadInv
  /\ HolderInv

LEMMA InitIInv == Init => IInv
<1> SUFFICES ASSUME Init PROVE IInv
  OBVIOUS
<1>1. TypeOK
  <2>1. submission \in [Clients -> Submissions]
    BY DEF Init, Submissions
  <2>2. choices \in Seq(Submissions)
    BY DEF Init
  <2>3. /\ revision \in Nat
        /\ game \in 1..MaxGames
        /\ stage \in 0..MaxStages
        /\ asked \in 0..MaxDecisions
        /\ failures \in 0..(MaxRecoveries - 1)
    BY SessionAssumption DEF Init
  <2>4. pc \in [Clients -> {"idle", "locking", "checked", "waiting", "expired"}]
    BY DEF Init
  <2>5. /\ registered \in BOOLEAN
        /\ cancelled \in BOOLEAN
        /\ viewError \in Nat
        /\ staged \in Nat
        /\ raised \in Nat
        /\ creator \in {"automated", "waiting", "expired", "returned", "failed"}
        /\ sideboarding \in BOOLEAN
        /\ sideboarding => game < MaxGames
    BY DEF Init
  <2> QED
    BY <2>1, <2>2, <2>3, <2>4, <2>5 DEF Init, TypeOK
<1>2. GuardInv /\ ThreadInv /\ ErrorInv
  BY SessionAssumption DEF Init, GuardInv, ThreadInv, ErrorInv
<1>3. HolderInv
  BY DEF Init, HolderInv, Calm
<1> QED
  BY <1>1, <1>2, <1>3 DEF IInv

-------------------------------------------------------------------------------
(* Types.                                                                  *)

LEMMA CompletionType ==
  ASSUME TypeOK, NEW error \in BOOLEAN, PublishCompletion(error)
  PROVE  /\ revision' \in Nat
         /\ decision' = NoDecision
         /\ viewError' \in Nat
         /\ staged' \in Nat
         /\ raised' \in Nat
         /\ thread' = "done"
         /\ UNCHANGED <<matchVars, stage, asked, failures>>
<1>1. raised' \in Nat /\ viewError' \in Nat /\ staged' \in Nat
  BY DEF PublishCompletion, TypeOK
<1>2. /\ revision' = revision + 1
      /\ decision' = NoDecision
      /\ thread' = "done"
      /\ UNCHANGED <<matchVars, stage, asked, failures>>
  BY DEF PublishCompletion
<1> QED
  BY <1>1, <1>2 DEF TypeOK

LEMMA FailAttemptType ==
  ASSUME TypeOK, FailAttempt
  PROVE  /\ revision' \in Nat
         /\ decision' \in DecisionIds \cup {NoDecision}
         /\ viewError' \in Nat
         /\ staged' \in Nat
         /\ raised' \in Nat
         /\ thread' \in {"run", "done"}
         /\ UNCHANGED <<matchVars, stage>>
         /\ asked' \in 0..MaxDecisions
         /\ failures' \in 0..(MaxRecoveries - 1)
<1>1. CASE PublishCompletion(TRUE)
  BY <1>1, CompletionType DEF TypeOK
<1>2. CASE sideboarding /\ thread' = "run"
           /\ UNCHANGED <<viewVars, matchVars, stage, asked, failures>>
  BY <1>2, Zenon DEF TypeOK, viewVars
<1>3. CASE /\ failures + 1 < MaxRecoveries
           /\ failures' = failures + 1
           /\ StageRecoveryError
           /\ thread' = "run"
           /\ asked' = 0
           /\ UNCHANGED <<matchVars, stage>>
  <2>1. failures' \in 0..(MaxRecoveries - 1) /\ asked' \in 0..MaxDecisions
    BY <1>3, SessionAssumption DEF TypeOK
  <2>2. /\ raised' \in Nat
        /\ staged' \in Nat
        /\ UNCHANGED <<revision, decision, viewError>>
    BY <1>3 DEF TypeOK, StageRecoveryError
  <2> QED
    BY <1>3, <2>1, <2>2, Zenon DEF TypeOK
<1> QED
  BY <1>1, <1>2, <1>3 DEF FailAttempt

LEMMA GameThreadType ==
  ASSUME TypeOK, GameThread
  PROVE  TypeOK'
<1>1. CASE RequestDecision
  <2>1. asked' \in 0..MaxDecisions /\ revision' \in Nat
    BY <1>1, SessionAssumption DEF TypeOK, RequestDecision
  <2> QED
    BY <1>1, <2>1 DEF TypeOK, RequestDecision, clientVars, matchVars
<1>2. CASE AttemptFails \/ DecisionTimesOut \/ ChannelDisconnects
  <2>1. FailAttempt /\ UNCHANGED <<registered, cancelled, choices, creator, clientVars>>
    BY <1>2 DEF AttemptFails, DecisionTimesOut, ChannelDisconnects
  <2> QED
    BY <2>1, FailAttemptType, SMTT(20) DEF TypeOK, clientVars, matchVars
<1>3. CASE ReceiveChoice
  <2>1. choices' \in Seq(Submissions)
    BY <1>3 DEF TypeOK, ReceiveChoice
  <2>2. CASE FailAttempt
    BY <1>3, <2>1, <2>2, FailAttemptType, SMTT(20)
    DEF TypeOK, ReceiveChoice, clientVars, matchVars
  <2>3. CASE UNCHANGED <<viewVars, matchVars, stage, asked, failures>> /\ thread' = "run"
    BY <1>3, <2>1, <2>3 DEF TypeOK, ReceiveChoice, clientVars, viewVars, matchVars
  <2> QED
    BY <1>3, <2>2, <2>3 DEF ReceiveChoice
<1>4. CASE StageCompletes
  BY <1>4, SessionAssumption DEF TypeOK, StageCompletes, viewVars, clientVars, matchVars
<1>5. CASE MatchCompletes
  BY <1>5, CompletionType DEF TypeOK, MatchCompletes, clientVars, matchVars
<1>6. CASE GameCompletes
  <2>1. asked' \in 0..MaxDecisions
    BY <1>6, SessionAssumption DEF GameCompletes
  <2> QED
    BY <1>6, <2>1 DEF TypeOK, GameCompletes, viewVars, clientVars
<1>7. CASE SideboardingCompletes
  <2>1. CASE PublishCompletion(TRUE)
    BY <1>7, <2>1, CompletionType DEF TypeOK, SideboardingCompletes, clientVars, matchVars
  <2>2. CASE ~PublishCompletion(TRUE)
    <3>1. /\ game' = game + 1
          /\ sideboarding' = FALSE
          /\ stage' = 0
          /\ asked' = 0
          /\ failures' = 0
          /\ UNCHANGED <<registered, cancelled, viewVars, choices, thread, creator, clientVars>>
      BY <1>7, <2>2 DEF SideboardingCompletes
    <3>2. game' \in 1..MaxGames
      BY <1>7, <3>1, SessionAssumption DEF TypeOK, SideboardingCompletes
    <3>3. /\ stage' \in 0..MaxStages
          /\ asked' \in 0..MaxDecisions
          /\ failures' \in 0..(MaxRecoveries - 1)
      BY <3>1, SessionAssumption
    <3> QED
      BY <3>1, <3>2, <3>3 DEF TypeOK, viewVars, clientVars
  <2> QED
    BY <2>1, <2>2
<1> QED
  BY <1>1, <1>2, <1>3, <1>4, <1>5, <1>6, <1>7 DEF GameThread

LEMMA UnregisterType ==
  ASSUME TypeOK, Unregister
  PROVE  registered' \in BOOLEAN /\ cancelled' \in BOOLEAN
BY Zenon DEF TypeOK, Unregister

LEMMA CallerType ==
  ASSUME TypeOK,
         Creator \/ Remove \/ \E c \in Clients : Lookup(c) \/ Submit(c)
  PROVE  TypeOK'
<1>1. CASE Creator \/ Remove
  <2>1. CASE CreateReturns \/ CreateTimesOut
    BY <2>1
    DEF TypeOK, CreateReturns, CreateTimesOut, viewVars, threadVars, matchVars, clientVars
  <2>2. CASE CreateGivesUp \/ Remove
    BY <2>2, UnregisterType
    DEF TypeOK, CreateGivesUp, Remove, viewVars, threadVars, matchVars, clientVars
  <2> QED
    BY <1>1, <2>1, <2>2 DEF Creator
<1>2. ASSUME NEW c \in Clients, Lookup(c) PROVE TypeOK'
  <2>1. submission' \in [Clients -> Submissions]
    BY <1>2 DEF TypeOK, Lookup, Submissions
  <2> QED
    BY <1>2, <2>1 DEF TypeOK, Lookup, viewVars, threadVars, matchVars
<1>3. ASSUME NEW c \in Clients, Submit(c) PROVE TypeOK'
  <2>1. CASE Acquire(c) \/ SubmitReturns(c) \/ SubmitTimesOut(c)
    BY <2>1, SMTT(20)
    DEF TypeOK, Acquire, SubmitReturns, SubmitTimesOut, Return, viewVars, threadVars, matchVars
  <2>3. CASE SubmitGivesUp(c)
    BY <2>3, UnregisterType DEF TypeOK, SubmitGivesUp, Return, viewVars, threadVars, matchVars
  <2>2. CASE SendChoice(c)
    <3>1. choices' \in Seq(Submissions)
      BY <2>2, SMTT(20) DEF TypeOK, SendChoice
    <3> QED
      BY <2>2, <3>1 DEF TypeOK, SendChoice, Return, viewVars, threadVars, matchVars
  <2> QED
    BY <1>3, <2>1, <2>2, <2>3 DEF Submit
<1> QED
  BY <1>1, <1>2, <1>3

-------------------------------------------------------------------------------
(* The guard and the thread.                                               *)

LEMMA GuardStep ==
  ASSUME TypeOK, GuardInv, [Next]_vars
  PROVE  GuardInv'
<1>1. CASE GameThread \/ Creator \/ Remove \/ UNCHANGED vars
  <2>1. UNCHANGED clientVars
    BY <1>1 DEF GameThread, RequestDecision, AttemptFails, ReceiveChoice, DecisionTimesOut,
                ChannelDisconnects, StageCompletes, GameCompletes,
                SideboardingCompletes, MatchCompletes, Creator,
                CreateReturns, CreateTimesOut, CreateGivesUp, Remove, vars
  <2> QED
    BY <2>1 DEF GuardInv, clientVars
<1>2. ASSUME NEW c \in Clients, Lookup(c) \/ Submit(c) PROVE GuardInv'
  BY <1>2, SessionAssumption
  DEF GuardInv, TypeOK, Lookup, Submit, Acquire, SendChoice, SubmitReturns,
      SubmitTimesOut, SubmitGivesUp, Return
<1> QED
  BY <1>1, <1>2 DEF Next

LEMMA ThreadStep ==
  ASSUME TypeOK, ThreadInv, [Next]_vars
  PROVE  ThreadInv'
<1> USE DEF ThreadInv, TypeOK
<1>1. CASE RequestDecision
  BY <1>1, SessionAssumption DEF RequestDecision
<1>2. CASE GameThread /\ ~RequestDecision
  <2>1. UNCHANGED <<registered, cancelled>> /\ thread' # "await"
    BY <1>2 DEF GameThread, AttemptFails, ReceiveChoice, DecisionTimesOut, FailAttempt,
                ChannelDisconnects, StageCompletes, GameCompletes,
                SideboardingCompletes, MatchCompletes, PublishCompletion
  <2> QED
    BY <2>1
<1>3. CASE Creator \/ Remove
  BY <1>3
  DEF Creator, CreateReturns, CreateTimesOut, CreateGivesUp, Remove, Unregister,
      viewVars, threadVars, matchVars
<1>4. ASSUME NEW c \in Clients, Lookup(c) \/ Submit(c) PROVE ThreadInv'
  BY <1>4 DEF Lookup, Submit, Acquire, SendChoice, SubmitReturns, SubmitTimesOut,
              SubmitGivesUp, Return, Unregister, viewVars, threadVars, matchVars
<1>5. CASE UNCHANGED vars
  BY <1>5 DEF vars, viewVars, threadVars, matchVars
<1> QED
  BY <1>1, <1>2, <1>3, <1>4, <1>5 DEF Next

-------------------------------------------------------------------------------
(* The holder of the guard.                                                *)

\* A choice in the channel is the one of the holder of the guard and answers the
\* view: this is the property, and it also tells ReceiveChoice what it reads.
LEMMA ChoiceIsHolders == IInv => QueueMatchesView
<1> SUFFICES ASSUME IInv, ~cancelled, ~HumanTimeout, choices # <<>>
             PROVE  thread = "await" /\ choices = <<[rev |-> revision, id |-> decision]>>
  BY DEF QueueMatchesView
<1>1. guard # NoClient
  BY DEF IInv, HolderInv, Calm
<1>2. PICK c \in Clients : guard = c
  BY <1>1 DEF IInv, TypeOK
<1>3. pc[c] \in {"waiting", "expired"}
  BY <1>2 DEF IInv, GuardInv, HolderInv, Calm
<1> QED
  BY <1>3 DEF IInv, HolderInv, Calm

\* A choice that was sent was validated against this view or an earlier one.
LEMMA WaitsFromPast ==
  ASSUME IInv, ~cancelled, ~HumanTimeout, NEW c \in Clients, pc[c] \in {"waiting", "expired"}
  PROVE  submission[c].rev \in Nat /\ submission[c].rev <= revision
<1>1. submission[c].rev \in Nat /\ revision \in Nat
  BY DEF IInv, TypeOK, Submissions
<1>2. CASE submission[c] = [rev |-> revision, id |-> decision]
  BY <1>1, <1>2
<1>3. CASE submission[c].rev < revision
  BY <1>1, <1>3
<1> QED
  BY <1>2, <1>3 DEF IInv, HolderInv

\* A completion leaves nothing to answer.
LEMMA CompletionIsCalm ==
  ASSUME IInv, ~cancelled, ~HumanTimeout, thread = "run",
         NEW error, PublishCompletion(error),
         UNCHANGED <<cancelled, choices, clientVars>>
  PROVE  HolderInv'
<1>1. revision' > revision /\ decision' = NoDecision
  BY DEF PublishCompletion, IInv, TypeOK
<1>2. choices = <<>>
  BY ChoiceIsHolders DEF QueueMatchesView
<1>3. Calm'
  BY <1>1, <1>2 DEF Calm
<1>4. ASSUME NEW c \in Clients, pc[c] \in {"waiting", "expired"}
      PROVE  submission[c].rev < revision'
  BY <1>1, <1>4, WaitsFromPast DEF PublishCompletion, IInv, TypeOK
<1>5. ASSUME NEW c \in Clients PROVE pc[c] # "checked"
  BY <1>5 DEF IInv, HolderInv, Calm
<1> QED
  BY <1>3, <1>4, <1>5 DEF HolderInv, clientVars

LEMMA HolderStep ==
  ASSUME IInv, [Next]_vars
  PROVE  HolderInv'
<1> SUFFICES ASSUME ~cancelled', ~HumanTimeout PROVE HolderInv'
  BY DEF HolderInv
<1>1. ~cancelled
  BY Zenon DEF Next, GameThread, RequestDecision, AttemptFails, ReceiveChoice, DecisionTimesOut,
         ChannelDisconnects, StageCompletes, GameCompletes,
                SideboardingCompletes, MatchCompletes, Creator, CreateReturns,
         CreateTimesOut, CreateGivesUp, Remove, Unregister, Lookup, Submit, Acquire, SendChoice,
         SubmitReturns, SubmitTimesOut, SubmitGivesUp, vars
<1>2. CASE RequestDecision
  <2>1. revision' > revision
    BY <1>2 DEF RequestDecision, IInv, TypeOK
  <2>2. choices = <<>>
    BY <1>1, <1>2, ChoiceIsHolders DEF QueueMatchesView, RequestDecision
  <2>3. Calm'
    BY <1>2, <2>2 DEF RequestDecision, Calm
  <2>4. ASSUME NEW c \in Clients, pc[c] \in {"waiting", "expired"}
        PROVE  submission[c].rev < revision'
    BY <1>1, <1>2, <2>4, WaitsFromPast DEF RequestDecision, IInv, TypeOK
  <2>5. ASSUME NEW c \in Clients PROVE pc[c] # "checked"
    BY <1>1, <1>2, <2>5 DEF IInv, HolderInv, Calm, RequestDecision
  <2> QED
    BY <1>2, <2>3, <2>4, <2>5 DEF HolderInv, RequestDecision, clientVars
<1>3. CASE AttemptFails
  <2>1. CASE PublishCompletion(TRUE)
    BY <1>1, <1>3, <2>1, CompletionIsCalm DEF AttemptFails
  <2>2. CASE ~PublishCompletion(TRUE)
    <3>1. UNCHANGED <<cancelled, revision, decision, choices, clientVars>> /\ thread' = thread
      BY <1>3, <2>2 DEF AttemptFails, FailAttempt, StageRecoveryError
    <3> QED
      BY <1>1, <3>1 DEF IInv, HolderInv, Calm, clientVars
  <2> QED
    BY <2>1, <2>2
<1>4. CASE ReceiveChoice
  <2>1. choices = <<[rev |-> revision, id |-> decision]>>
    BY <1>1, <1>4, ChoiceIsHolders DEF QueueMatchesView, ReceiveChoice
  <2>2. choices' = <<>> /\ Head(choices).id = decision
    BY <1>4, <2>1 DEF ReceiveChoice
  <2>3. thread' = "run" /\ UNCHANGED <<revision, decision, pc, submission, guard>>
    BY <1>4, <2>2 DEF ReceiveChoice, viewVars, clientVars
  <2>4. guard # NoClient
    BY <1>1, <2>1 DEF IInv, HolderInv, Calm
  <2>5. ASSUME NEW c \in Clients
        PROVE  /\ pc[c] # "checked"
               /\ pc[c] \in {"waiting", "expired"} =>
                    submission[c] = [rev |-> revision, id |-> decision]
    BY <1>1, <2>1, <2>5 DEF IInv, HolderInv, Calm
  <2> QED
    BY <2>2, <2>3, <2>4, <2>5 DEF HolderInv
<1>5. CASE DecisionTimesOut
  BY <1>5 DEF DecisionTimesOut
<1>6. CASE ChannelDisconnects
  BY <1>1, <1>6 DEF ChannelDisconnects, SenderAlive, IInv, ThreadInv
<1>7. CASE \/ StageCompletes \/ GameCompletes \/ CreateReturns \/ CreateTimesOut \/ UNCHANGED vars
           \/ SideboardingCompletes /\ ~PublishCompletion(TRUE)
  <2>1. UNCHANGED <<revision, decision, choices, thread, cancelled, pc, submission, guard>>
    BY <1>7
    DEF StageCompletes, GameCompletes, SideboardingCompletes, CreateReturns, CreateTimesOut,
        vars, viewVars, threadVars, matchVars, clientVars
  <2> QED
    BY <1>1, <2>1 DEF IInv, HolderInv, Calm
<1>8. CASE MatchCompletes
  BY <1>1, <1>8, CompletionIsCalm DEF MatchCompletes
<1>15. CASE SideboardingCompletes /\ PublishCompletion(TRUE)
  BY <1>1, <1>15, CompletionIsCalm DEF SideboardingCompletes
<1>9. CASE CreateGivesUp \/ Remove
  BY <1>9 DEF CreateGivesUp, Remove, Unregister, IInv, ThreadInv
<1>10. ASSUME NEW c \in Clients, Lookup(c) PROVE HolderInv'
  BY <1>1, <1>10 DEF Lookup, IInv, TypeOK, HolderInv, Calm, viewVars, threadVars, matchVars
<1>11. ASSUME NEW c \in Clients, Acquire(c) PROVE HolderInv'
  <2>1. Calm /\ Calm'
    BY <1>1, <1>11 DEF Acquire, IInv, HolderInv, Calm, viewVars, threadVars, matchVars
  <2>2. ASSUME NEW d \in Clients PROVE pc[d] \notin {"checked", "waiting", "expired"}
    BY <1>11, <2>2, SessionAssumption DEF Acquire, IInv, GuardInv
  <2>3. Current(c) => /\ decision # NoDecision
                      /\ submission[c] = [rev |-> revision, id |-> decision]
    BY DEF Current, IInv, TypeOK, Submissions
  <2> QED
    BY <1>11, <2>1, <2>2, <2>3
    DEF Acquire, Return, HolderInv, IInv, TypeOK, viewVars, threadVars, matchVars
<1>12. ASSUME NEW c \in Clients, SendChoice(c) PROVE HolderInv'
  <2>1. /\ choices = <<>>
        /\ thread = "await"
        /\ submission[c] = [rev |-> revision, id |-> decision]
        /\ guard = c
    BY <1>1, <1>12 DEF SendChoice, IInv, GuardInv, HolderInv, Calm
  <2>2. choices' = <<submission[c]>>
    BY <1>12, <2>1 DEF SendChoice
  <2>3. /\ UNCHANGED <<revision, decision, thread, submission, guard>>
        /\ pc' = [pc EXCEPT ![c] = "waiting"]
    BY <1>12, <2>1 DEF SendChoice, viewVars, threadVars, matchVars
  <2>4. ASSUME NEW d \in Clients, d # c PROVE pc'[d] \notin {"checked", "waiting", "expired"}
    BY <2>1, <2>3, <2>4 DEF IInv, GuardInv, TypeOK
  <2> QED
    BY <2>1, <2>2, <2>3, <2>4, SessionAssumption DEF HolderInv, IInv, TypeOK
<1>13. ASSUME NEW c \in Clients, SubmitReturns(c) PROVE HolderInv'
  <2>1. Calm
    BY <1>1, <1>13 DEF SubmitReturns, IInv, TypeOK, HolderInv, Submissions
  <2>2. ASSUME NEW d \in Clients PROVE pc'[d] \notin {"checked", "waiting", "expired"}
    BY <1>13, <2>2 DEF SubmitReturns, Return, IInv, GuardInv, TypeOK
  <2> QED
    BY <1>13, <2>1, <2>2 DEF SubmitReturns, HolderInv, Calm, viewVars, threadVars, matchVars
<1>16. ASSUME NEW c \in Clients, SubmitTimesOut(c) PROVE HolderInv'
  <2>1. /\ UNCHANGED <<cancelled, revision, decision, choices, thread, submission, guard>>
        /\ pc[c] = "waiting"
        /\ pc' = [pc EXCEPT ![c] = "expired"]
    BY <1>16 DEF SubmitTimesOut, viewVars, threadVars, matchVars
  <2> QED
    BY <1>1, <2>1 DEF HolderInv, Calm, IInv, TypeOK
<1>14. ASSUME NEW c \in Clients, SubmitGivesUp(c) PROVE HolderInv'
  BY <1>14 DEF SubmitGivesUp, Unregister, IInv, ThreadInv
<1> QED
  BY <1>2, <1>3, <1>4, <1>5, <1>6, <1>7, <1>8, <1>9, <1>10, <1>11, <1>12, <1>13, <1>14, <1>15, <1>16
  DEF Next, GameThread, Creator, Submit

-------------------------------------------------------------------------------
(* The theorems.                                                           *)

LEMMA ErrorStep ==
  ASSUME TypeOK, ErrorInv, [Next]_vars
  PROVE  ErrorInv'
<1>1. CASE GameThread
  <2>1. ASSUME FailAttempt, thread # "done" PROVE ErrorInv'
    <3>1. CASE PublishCompletion(TRUE)
      BY <3>1 DEF PublishCompletion, ErrorInv
    <3>2. CASE StageRecoveryError
      BY <3>2 DEF StageRecoveryError, ErrorInv
    <3>3. CASE UNCHANGED viewVars
      BY <2>1, <3>3 DEF ErrorInv, viewVars
    <3> QED
      BY <2>1, <3>1, <3>2, <3>3 DEF FailAttempt
  <2> QED
    BY <1>1, <2>1
    DEF GameThread, RequestDecision, AttemptFails, ReceiveChoice, DecisionTimesOut,
        ChannelDisconnects, StageCompletes, GameCompletes, SideboardingCompletes,
        MatchCompletes, PublishCompletion, ErrorInv, viewVars
<1>2. CASE ~GameThread
  <2>1. UNCHANGED <<staged, raised, thread>>
    BY <1>2
    DEF Next, Creator, CreateReturns, CreateTimesOut, CreateGivesUp, Remove, Lookup, Submit, Acquire,
        SendChoice, SubmitReturns, SubmitTimesOut, SubmitGivesUp, vars, viewVars, threadVars
  <2> QED
    BY <2>1 DEF ErrorInv
<1> QED
  BY <1>1, <1>2

LEMMA TypeStep ==
  ASSUME TypeOK, [Next]_vars
  PROVE  TypeOK'
<1>1. CASE UNCHANGED vars
  BY <1>1 DEF TypeOK, vars, viewVars, threadVars, matchVars, clientVars
<1> QED
  BY <1>1, GameThreadType, CallerType DEF Next

LEMMA InvariantHolds == Spec => []IInv
<1>1. Init => IInv
  BY InitIInv
<1>2. IInv /\ [Next]_vars => IInv'
  BY TypeStep, GuardStep, ThreadStep, HolderStep, ErrorStep DEF IInv
<1> QED
  BY <1>1, <1>2, PTL DEF Spec

\* Every variable keeps its type, the counters below their limits: a checkpoint
\* is not restored more often than MAX_SESSION_RECOVERIES_PER_CHECKPOINT allows.
THEOREM TypeCorrect == Spec => []TypeOK
<1>1. IInv => TypeOK
  BY DEF IInv
<1> QED
  BY <1>1, InvariantHolds, PTL

\* However many callers submit for one view, the channel of a live session holds
\* at most one choice, the answer to the decision shown.
THEOREM OneChoicePerView == Spec => []QueueMatchesView
  BY InvariantHolds, ChoiceIsHolders, PTL

\* Without a decision timeout, a choice is consumed at the revision submit
\* validated it against, so a submission that became stale answers nothing.
THEOREM ChoicesAreNeverStale == ~HumanTimeout /\ Spec => ChoiceAnswersItsRevision
<1> SUFFICES ASSUME ~HumanTimeout PROVE Spec => ChoiceAnswersItsRevision
  OBVIOUS
<1>1. QueueMatchesView
      => [(thread = "await" /\ choices # <<>> /\ choices' = Tail(choices) /\ ~cancelled)
            => Head(choices).rev = revision]_vars
  BY DEF QueueMatchesView
<1> QED
  BY <1>1, OneChoicePerView, PTL DEF ChoiceAnswersItsRevision

\* Every view shows the latest error raised since the view before it, for every
\* number of recoveries and whichever of the publishing calls comes next: only a
\* later error replaces one that was staged.
THEOREM LatestErrorReachesTheView == Spec => LatestErrorIsShown
<1> DEFINE Shown == viewError' = IF thread' = "done" THEN raised' ELSE raised
<1>1. IInv /\ [Next]_vars => [revision' # revision => Shown]_vars
  <2> SUFFICES ASSUME IInv, Next, revision' # revision PROVE Shown
    OBVIOUS
  <2>1. CASE RequestDecision
    BY <2>1 DEF RequestDecision, IInv, ErrorInv
  <2>2. ASSUME thread # "done", NEW error, PublishCompletion(error) PROVE Shown
    BY <2>2 DEF PublishCompletion, IInv, ErrorInv
  <2>3. CASE AttemptFails \/ DecisionTimesOut \/ ChannelDisconnects \/ ReceiveChoice
    BY <2>2, <2>3, Zenon
    DEF AttemptFails, DecisionTimesOut, ChannelDisconnects, ReceiveChoice, FailAttempt,
        StageRecoveryError, viewVars
  <2>4. CASE MatchCompletes \/ SideboardingCompletes
    BY <2>2, <2>4 DEF MatchCompletes, SideboardingCompletes, viewVars
  <2>5. CASE StageCompletes \/ GameCompletes \/ Creator \/ Remove
             \/ \E c \in Clients : Lookup(c) \/ Submit(c)
    BY <2>5
    DEF StageCompletes, GameCompletes, Creator, CreateReturns, CreateTimesOut, CreateGivesUp, Remove,
        Lookup, Submit, Acquire, SendChoice, SubmitReturns, SubmitTimesOut, SubmitGivesUp, viewVars
  <2> QED
    BY <2>1, <2>3, <2>4, <2>5 DEF Next, GameThread
<1> QED
  BY <1>1, InvariantHolds, PTL DEF Spec, LatestErrorIsShown
================================================================================
