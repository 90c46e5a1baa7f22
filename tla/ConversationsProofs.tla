------------------------- MODULE ConversationsProofs -------------------------
(***************************************************************************)
(* What is proved of conversations.  Agent runs (AgentRuns), for any set of *)
(* requests to a thread, overlapping or not, with lost updates and crashes: *)
(* an approval is carried out by one resume only, and a pause is used up    *)
(* only by the resume that answers it and given up only after its time.     *)
(* Streams (SSERelay), for agents of any length, any buffer, any number of  *)
(* attempts and any crashes: the relay misses, doubles and reorders         *)
(* nothing, and a client that is told of the end after a report can rely on *)
(* its having been saved.  Turns of KB chats (ChatTurns), for any requests,  *)
(* faults, branches and deletes: the rows of a chat are a forest, a turn is  *)
(* fed the thread of its question, and who is told that it is done has seen  *)
(* what is stored.                                                          *)
(***************************************************************************)
EXTENDS AgentRuns, SSERelay, ChatTurns, FiniteSetTheorems, SequenceTheorems, WellFoundedInduction, TLAPS

-----------------------------------------------------------------------------
(* Agent runs.                                                             *)

\* A paused run has left its stream, so it can neither pause nor start again.
PausedHaveLeft == \A p \in Paused : pc[p] \in {"tell", "done"}

\* A claim holds the lock of a row that is paused; what is abandoned has expired.
ClaimsHoldTheLock ==
    \A q \in Turns :
        /\ pc[q] = "claimed" => lock = q /\ found[q] \in Paused
        /\ pc[q] = "abandon" => found[q] \in expired

\* Before its stream a request works on nothing but its own question.
NothingClaimedYet ==
    \A q \in Turns : pc[q] \in {"idle", "received", "begin", "claim", "claimed", "abandon"} => about[q] = q

\* A claim uses its pause up, for good.
ClaimedAreUsedUp ==
    \A q \in Turns :
        Claimed(q) => run[answers[q]] = "completed" /\ pc[answers[q]] \in {"tell", "done"}

IInv ==
    /\ TypeOK
    /\ PausedHaveLeft /\ ClaimsHoldTheLock /\ NothingClaimedYet /\ ClaimedAreUsedUp
    /\ ApprovedOnce

\* The helpers of the actions, in the places they occur.
LEMMA HelperTypes ==
    ASSUME TypeOK, NEW q \in Turns
    PROVE  /\ \A stage \in Stages : Goto(q, stage) => pc' = [pc EXCEPT ![q] = stage] /\ pc' \in [Turns -> Stages]
           /\ \A end \in Ends : Settle(q, end) => outcome' \in [Turns -> Ends \cup {None}]
           /\ Leave(q) => /\ pc' = [pc EXCEPT ![q] = "done"] /\ pc' \in [Turns -> Stages]
                          /\ fresh' \subseteq Turns
                          /\ found' \in [Turns -> Turns \cup {None}]
                          /\ outcome' \in [Turns -> Ends \cup {None}]
BY DEF TypeOK, Goto, Settle, Leave, Stages

LEMMA InitInv == Init => IInv
BY AgentAssumption DEF AgentAssumption, Init, IInv, TypeOK, Stages, Statuses, Ends, Messages,
   PausedHaveLeft, ClaimsHoldTheLock, NothingClaimedYet, ClaimedAreUsedUp, ApprovedOnce, Claimed, Paused

LEMMA Types == ASSUME TypeOK, ClaimsHoldTheLock, [Next]_vars PROVE TypeOK'
<1>. USE AgentAssumption DEF AgentAssumption
<1>a. "failed" \in Ends /\ "cancelled" \in Ends /\ "interrupted" \in Ends /\ "completed" \in Ends
  BY DEF Ends
<1>b. \A q \in Turns : outcome[q] \in Ends \cup {None}
  BY DEF TypeOK
<1>c. \A stage \in {"received", "begin", "claim", "claimed", "abandon", "stream", "agent", "thinking",
                     "pausing", "answered", "finish", "tell", "done"} : stage \in Stages
  BY DEF Stages
<1>d. Ends \subseteq Statuses /\ {"running", "abandoned", None} \subseteq Statuses
  BY DEF Statuses
<1>1. CASE UNCHANGED vars
  BY <1>1 DEF vars, rows, sess, chat, TypeOK
<1>2. CASE ExpireStale
  BY <1>2, <1>d DEF ExpireStale, sess, chat, TypeOK
<1>3. ASSUME NEW q \in Turns PROVE (Ask(q) \/ \E p \in Turns : Resume(q, p)) => TypeOK'
  <2>1. ASSUME Ask(q) PROVE TypeOK'
    BY <2>1, <1>c, HelperTypes DEF Ask, TypeOK, rows, sess, chat
  <2>2. ASSUME NEW p \in Turns, Resume(q, p) PROVE TypeOK'
    BY <2>2, <1>c, HelperTypes DEF Resume, TypeOK, rows, sess, chat
  <2>. QED BY <2>1, <2>2
<1>4. ASSUME NEW q \in Turns, Work(q) PROVE TypeOK'
  <2>1. CASE Start(q)
    BY <2>1, <1>c, <1>d, HelperTypes DEF Start, TypeOK, sess, chat
  <2>2. CASE TurnStarted(q)
    BY <2>2, <1>c, HelperTypes DEF TurnStarted, TypeOK, rows, sess, Messages
  <2>3. CASE LockPaused(q)
    BY <2>3, <1>a, <1>c, HelperTypes DEF LockPaused, TypeOK, rows, sess, chat, Paused
  <2>4. CASE ClaimResume(q)
    <3>1. CASE found[q] \in expired
      BY <2>4, <3>1, <1>c, HelperTypes DEF ClaimResume, TypeOK, sess, chat
    <3>2. CASE found[q] \notin expired /\ found[q] # answers[q]
      BY <2>4, <3>2, <1>a, <1>c, HelperTypes DEF ClaimResume, TypeOK, sess, chat
    <3>3. CASE found[q] \notin expired /\ found[q] = answers[q]
      <4>1. run' = [run EXCEPT ![found[q]] = "completed"] /\ run' \in [Turns -> Statuses]
        BY <2>4, <3>3, <1>a, <1>d DEF ClaimResume, TypeOK
      <4>2. about' = [about EXCEPT ![q] = about[found[q]]] /\ found[q] \in Turns
        BY <2>4, <3>3 DEF ClaimResume, ClaimsHoldTheLock, Paused
      <4>3. about' \in [Turns -> Turns]
        BY <4>2 DEF TypeOK
      <4>. QED BY <2>4, <3>3, <4>1, <4>3, <1>c, HelperTypes DEF ClaimResume, TypeOK, sess, chat
    <3>. QED BY <3>1, <3>2, <3>3
  <2>5. CASE AbandonExpired(q)
    BY <2>5, <1>a, <1>c, <1>d, HelperTypes DEF AbandonExpired, TypeOK, sess, chat, Paused
  <2>6. CASE FailBeforeStream(q)
    BY <2>6, <1>a, <1>c, HelperTypes DEF FailBeforeStream, TypeOK, rows, sess, chat
  <2>7. CASE LoadSession(q)
    BY <2>7, <1>c, HelperTypes DEF LoadSession, TypeOK, rows, chat
  <2>8. CASE AppendInput(q)
    BY <2>8, <1>c, HelperTypes DEF AppendInput, AppendEvent, TypeOK, rows, chat
  <2>9. CASE AppendOutput(q)
    BY <2>9, <1>c, HelperTypes DEF AppendOutput, AppendEvent, TypeOK, rows, chat
  <2>10. CASE StopRun(q)
    BY <2>10, <1>a, <1>c, HelperTypes DEF StopRun, TypeOK, rows, sess, chat
  <2>11. CASE Interrupt(q)
    BY <2>11, <1>a, <1>c, <1>d, HelperTypes DEF Interrupt, TypeOK, sess, chat
  <2>12. CASE Complete(q)
    BY <2>12, <1>a, <1>c, HelperTypes DEF Complete, TypeOK, rows, sess, chat
  <2>13. CASE Finish(q)
    BY <2>13, <1>b, <1>c, <1>d, HelperTypes DEF Finish, TypeOK, sess, chat
  <2>14. CASE TurnFinished(q)
    BY <2>14, <1>b, HelperTypes DEF TurnFinished, TypeOK, rows, chat, Messages
  <2>. QED BY <1>4, <2>1, <2>2, <2>3, <2>4, <2>5, <2>6, <2>7, <2>8, <2>9, <2>10, <2>11, <2>12, <2>13, <2>14
       DEF Work
<1>5. ASSUME NEW q \in Turns, Crash(q) PROVE TypeOK'
  BY <1>5, HelperTypes DEF Crash, TypeOK, rows, chat
<1>6. ASSUME NEW q \in Turns, PauseExpires(q) PROVE TypeOK'
  BY <1>6 DEF PauseExpires, TypeOK, Paused, sess, chat
<1>. QED BY <1>1, <1>2, <1>3, <1>4, <1>5, <1>6 DEF Next, Rest


\* Each step keeps what the claims rest on.
LEMMA ClaimsStep ==
    ASSUME IInv, [Next]_vars
    PROVE  PausedHaveLeft' /\ ClaimsHoldTheLock' /\ NothingClaimedYet'
           /\ ClaimedAreUsedUp' /\ ApprovedOnce'
<1>. USE AgentAssumption
     DEF AgentAssumption, Goto, Settle, Leave, PausedHaveLeft, ClaimsHoldTheLock, NothingClaimedYet,
         ClaimedAreUsedUp, ApprovedOnce, Claimed, Paused
<1>1. CASE UNCHANGED vars
  BY <1>1 DEF IInv, vars, rows, sess, chat
<1>2. CASE ExpireStale
  BY <1>2 DEF IInv, TypeOK, ExpireStale, sess, chat
<1>3. ASSUME NEW q \in Turns, Ask(q)
      PROVE  PausedHaveLeft' /\ ClaimsHoldTheLock' /\ NothingClaimedYet' /\ ClaimedAreUsedUp' /\ ApprovedOnce'
  BY <1>3 DEF IInv, TypeOK, Ask, Arrives, rows, sess, chat
<1>4. ASSUME NEW q \in Turns, NEW p \in Turns, Resume(q, p)
      PROVE  PausedHaveLeft' /\ ClaimsHoldTheLock' /\ NothingClaimedYet' /\ ClaimedAreUsedUp' /\ ApprovedOnce'
  BY <1>4 DEF IInv, TypeOK, Resume, Arrives, rows, sess, chat
<1>5. ASSUME NEW q \in Turns, Work(q)
      PROVE  PausedHaveLeft' /\ ClaimsHoldTheLock' /\ NothingClaimedYet' /\ ClaimedAreUsedUp' /\ ApprovedOnce'
  <2>1. CASE Start(q)
    BY <2>1 DEF IInv, TypeOK, Start, sess, chat
  <2>2. CASE TurnStarted(q)
    BY <2>2 DEF IInv, TypeOK, TurnStarted, rows, sess
  <2>3. CASE LockPaused(q)
    BY <2>3 DEF IInv, TypeOK, LockPaused, rows, sess, chat
  <2>4. CASE ClaimResume(q)
    BY SMTT(30), <2>4 DEF IInv, TypeOK, ClaimResume, sess, chat
  <2>5. CASE AbandonExpired(q)
    BY <2>5 DEF IInv, TypeOK, AbandonExpired, sess, chat
  <2>6. CASE FailBeforeStream(q)
    BY <2>6 DEF IInv, TypeOK, FailBeforeStream, rows, sess, chat
  <2>7. CASE LoadSession(q)
    BY <2>7 DEF IInv, TypeOK, LoadSession, rows, chat
  <2>8. CASE AppendInput(q)
    BY <2>8 DEF IInv, TypeOK, AppendInput, rows, chat
  <2>9. CASE AppendOutput(q)
    BY <2>9 DEF IInv, TypeOK, AppendOutput, rows, chat
  <2>10. CASE StopRun(q)
    BY <2>10 DEF IInv, TypeOK, StopRun, InStream, rows, sess, chat
  <2>11. CASE Interrupt(q)
    BY <2>11 DEF IInv, TypeOK, Interrupt, sess, chat
  <2>12. CASE Complete(q)
    BY <2>12 DEF IInv, TypeOK, Complete, rows, sess, chat
  <2>13. CASE Finish(q)
    BY <2>13 DEF IInv, TypeOK, Finish, sess, chat
  <2>14. CASE TurnFinished(q)
    BY <2>14 DEF IInv, TypeOK, TurnFinished, rows
  <2>. QED BY <1>5, <2>1, <2>2, <2>3, <2>4, <2>5, <2>6, <2>7, <2>8, <2>9, <2>10, <2>11, <2>12, <2>13, <2>14
       DEF Work
<1>6. ASSUME NEW q \in Turns, Crash(q)
      PROVE  PausedHaveLeft' /\ ClaimsHoldTheLock' /\ NothingClaimedYet' /\ ClaimedAreUsedUp' /\ ApprovedOnce'
  BY <1>6 DEF IInv, TypeOK, Crash, rows, chat
<1>7. ASSUME NEW q \in Turns, PauseExpires(q)
      PROVE  PausedHaveLeft' /\ ClaimsHoldTheLock' /\ NothingClaimedYet' /\ ClaimedAreUsedUp' /\ ApprovedOnce'
  BY <1>7 DEF IInv, TypeOK, PauseExpires, sess, chat
<1>. QED BY <1>1, <1>2, <1>3, <1>4, <1>5, <1>6, <1>7 DEF Next, Rest

LEMMA Inductive == Spec => []IInv
<1>1. IInv /\ [Next]_vars => IInv'
  BY Types, ClaimsStep DEF IInv
<1>. QED BY InitInv, <1>1, PTL DEF Spec

\* For any requests, overlapping or not, and whatever fails: the variables keep
\* their types, and no pause is carried out by two resumes (AgentInv).
THEOREM AgentInvHolds == Spec => []AgentInv
<1>1. IInv => AgentInv
  BY DEF IInv, AgentInv
<1>. QED BY Inductive, <1>1, PTL

\* A pause is used up only by the resume that answers it, and given up only after
\* its time (PausesStand).
THEOREM PausesAreKept == Spec => PausesStand
<1>. DEFINE Stands == \A p \in Turns : run[p] = "interrupted" =>
              /\ run'[p] = "completed" =>
                    \E q \in Turns : pc[q] = "claimed" /\ pc'[q] = "stream" /\ answers[q] = p
              /\ run'[p] = "abandoned" => p \in expired
<1>1. ASSUME IInv, [Next]_vars PROVE Stands
  <2>. USE DEF Paused, Goto, Settle
  <2>1. CASE UNCHANGED vars
    BY <2>1 DEF vars, rows
  <2>2. CASE ExpireStale
    BY <2>2, <1>1 DEF ExpireStale, IInv, TypeOK
  <2>3. ASSUME NEW q \in Turns, Ask(q) \/ Crash(q) \/ PauseExpires(q) \/ \E p \in Turns : Resume(q, p)
        PROVE  Stands
    BY <2>3 DEF Ask, Crash, PauseExpires, Resume, rows
  <2>4. ASSUME NEW q \in Turns, Work(q) PROVE Stands
    <3>1. CASE UNCHANGED run
      BY <3>1
    <3>2. CASE Start(q)
      BY <3>2, <1>1 DEF Start, IInv, TypeOK, PausedHaveLeft
    <3>3. CASE ClaimResume(q)
      BY <3>3, <1>1 DEF ClaimResume, IInv, TypeOK, Stages
    <3>4. CASE AbandonExpired(q)
      BY <3>4, <1>1 DEF AbandonExpired, IInv, TypeOK, ClaimsHoldTheLock
    <3>5. CASE Interrupt(q)
      BY <3>5, <1>1 DEF Interrupt, HasOpen, IInv, TypeOK
    <3>6. CASE Finish(q)
      BY <3>6, <1>1 DEF Finish, IInv, TypeOK
    <3>. QED BY <2>4, <3>1, <3>2, <3>3, <3>4, <3>5, <3>6
         DEF Work, TurnStarted, LockPaused, FailBeforeStream, LoadSession, AppendInput, AppendOutput,
             StopRun, Complete, TurnFinished, rows
  <2>. QED BY <1>1, <2>1, <2>2, <2>3, <2>4 DEF Next, Rest
<1>. QED BY Inductive, <1>1, PTL DEF Spec, PausesStand

-----------------------------------------------------------------------------
(* What the hooks are told.                                                *)

Before == {"idle", "received"}
Working == {"begin", "claim", "claimed", "abandon", "stream", "agent", "thinking", "answered", "pausing", "finish"}

\* A row is running until its handler has settled; then it shows what the
\* handler has settled on, and only a pause moves on.
RowOf(q) ==
    /\ pc[q] \in Working => run[q] = "running"
    /\ pc[q] = "finish" => outcome[q] \in {"completed", "failed", "cancelled"}
    /\ pc[q] = "tell" => outcome[q] \in {"completed", "failed", "cancelled", "interrupted"}
    /\ (pc[q] = "tell" /\ outcome[q] # "interrupted") => run[q] = outcome[q]
    /\ (pc[q] = "tell" /\ outcome[q] = "interrupted") => run[q] \in {"interrupted", "completed", "abandoned"}
    /\ told[q] # None => pc[q] = "done"
    /\ told[q] \in {"completed", "failed", "cancelled"} => run[q] = told[q]
    /\ told[q] = "interrupted" => run[q] \in {"interrupted", "completed", "abandoned"}

\* A request that stays where it is: its row changes only from a pause.
LEMMA RowKept ==
    ASSUME NEW q \in Turns, RowOf(q), UNCHANGED <<pc[q], outcome[q], told[q]>>,
           run'[q] = run[q] \/ (run[q] = "interrupted" /\ run'[q] \in {"completed", "abandoned"})
    PROVE  RowOf(q)'
BY DEF RowOf, Working

LEMMA RowStep ==
    ASSUME IInv, \A q \in Turns : RowOf(q), "finish" \notin Faults, [Next]_vars
    PROVE  \A q \in Turns : RowOf(q)'
<1>. USE AgentAssumption, HelperTypes DEF AgentAssumption, IInv, Ends, Stages
<1>0. TypeOK
  OBVIOUS
<1>1. CASE UNCHANGED vars
  BY <1>1, RowKept DEF vars, rows, chat
<1>2. CASE ExpireStale
  BY <1>0, <1>2, RowKept DEF ExpireStale, Paused, TypeOK, sess, chat
<1>3. ASSUME NEW p \in Turns,
             \/ Ask(p) \/ (\E q \in Turns : Resume(p, q)) \/ TurnStarted(p) \/ LockPaused(p) \/ FailBeforeStream(p)
             \/ LoadSession(p) \/ AppendInput(p) \/ AppendOutput(p) \/ StopRun(p) \/ Complete(p)
      PROVE  \A q \in Turns : RowOf(q)'
  <2>1. /\ UNCHANGED <<run, told>>
        /\ \A q \in Turns \ {p} : pc'[q] = pc[q] /\ outcome'[q] = outcome[q]
    BY <1>0, <1>3 DEF Ask, Resume, TurnStarted, LockPaused, FailBeforeStream, LoadSession, AppendInput,
                      AppendOutput, StopRun, Complete, Goto, Settle, TypeOK, rows, chat
  <2>2. /\ pc[p] \in Working => pc'[p] \in Working
        /\ pc'[p] \in Before \cup Working /\ pc'[p] # "done" /\ pc[p] # "done" /\ pc'[p] # "tell"
        /\ pc'[p] \in Working => pc[p] \in Working
        /\ pc'[p] = "finish" => outcome'[p] \in {"completed", "failed", "cancelled"}
    <3>1. CASE Ask(p) \/ \E q \in Turns : Resume(p, q)
      BY <1>0, <3>1 DEF Ask, Resume, Arrives, Goto, TypeOK, Before, Working
    <3>2. CASE TurnStarted(p) \/ LoadSession(p) \/ AppendInput(p) \/ AppendOutput(p)
      BY <1>0, <3>2 DEF TurnStarted, LoadSession, AppendInput, AppendOutput, Goto, TypeOK, Before, Working
    <3>3. CASE LockPaused(p) \/ FailBeforeStream(p) \/ Complete(p)
      BY <1>0, <3>3 DEF LockPaused, FailBeforeStream, Complete, Goto, Settle, TypeOK, Before, Working
    <3>4. CASE StopRun(p)
      <4>1. PICK end \in {"failed", "cancelled"} : Settle(p, end)
        BY <3>4 DEF StopRun
      <4>2. outcome'[p] \in {"failed", "cancelled"}
        BY <1>0, <4>1 DEF Settle, TypeOK
      <4>3. pc[p] \in {"stream", "agent", "thinking", "answered", "pausing"} /\ pc'[p] = "finish"
        BY <1>0, <3>4 DEF StopRun, InStream, Goto, TypeOK
      <4>. QED BY <4>2, <4>3 DEF Before, Working
    <3>. QED BY <1>3, <3>1, <3>2, <3>3, <3>4
  <2>3. RowOf(p)'
    BY <2>1, <2>2 DEF RowOf, Before, Working
  <2>. QED BY <2>1, <2>3, RowKept
<1>4. ASSUME NEW p \in Turns, Start(p) PROVE \A q \in Turns : RowOf(q)'
  <2>1. /\ run'[p] = "running" /\ pc'[p] = "begin" /\ pc[p] = "received" /\ UNCHANGED <<outcome, told>>
        /\ \A q \in Turns \ {p} : pc'[q] = pc[q] /\ run'[q] = run[q]
    BY <1>0, <1>4 DEF Start, Goto, TypeOK, sess, chat
  <2>2. RowOf(p)'
    BY <2>1 DEF RowOf, Working
  <2>. QED BY <2>1, <2>2, RowKept
<1>5. ASSUME NEW p \in Turns, ClaimResume(p) PROVE \A q \in Turns : RowOf(q)'
  <2>1. /\ pc[p] = "claimed" /\ found[p] \in Paused /\ run[p] = "running" /\ UNCHANGED told
    BY <1>5 DEF ClaimResume, ClaimsHoldTheLock, RowOf, Working, chat
  <2>2. /\ \A q \in Turns \ {p} : pc'[q] = pc[q] /\ outcome'[q] = outcome[q]
        /\ pc'[p] \in {"abandon", "stream"} \/ (pc'[p] = "finish" /\ outcome'[p] = "failed")
    BY <1>0, <1>5 DEF ClaimResume, Goto, Settle, TypeOK
  <2>3. \A q \in Turns : run'[q] = run[q] \/ (run[q] = "interrupted" /\ run'[q] = "completed")
    BY <1>0, <1>5, <2>1 DEF ClaimResume, TypeOK, Paused
  <2>4. run'[p] = "running"
    BY <2>1, <2>3
  <2>5. RowOf(p)'
    BY <2>1, <2>2, <2>4 DEF RowOf, Working
  <2>. QED BY <2>1, <2>2, <2>3, <2>5, RowKept
<1>6. ASSUME NEW p \in Turns, AbandonExpired(p) PROVE \A q \in Turns : RowOf(q)'
  <2>1. /\ pc[p] = "abandon" /\ run[p] = "running" /\ UNCHANGED told
        /\ \A q \in Turns \ {p} : pc'[q] = pc[q] /\ outcome'[q] = outcome[q]
        /\ pc'[p] = "finish" /\ outcome'[p] = "failed"
    BY <1>0, <1>6 DEF AbandonExpired, RowOf, Working, Goto, Settle, TypeOK, chat
  <2>2. \A q \in Turns : run'[q] = run[q] \/ (run[q] = "interrupted" /\ run'[q] = "abandoned")
    BY <1>0, <1>6 DEF AbandonExpired, TypeOK, Paused
  <2>3. run'[p] = "running"
    BY <2>1, <2>2
  <2>4. RowOf(p)'
    BY <2>1, <2>3 DEF RowOf, Working
  <2>. QED BY <2>1, <2>2, <2>4, RowKept
<1>7. ASSUME NEW p \in Turns, Interrupt(p) PROVE \A q \in Turns : RowOf(q)'
  <2>1. /\ pc[p] = "pausing" /\ run[p] = "running" /\ UNCHANGED told
        /\ \A q \in Turns \ {p} : pc'[q] = pc[q] /\ outcome'[q] = outcome[q]
        /\ \/ pc'[p] = "finish" /\ outcome'[p] = "failed" /\ run'[p] = "running"
           \/ pc'[p] = "tell" /\ outcome'[p] = "interrupted" /\ run'[p] = "interrupted"
    BY <1>0, <1>7 DEF Interrupt, RowOf, Working, Goto, Settle, TypeOK, chat
  <2>2. \A q \in Turns \ {p} : run'[q] = run[q] \/ (run[q] = "interrupted" /\ run'[q] = "abandoned")
    BY <1>0, <1>7 DEF Interrupt, TypeOK, Paused
  <2>3. RowOf(p)'
    BY <2>1 DEF RowOf, Working
  <2>. QED BY <2>1, <2>2, <2>3, RowKept
<1>8. ASSUME NEW p \in Turns, Finish(p) PROVE \A q \in Turns : RowOf(q)'
  <2>1. /\ pc[p] = "finish" /\ UNCHANGED <<told, outcome>> /\ outcome[p] \in {"completed", "failed", "cancelled"}
        /\ run[p] = "running" /\ run'[p] = outcome[p] /\ pc'[p] = "tell"
        /\ \A q \in Turns \ {p} : pc'[q] = pc[q] /\ run'[q] = run[q]
    <3>1. pc[p] = "finish" /\ run[p] = "running" /\ outcome[p] \in {"completed", "failed", "cancelled"}
      BY <1>8 DEF Finish, RowOf, Working
    <3>2. run' = [run EXCEPT ![p] = outcome[p]] /\ pc' = [pc EXCEPT ![p] = "tell"] /\ UNCHANGED <<told, outcome>>
      BY <1>8, <3>1 DEF Finish, Goto, chat
    <3>. QED BY <1>0, <3>1, <3>2 DEF TypeOK
  <2>2. RowOf(p)'
    <3>1. told'[p] = None /\ outcome'[p] = outcome[p]
      BY <2>1 DEF RowOf
    <3>2. None \notin {"completed", "failed", "cancelled", "interrupted"}
      OBVIOUS
    <3>3. outcome'[p] \in {"completed", "failed", "cancelled"} /\ run'[p] = outcome'[p] /\ pc'[p] = "tell"
      BY <2>1, <3>1
    <3>4. pc'[p] \notin Working /\ pc'[p] # "finish" /\ pc'[p] # "done"
      BY <3>3 DEF Working
    <3>5. told'[p] \notin {"completed", "failed", "cancelled"} /\ told'[p] # "interrupted"
      BY <3>1, <3>2
    <3>. HIDE DEF Working
    <3>. QED BY <3>1, <3>3, <3>4, <3>5 DEF RowOf
  <2>. QED BY <2>1, <2>2, RowKept
<1>9. ASSUME NEW p \in Turns, TurnFinished(p) PROVE \A q \in Turns : RowOf(q)'
  <2>1. /\ pc[p] = "tell" /\ pc'[p] = "done" /\ UNCHANGED run /\ told'[p] = outcome[p]
        /\ \A q \in Turns \ {p} : pc'[q] = pc[q] /\ outcome'[q] = outcome[q] /\ told'[q] = told[q]
    BY <1>0, <1>9 DEF TurnFinished, Leave, Goto, TypeOK, rows
  <2>2. RowOf(p)'
    BY <2>1 DEF RowOf, Working
  <2>. QED BY <2>1, <2>2, RowKept
<1>10. ASSUME NEW p \in Turns, Crash(p) \/ PauseExpires(p) PROVE \A q \in Turns : RowOf(q)'
  <2>1. CASE Crash(p)
    <3>1. /\ pc[p] # "done" /\ pc'[p] = "done" /\ UNCHANGED <<run, told>>
          /\ \A q \in Turns \ {p} : pc'[q] = pc[q] /\ outcome'[q] = outcome[q]
      BY <1>0, <2>1 DEF Crash, Leave, Goto, TypeOK, rows, chat
    <3>2. RowOf(p)'
      BY <3>1 DEF RowOf, Working
    <3>. QED BY <3>1, <3>2, RowKept
  <2>2. CASE PauseExpires(p)
    BY <2>2, RowKept DEF PauseExpires, sess, chat
  <2>. QED BY <1>10, <2>1, <2>2
<1>. QED BY <1>1, <1>2, <1>3, <1>4, <1>5, <1>6, <1>7, <1>8, <1>9, <1>10 DEF Next, Rest, Work

\* Where the last update of a row is not lost: what the hooks and the client are
\* told of a turn is what its row says, and a pause that could not be recorded is
\* never announced - with overlapping requests, crashes and failed runs.
THEOREM HooksTellTheRow == ASSUME "finish" \notin Faults PROVE Spec => []RowMatchesHooks
<1>. DEFINE RowsInv == \A q \in Turns : RowOf(q)
<1>1. Init => RowsInv
  BY ZenonT(60), AgentAssumption DEF Init, RowOf, Working, AgentAssumption, Ends
<1>2. IInv /\ RowsInv /\ [Next]_vars => RowsInv'
  BY RowStep
<1>3. RowsInv => RowMatchesHooks
  BY DEF RowOf, RowMatchesHooks
<1>. HIDE DEF RowsInv
<1>. QED BY <1>1, <1>2, <1>3, Inductive, PTL DEF Spec

-----------------------------------------------------------------------------
(* One request at a time.                                                  *)

Active(q) == pc[q] \notin {"idle", "done"}
Open == Paused \ expired

\* A request that works towards an answer: it has claimed what it needs.
Answering(q) ==
    \/ pc[q] \in {"stream", "agent", "thinking", "answered", "pausing"}
    \/ pc[q] \in {"finish", "tell"} /\ outcome[q] = "completed"

\* ... or is about to, with a question of its own.
Asking(q) == pc[q] \in {"received", "begin"} /\ answers[q] = None

OneAtATime == \A p, q \in Turns : Active(p) /\ Active(q) => p = q

\* One pause is open at most, and none while a request asks or answers.
OpenAlone ==
    /\ \A p, q \in Open : p = q
    /\ \A q \in Turns : Asking(q) \/ Answering(q) => Open = {}

\* The chat ends with the question of the run that is open or at work.
QuestionOnTop ==
    /\ \A p \in Open : newest = <<"user", about[p]>>
    /\ \A q \in Turns : Answering(q) => newest = <<"user", about[q]>>

TurnInOrder(q) ==
    /\ answers[q] = None => about[q] = q
    /\ pc[q] = "finish" => outcome[q] # "interrupted"
    /\ reply[q] # None => pc[q] = "done" /\ reply[q] = <<"user", about[q]>>

InOrder == OneAtATime /\ OpenAlone /\ QuestionOnTop /\ \A q \in Turns : TurnInOrder(q)

\* A step of one request that opens no pause and stores no message.
LEMMA OrderKept ==
    ASSUME InOrder, NEW p \in Turns,
           \A q \in Turns \ {p} : /\ pc'[q] = pc[q] /\ outcome'[q] = outcome[q] /\ answers'[q] = answers[q]
                                  /\ reply'[q] = reply[q],
           newest' = newest, about' = about, Open' \subseteq Open, Open \subseteq Turns,
           Active(p)' => Active(p) \/ \A q \in Turns : ~Active(q),
           Asking(p)' => Open = {}, Answering(p)' => Answering(p), TurnInOrder(p)'
    PROVE  InOrder'
<1>1. \A q \in Turns \ {p} : /\ (Active(q)' <=> Active(q)) /\ (Asking(q)' <=> Asking(q))
                             /\ (Answering(q)' <=> Answering(q)) /\ (TurnInOrder(q)' <=> TurnInOrder(q))
  BY DEF Active, Asking, Answering, TurnInOrder
<1>2. OneAtATime'
  BY <1>1 DEF InOrder, OneAtATime
<1>3. OpenAlone'
  BY <1>1 DEF InOrder, OpenAlone
<1>4. QuestionOnTop'
  BY <1>1 DEF InOrder, QuestionOnTop
<1>. QED BY <1>1, <1>2, <1>3, <1>4 DEF InOrder

LEMMA OpenTurns == Open \subseteq Turns /\ (HasOpen <=> Open # {})
BY DEF Open, HasOpen, Paused

\* While one request is at work, no other asks or answers.
LEMMA Busy ==
    ASSUME OneAtATime, NEW p \in Turns, Active(p), NEW q \in Turns, q # p
    PROVE  ~Active(q) /\ ~Asking(q) /\ ~Answering(q)
BY DEF OneAtATime, Active, Asking, Answering

LEMMA OrderStep == ASSUME IInv, InOrder, ~Overlap, [Next]_vars PROVE InOrder'
<1>. USE AgentAssumption DEF AgentAssumption
<1>0. TypeOK
  BY DEF IInv
<1>1. CASE UNCHANGED vars
  BY <1>1 DEF vars, rows, sess, chat, InOrder, OneAtATime, OpenAlone, QuestionOnTop, TurnInOrder, Active, Asking,
              Answering, Open, Paused
<1>2. CASE ExpireStale
  <2>1. Open' \subseteq Open
    BY <1>0, <1>2 DEF ExpireStale, Open, Paused, TypeOK
  <2>2. PICK p \in Turns : TRUE
    BY <1>2 DEF ExpireStale, Paused
  <2>3. UNCHANGED <<pc, outcome, answers, reply, newest, about>>
    BY <1>2 DEF ExpireStale, chat
  <2>4. /\ (Active(p)' <=> Active(p)) /\ (Asking(p)' <=> Asking(p))
        /\ (Answering(p)' <=> Answering(p)) /\ (TurnInOrder(p)' <=> TurnInOrder(p))
    BY <2>3 DEF Active, Asking, Answering, TurnInOrder
  <2>. QED BY <2>1, <2>2, <2>3, <2>4, OrderKept, OpenTurns DEF InOrder, OpenAlone
<1>3. ASSUME NEW p \in Turns, Ask(p) \/ \E q \in Turns : Resume(p, q) PROVE InOrder'
  <2>1. /\ \A q \in Turns : ~Active(q)
        /\ pc[p] = "idle" /\ pc' = [pc EXCEPT ![p] = "received"] /\ UNCHANGED <<run, expired, outcome, reply, newest, about>>
        /\ \A q \in Turns \ {p} : answers'[q] = answers[q]
    BY <1>0, <1>3 DEF Ask, Resume, Arrives, Active, Goto, rows, chat, TypeOK
  <2>2. answers'[p] = None => answers[p] = None /\ Open = {}
    <3>1. CASE Ask(p)
      BY <3>1, OpenTurns DEF Ask
    <3>2. ASSUME NEW q \in Turns, Resume(p, q) PROVE answers'[p] # None
      BY <1>0, <3>2 DEF Resume, TypeOK
    <3>. QED BY <1>3, <3>1, <3>2
  <2>3. /\ \A q \in Turns \ {p} : pc'[q] = pc[q]
        /\ pc'[p] = "received"
    BY <1>0, <2>1 DEF TypeOK
  <2>4. TurnInOrder(p)'
    BY <2>1, <2>2, <2>3 DEF InOrder, TurnInOrder
  <2>5. Open' = Open
    BY <2>1 DEF Open, Paused
  <2>6. (Asking(p)' => Open = {}) /\ ~Answering(p)'
    BY <2>2, <2>3 DEF Asking, Answering
  <2>. QED BY <2>1, <2>3, <2>4, <2>5, <2>6, OrderKept, OpenTurns
<1>4. ASSUME NEW p \in Turns,
             \/ Start(p) \/ (TurnStarted(p) /\ answers[p] # None) \/ LockPaused(p) \/ AbandonExpired(p)
             \/ FailBeforeStream(p) \/ LoadSession(p) \/ AppendInput(p) \/ AppendOutput(p) \/ StopRun(p)
             \/ Complete(p) \/ Finish(p)
      PROVE  InOrder'
  <2>1. /\ UNCHANGED <<answers, newest, about, reply, expired>>
        /\ \A q \in Turns \ {p} : pc'[q] = pc[q] /\ outcome'[q] = outcome[q]
    BY <1>0, <1>4 DEF Start, TurnStarted, LockPaused, AbandonExpired, FailBeforeStream, LoadSession, AppendInput,
                      AppendOutput, StopRun, Complete, Finish, Goto, Settle, TypeOK, rows, chat
  <2>2. /\ Active(p) /\ pc[p] # "done"
        /\ Asking(p)' => Asking(p)
        /\ Answering(p)' => Answering(p)
        /\ pc'[p] = "finish" => outcome'[p] # "interrupted"
    <3>1. CASE Start(p) \/ (TurnStarted(p) /\ answers[p] # None)
      BY <1>0, <3>1 DEF Start, TurnStarted, Goto, TypeOK, Active, Asking, Answering
    <3>2. CASE LockPaused(p) \/ AbandonExpired(p) \/ FailBeforeStream(p)
      <4>1. \/ pc'[p] = "claimed"
            \/ pc'[p] = "finish" /\ outcome'[p] = "failed"
        BY <1>0, <3>2 DEF LockPaused, AbandonExpired, FailBeforeStream, Goto, Settle, TypeOK
      <4>2. pc[p] \in {"begin", "claim", "claimed", "abandon"}
        BY <3>2 DEF LockPaused, AbandonExpired, FailBeforeStream
      <4>. QED BY <4>1, <4>2 DEF Active, Asking, Answering
    <3>3. CASE LoadSession(p) \/ AppendInput(p) \/ AppendOutput(p)
      BY <1>0, <3>3 DEF LoadSession, AppendInput, AppendOutput, Goto, TypeOK, Active, Asking, Answering
    <3>4. CASE Complete(p)
      BY <1>0, <3>4 DEF Complete, Goto, Settle, TypeOK, Active, Asking, Answering
    <3>5. CASE StopRun(p)
      <4>1. PICK end \in {"failed", "cancelled"} : Settle(p, end)
        BY <3>5 DEF StopRun
      <4>2. outcome'[p] \in {"failed", "cancelled"}
        BY <1>0, <4>1 DEF Settle, TypeOK
      <4>3. pc[p] \in {"stream", "agent", "thinking", "answered", "pausing"} /\ pc'[p] = "finish"
        BY <1>0, <3>5 DEF StopRun, InStream, Goto, TypeOK
      <4>. QED BY <4>2, <4>3 DEF Active, Asking, Answering
    <3>6. CASE Finish(p)
      BY <1>0, <3>6 DEF Finish, Goto, TypeOK, Active, Asking, Answering
    <3>. QED BY <1>4, <3>1, <3>2, <3>3, <3>4, <3>5, <3>6
  <2>3. Open' \subseteq Open
    <3>1. CASE UNCHANGED run
      BY <2>1, <3>1 DEF Open, Paused
    <3>2. CASE Start(p)
      BY <1>0, <2>1, <3>2 DEF Start, Open, Paused, TypeOK
    <3>3. CASE AbandonExpired(p)
      BY <1>0, <2>1, <3>3 DEF AbandonExpired, Open, Paused, TypeOK
    <3>4. CASE Finish(p)
      <4>1. outcome[p] # "interrupted"
        BY <3>4 DEF Finish, InOrder, TurnInOrder
      <4>. QED BY <1>0, <2>1, <3>4, <4>1 DEF Finish, Open, Paused, TypeOK
    <3>. QED BY <1>4, <3>1, <3>2, <3>3, <3>4
         DEF TurnStarted, LockPaused, FailBeforeStream, LoadSession, AppendInput, AppendOutput, StopRun, Complete, rows
  <2>4. TurnInOrder(p)'
    BY <2>1, <2>2 DEF InOrder, TurnInOrder
  <2>5. Asking(p)' => Open = {}
    BY <2>2 DEF InOrder, OpenAlone
  <2>. QED BY <2>1, <2>2, <2>3, <2>4, <2>5, OrderKept, OpenTurns
<1>5. ASSUME NEW p \in Turns, TurnStarted(p), answers[p] = None PROVE InOrder'
  <2>1. /\ pc[p] = "begin" /\ pc'[p] = "stream" /\ newest' = <<"user", p>>
        /\ UNCHANGED <<answers, run, expired, outcome, reply, about>>
        /\ \A q \in Turns \ {p} : pc'[q] = pc[q]
    BY <1>0, <1>5 DEF TurnStarted, Goto, TypeOK, rows
  <2>2. Open = {} /\ Open' = {} /\ about[p] = p /\ Active(p)
    BY <1>5, <2>1 DEF InOrder, OpenAlone, TurnInOrder, Open, Paused, Asking, Active
  <2>3. \A q \in Turns \ {p} : ~Active(q)' /\ ~Answering(q)' /\ TurnInOrder(q)'
    BY <2>1, <2>2, Busy DEF InOrder, TurnInOrder, Active, Answering
  <2>4. TurnInOrder(p)'
    BY <2>1 DEF InOrder, TurnInOrder
  <2>5. \A q \in Turns : TurnInOrder(q)'
    BY <2>3, <2>4
  <2>6. OneAtATime'
    BY <2>3 DEF OneAtATime
  <2>7. OpenAlone' /\ QuestionOnTop'
    BY <2>1, <2>2, <2>3 DEF OpenAlone, QuestionOnTop
  <2>. QED BY <2>5, <2>6, <2>7 DEF InOrder
<1>6. ASSUME NEW p \in Turns, ClaimResume(p) PROVE InOrder'
  <2>1. /\ pc[p] = "claimed" /\ found[p] \in Paused /\ found[p] \in Turns /\ p \notin Paused
        /\ UNCHANGED <<answers, expired, newest, reply>>
        /\ \A q \in Turns \ {p} : pc'[q] = pc[q] /\ outcome'[q] = outcome[q]
    BY <1>0, <1>6 DEF ClaimResume, IInv, ClaimsHoldTheLock, PausedHaveLeft, Paused, Goto, Settle, TypeOK, chat
  <2>2. CASE found[p] \in expired \/ found[p] # answers[p]
    <3>1. /\ UNCHANGED <<run, about>>
          /\ pc'[p] = "abandon" \/ (pc'[p] = "finish" /\ outcome'[p] = "failed")
      BY <1>0, <1>6, <2>2 DEF ClaimResume, Goto, Settle, TypeOK
    <3>2. Open' = Open
      BY <2>1, <3>1 DEF Open, Paused
    <3>3. Active(p) /\ ~Asking(p)' /\ ~Answering(p)' /\ TurnInOrder(p)'
      BY <2>1, <3>1 DEF Active, Asking, Answering, InOrder, TurnInOrder
    <3>. QED BY <2>1, <3>1, <3>2, <3>3, OrderKept, OpenTurns
  <2>3. CASE found[p] \notin expired /\ found[p] = answers[p]
    <3>1. /\ run' = [run EXCEPT ![found[p]] = "completed"] /\ about' = [about EXCEPT ![p] = about[found[p]]]
          /\ pc' = [pc EXCEPT ![p] = "stream"] /\ UNCHANGED outcome
      BY <1>6, <2>3 DEF ClaimResume, Goto
    <3>2. /\ pc'[p] = "stream" /\ about'[p] = about[found[p]]
          /\ \A q \in Turns \ {p} : about'[q] = about[q]
      BY <1>0, <3>1 DEF TypeOK
    <3>3. Open' = {} /\ found[p] \in Open
      BY <1>0, <2>1, <2>3, <3>1 DEF InOrder, OpenAlone, Open, Paused, TypeOK
    <3>4. newest = <<"user", about'[p]>>
      BY <3>2, <3>3 DEF InOrder, QuestionOnTop
    <3>5. Active(p) /\ answers[p] # None
      BY <2>1, <2>3 DEF Active
    <3>6. \A q \in Turns \ {p} : ~Active(q)' /\ ~Answering(q)' /\ TurnInOrder(q)'
      BY <2>1, <3>2, <3>5, Busy DEF InOrder, TurnInOrder, Active, Answering
    <3>7. TurnInOrder(p)'
      BY <2>1, <3>2, <3>5 DEF InOrder, TurnInOrder
    <3>8. \A q \in Turns : TurnInOrder(q)'
      BY <3>6, <3>7
    <3>9. OneAtATime'
      BY <3>6 DEF OneAtATime
    <3>10. OpenAlone' /\ QuestionOnTop'
      BY <2>1, <3>3, <3>4, <3>6 DEF OpenAlone, QuestionOnTop
    <3>. QED BY <3>8, <3>9, <3>10 DEF InOrder
  <2>. QED BY <2>2, <2>3
<1>7. ASSUME NEW p \in Turns, Interrupt(p) PROVE InOrder'
  <2>1. /\ pc[p] = "pausing" /\ Active(p) /\ Answering(p) /\ newest = <<"user", about[p]>>
        /\ UNCHANGED <<answers, expired, newest, reply, about>>
        /\ \A q \in Turns \ {p} : pc'[q] = pc[q] /\ outcome'[q] = outcome[q]
    BY <1>0, <1>7 DEF Interrupt, Goto, Settle, TypeOK, chat, Active, Answering, InOrder, QuestionOnTop
  <2>2. Open = {}
    BY <2>1 DEF InOrder, OpenAlone
  <2>3. /\ run' = [q \in Turns |-> IF q = p THEN "interrupted" ELSE IF q \in Paused THEN "abandoned" ELSE run[q]]
        /\ pc'[p] = "tell" /\ outcome'[p] = "interrupted"
    BY <1>0, <1>7, <2>2, OpenTurns DEF Interrupt, Goto, Settle, TypeOK
  <2>4. Open' \subseteq {p}
    BY <2>3 DEF Open, Paused
  <2>5. \A q \in Turns \ {p} : ~Active(q)' /\ ~Asking(q)' /\ ~Answering(q)' /\ TurnInOrder(q)'
    BY <2>1, Busy DEF InOrder, TurnInOrder, Active, Asking, Answering
  <2>6. ~Asking(p)' /\ ~Answering(p)' /\ TurnInOrder(p)'
    BY <2>1, <2>3 DEF InOrder, TurnInOrder, Asking, Answering
  <2>7. \A q \in Turns : TurnInOrder(q)'
    BY <2>5, <2>6
  <2>8. OneAtATime'
    BY <2>5 DEF OneAtATime
  <2>9. OpenAlone' /\ QuestionOnTop'
    BY <2>1, <2>4, <2>5, <2>6 DEF OpenAlone, QuestionOnTop
  <2>. QED BY <2>7, <2>8, <2>9 DEF InOrder
<1>8. ASSUME NEW p \in Turns, TurnFinished(p) PROVE InOrder'
  <2>1. /\ pc[p] = "tell" /\ Active(p) /\ pc'[p] = "done" /\ UNCHANGED <<answers, run, expired, about>>
        /\ \A q \in Turns \ {p} : pc'[q] = pc[q] /\ outcome'[q] = outcome[q]
    BY <1>0, <1>8 DEF TurnFinished, Leave, Goto, TypeOK, rows, Active
  <2>2. Open' = Open /\ ~Active(p)' /\ ~Asking(p)' /\ ~Answering(p)'
    BY <2>1 DEF Open, Paused, Active, Asking, Answering
  <2>3. CASE UNCHANGED chat
    <3>1. TurnInOrder(p)'
      BY <2>1, <2>3 DEF InOrder, TurnInOrder, chat
    <3>. QED BY <2>1, <2>2, <2>3, <3>1, OrderKept, OpenTurns DEF chat
  <2>4. CASE outcome[p] = "completed" /\ newest' = <<"ai", p>>
             /\ reply' = [reply EXCEPT ![p] = IF answers[p] = None THEN <<"user", p>> ELSE newest]
    <3>1. Answering(p)
      BY <2>1, <2>4 DEF Answering
    <3>2. Open = {} /\ newest = <<"user", about[p]>>
      BY <3>1 DEF InOrder, OpenAlone, QuestionOnTop
    <3>3. answers[p] = None => about[p] = p
      BY DEF InOrder, TurnInOrder
    <3>4. /\ reply'[p] = <<"user", about[p]>>
          /\ \A q \in Turns \ {p} : reply'[q] = reply[q]
      BY <1>0, <2>4, <3>2, <3>3 DEF TypeOK
    <3>5. \A q \in Turns \ {p} : ~Active(q)' /\ ~Asking(q)' /\ ~Answering(q)' /\ TurnInOrder(q)'
      BY <2>1, <3>4, Busy DEF InOrder, TurnInOrder, Active, Asking, Answering
    <3>6. TurnInOrder(p)'
      BY <2>1, <3>3, <3>4 DEF TurnInOrder
    <3>7. \A q \in Turns : TurnInOrder(q)'
      BY <3>5, <3>6
    <3>8. OneAtATime'
      BY <3>5 DEF OneAtATime
    <3>9. OpenAlone' /\ QuestionOnTop'
      BY <2>2, <3>2, <3>5 DEF OpenAlone, QuestionOnTop
    <3>. QED BY <3>7, <3>8, <3>9 DEF InOrder
  <2>. QED BY <1>8, <2>3, <2>4 DEF TurnFinished
<1>9. ASSUME NEW p \in Turns, Crash(p) PROVE InOrder'
  <2>1. /\ Active(p) /\ pc'[p] = "done" /\ UNCHANGED <<answers, run, expired, newest, reply, about>>
        /\ \A q \in Turns \ {p} : pc'[q] = pc[q] /\ outcome'[q] = outcome[q]
    BY <1>0, <1>9 DEF Crash, Leave, Goto, TypeOK, rows, chat, Active
  <2>2. Open' = Open /\ ~Asking(p)' /\ ~Answering(p)' /\ TurnInOrder(p)'
    BY <2>1 DEF Open, Paused, Asking, Answering, InOrder, TurnInOrder
  <2>. QED BY <2>1, <2>2, OrderKept, OpenTurns
<1>10. ASSUME NEW p \in Turns, PauseExpires(p) PROVE InOrder'
  <2>1. UNCHANGED <<pc, outcome, answers, reply, newest, about, run>> /\ expired \subseteq expired'
    BY <1>10 DEF PauseExpires, chat
  <2>2. /\ (Active(p)' <=> Active(p)) /\ (Asking(p)' <=> Asking(p))
        /\ (Answering(p)' <=> Answering(p)) /\ (TurnInOrder(p)' <=> TurnInOrder(p))
    BY <2>1 DEF Active, Asking, Answering, TurnInOrder
  <2>3. Open' \subseteq Open
    BY <2>1 DEF Open, Paused
  <2>. QED BY <2>1, <2>2, <2>3, OrderKept, OpenTurns DEF InOrder, OpenAlone
<1>. QED BY <1>1, <1>2, <1>3, <1>4, <1>5, <1>6, <1>7, <1>8, <1>9, <1>10 DEF Next, Rest, Work

\* Where a request is answered before the next one arrives, every answer is stored
\* below the question it answers - whether the run paused in between or not, and
\* whatever failed or crashed before.  (With overlapping requests it is not: see
\* the run that shows a resume storing its answer below another tab's question.)
THEOREM AnswersFindTheirQuestion == ASSUME ~Overlap PROVE Spec => []AnswersItsQuestion
<1>1. ASSUME Init PROVE InOrder
  <2>1. \A q \in Turns : pc[q] = "idle" /\ run[q] = None /\ answers[q] = None /\ reply[q] = None /\ about[q] = q
    BY <1>1 DEF Init
  <2>2. Open = {}
    BY <2>1, AgentAssumption DEF Open, Paused, AgentAssumption, Ends
  <2>3. \A q \in Turns : ~Active(q) /\ ~Asking(q) /\ ~Answering(q) /\ TurnInOrder(q)
    BY <2>1 DEF Active, Asking, Answering, TurnInOrder
  <2>. QED BY <2>2, <2>3 DEF InOrder, OneAtATime, OpenAlone, QuestionOnTop
<1>2. IInv /\ InOrder /\ [Next]_vars => InOrder'
  BY OrderStep
<1>3. InOrder => AnswersItsQuestion
  BY DEF InOrder, TurnInOrder, AnswersItsQuestion
<1>. QED BY <1>1, <1>2, <1>3, Inductive, PTL DEF Spec

-----------------------------------------------------------------------------
(* Streams.                                                                *)

Events == (Nat \ {0}) \X Nat
Payloads == Nat \X Nat

StreamTypes ==
    /\ relay \in {"subscribe", "enqueue", "loop", "over"}
    /\ job \in {"none", "queued", "running", "saved", "over"}
    /\ attempt \in 0 .. MaxAttempts
    /\ emitted \in 0 .. Steps + 1
    /\ buffer \in Seq(Events) /\ Len(buffer) <= BufferSize
    /\ channel \in Seq(Payloads) /\ relayed \in Seq(Payloads) /\ published \in Seq(Payloads)
    /\ report \in BOOLEAN /\ cancelled \in BOOLEAN /\ closed \in BOOLEAN
    /\ saved \in {"no", "yes", "failed", "aborted"}

\* The job is enqueued by a relay that has subscribed: before, nothing is said.
SubscribedFirst ==
    /\ relay \in {"subscribe", "enqueue"} => job = "none"
    /\ job = "none" => attempt = 0 /\ channel = <<>> /\ relayed = <<>> /\ published = <<>>
    /\ job = "queued" => attempt < MaxAttempts
    /\ job \in {"running", "saved"} => attempt > 0

\* What the loop has passed on and what is on its way is all there is.
NothingLost == relay = "loop" => relayed \o channel = published

LastIsReport == published # <<>> /\ published[Len(published)][2] = Report

\* Whatever an attempt that has begun to emit has last shown, it knows whether
\* that was the report, since the first of its events always finds room.
ReportIsSeen ==
    /\ job = "running" /\ ~cancelled /\ (closed \/ emitted > 0) /\ buffer = <<>> /\ LastIsReport
         => report
    /\ job = "saved" /\ ~cancelled /\ LastIsReport => saved \in {"yes", "failed"}

StreamOrder == StreamTypes /\ SubscribedFirst /\ NothingLost

\* The end is the last message, and nothing is saved after it.
EndsOnce == job # "over" => \A n \in 1 .. Len(published) : published[n] # Done
StreamInv == StreamOrder /\ ReportIsSeen /\ EndsOnce /\ DoneMeansSaved

-----------------------------------------------------------------------------
LEMMA LimitsHold == Steps \in Nat /\ BufferSize \in Nat \ {0} /\ MaxAttempts \in Nat \ {0}
<1>1. Steps \in {Steps, MaxCrashes} /\ BufferSize \in {BufferSize, MaxAttempts}
      /\ MaxAttempts \in {BufferSize, MaxAttempts}
  OBVIOUS
<1>. QED BY <1>1, RelayAssumption DEF RelayAssumption

\* What is delivered to the loop comes after all the rest.
LEMMA DeliverStep ==
    ASSUME StreamOrder, job \in {"running", "saved"}, NEW message \in Payloads, Deliver(message)
    PROVE  /\ published' \in Seq(Payloads) /\ channel' \in Seq(Payloads)
           /\ relay = "loop" => relayed \o channel' = published'
           /\ Len(published') = Len(published) + 1 /\ published'[Len(published')] = message
           /\ \A n \in 1 .. Len(published) : published'[n] = published[n]
           /\ published' # <<>>
<1>1. published \in Seq(Payloads) /\ channel \in Seq(Payloads) /\ relayed \in Seq(Payloads)
  BY DEF StreamOrder, StreamTypes
<1>2. published' = Append(published, message)
  BY DEF Deliver
<1>3. channel' \in Seq(Payloads)
  BY <1>1 DEF Deliver
<1>4. ASSUME relay = "loop" PROVE relayed \o channel' = published'
  <2>1. channel' = Append(channel, message) /\ relayed \o channel = published
    BY <1>4 DEF Deliver, StreamOrder, NothingLost
  <2>2. relayed \o Append(channel, message) = Append(relayed \o channel, message)
    BY <1>1
  <2>. QED BY <1>2, <2>1, <2>2
<1>. QED BY <1>1, <1>2, <1>3, <1>4

LEMMA StreamOrderStep == ASSUME StreamOrder, [RelayNext]_relayVars PROVE StreamOrder'
<1>. USE LimitsHold DEF StreamOrder
<1>1. CASE Subscribe
  BY <1>1 DEF Subscribe, agentVars, StreamTypes, SubscribedFirst, NothingLost
<1>2. CASE Enqueue
  <2>1. channel = <<>> /\ relayed = <<>> /\ published = <<>>
    BY <1>2 DEF Enqueue, SubscribedFirst
  <2>2. <<>> \o <<>> = <<>>
    OBVIOUS
  <2>. QED BY <1>2, <2>1, <2>2 DEF Enqueue, agentVars, StreamTypes, SubscribedFirst, NothingLost
<1>3. CASE Receive
  <2>1. channel # <<>> /\ channel \in Seq(Payloads) /\ relayed \in Seq(Payloads) /\ relay = "loop"
    BY <1>3 DEF Receive, StreamTypes
  <2>2. Tail(channel) \in Seq(Payloads) /\ Head(channel) \in Payloads
    BY <2>1
  <2>3. Append(relayed, Head(channel)) \o Tail(channel) = relayed \o channel
    BY <2>1, <2>2
  <2>4. Append(relayed, Head(channel)) \in Seq(Payloads)
    BY <2>1, <2>2
  <2>. QED BY <1>3, <2>1, <2>2, <2>3, <2>4 DEF Receive, agentVars, StreamTypes, SubscribedFirst, NothingLost
<1>4. CASE ClientGone \/ Inactivity \/ Disconnect \/ Abort
  <2>1. /\ relay' = relay \/ (relay = "loop" /\ relay' = "over")
        /\ UNCHANGED <<channel, relayed, job, attempt, cancelled, emitted, closed, buffer, report, saved, published>>
    BY <1>4 DEF ClientGone, Inactivity, Disconnect, Abort, agentVars
  <2>2. StreamTypes'
    BY <2>1 DEF StreamTypes
  <2>3. SubscribedFirst' /\ NothingLost'
    BY <2>1 DEF SubscribedFirst, NothingLost
  <2>. QED BY <2>2, <2>3
<1>5. CASE StartJob
  <2>1. <<>> \in Seq(Events) /\ Len(<<>>) = 0
    OBVIOUS
  <2>2. /\ job' = "running" /\ attempt' = attempt + 1 /\ attempt < MaxAttempts /\ job = "queued"
        /\ cancelled' = FALSE /\ emitted' = 0 /\ closed' = FALSE /\ buffer' = <<>> /\ report' = FALSE
        /\ UNCHANGED <<relay, channel, relayed, saved, published>>
    BY <1>5 DEF StartJob, SubscribedFirst
  <2>3. buffer' \in Seq(Events) /\ Len(buffer') <= BufferSize
    BY <2>1, <2>2
  <2>4. attempt' \in 0 .. MaxAttempts /\ attempt' > 0 /\ emitted' \in 0 .. Steps + 1
    BY <2>2 DEF StreamTypes
  <2>5. StreamTypes'
    BY <2>2, <2>3, <2>4 DEF StreamTypes
  <2>. QED BY <2>2, <2>4, <2>5 DEF SubscribedFirst, NothingLost
<1>6. CASE Watch \/ WorkerCrash
  BY <1>6 DEF Watch, WorkerCrash, agentVars, StreamTypes, SubscribedFirst, NothingLost
<1>7. ASSUME NEW n \in Nat, job = "running", Emit(<<attempt, n>>)
      PROVE  buffer' \in Seq(Events) /\ Len(buffer') <= BufferSize
  <2>1. <<attempt, n>> \in Events /\ buffer \in Seq(Events) /\ Len(buffer) <= BufferSize
    BY <1>7 DEF Events, StreamTypes, SubscribedFirst
  <2>2. CASE Len(buffer) < BufferSize /\ buffer' = Append(buffer, <<attempt, n>>)
    BY <2>1, <2>2
  <2>3. CASE buffer' = buffer
    BY <2>1, <2>3
  <2>. QED BY <1>7, <2>2, <2>3 DEF Emit
<1>8. CASE AgentStep \/ AgentReport \/ AgentCancelled
  <2>1. /\ job = "running" /\ \E n \in Nat : Emit(<<attempt, n>>)
        /\ emitted' \in 0 .. Steps + 1 /\ closed' \in BOOLEAN
    <3>1. emitted + 1 \in Nat /\ Steps + 1 \in Nat /\ 0 \in Nat
      BY DEF StreamTypes
    <3>2. CASE AgentStep
      <4>1. job = "running" /\ emitted' = emitted + 1 /\ closed' = closed /\ emitted < Steps
            /\ Emit(<<attempt, emitted + 1>>)
        BY <3>2 DEF AgentStep
      <4>2. emitted' \in 0 .. Steps + 1 /\ closed' \in BOOLEAN
        BY <4>1 DEF StreamTypes
      <4>. QED BY <3>1, <4>1, <4>2
    <3>3. CASE AgentReport
      <4>1. job = "running" /\ emitted' = emitted + 1 /\ closed' = TRUE /\ emitted = Steps
            /\ Emit(<<attempt, Steps + 1>>)
        BY <3>3 DEF AgentReport, Report
      <4>2. emitted' \in 0 .. Steps + 1 /\ closed' \in BOOLEAN
        BY <4>1 DEF StreamTypes
      <4>. QED BY <3>1, <4>1, <4>2
    <3>4. CASE AgentCancelled
      BY <3>1, <3>4 DEF AgentCancelled, Cancelled, StreamTypes
    <3>. QED BY <1>8, <3>2, <3>3, <3>4
  <2>2. buffer' \in Seq(Events) /\ Len(buffer') <= BufferSize
    BY <1>7, <2>1
  <2>3. UNCHANGED <<relay, channel, relayed, job, attempt, cancelled, report, saved, published>>
    BY <2>1 DEF Emit
  <2>. QED BY <2>1, <2>2, <2>3 DEF StreamTypes, SubscribedFirst, NothingLost
<1>9. CASE PublishEvent
  <2>1. /\ job = "running" /\ buffer # <<>> /\ buffer' = Tail(buffer)
        /\ UNCHANGED <<relay, relayed, job, attempt, cancelled, emitted, closed, saved>>
        /\ report' = (report \/ Head(buffer)[2] = Report)
    BY <1>9 DEF PublishEvent
  <2>2. Head(buffer) \in Payloads
    BY <2>1 DEF StreamTypes, Events, Payloads
  <2>3. buffer' \in Seq(Events) /\ Len(buffer') <= BufferSize /\ report' \in BOOLEAN
    BY <2>1 DEF StreamTypes
  <2>4. CASE cancelled
    BY <1>9, <2>1, <2>3, <2>4 DEF PublishEvent, StreamTypes, SubscribedFirst, NothingLost
  <2>5. CASE ~cancelled
    <3>1. Deliver(Head(buffer))
      BY <1>9, <2>5 DEF PublishEvent
    <3>. QED BY <2>1, <2>2, <2>3, <3>1, DeliverStep DEF StreamTypes, SubscribedFirst, NothingLost
  <2>. QED BY <2>4, <2>5
<1>10. CASE Save
  BY <1>10 DEF Save, agentVars, StreamTypes, SubscribedFirst, NothingLost
<1>11. CASE PublishDone
  <2>1. job = "saved" /\ job' = "over" /\ Done \in Payloads
        /\ UNCHANGED <<relay, relayed, attempt, cancelled, agentVars, report, saved>>
    BY <1>11 DEF PublishDone, Done, Payloads
  <2>2. CASE cancelled
    BY <1>11, <2>1, <2>2 DEF PublishDone, agentVars, StreamTypes, SubscribedFirst, NothingLost
  <2>3. CASE ~cancelled
    <3>1. Deliver(Done)
      BY <1>11, <2>3 DEF PublishDone
    <3>. QED BY <2>1, <3>1, DeliverStep DEF agentVars, StreamTypes, SubscribedFirst, NothingLost
  <2>. QED BY <2>2, <2>3
<1>12. CASE UNCHANGED relayVars
  BY <1>12 DEF relayVars, agentVars, StreamTypes, SubscribedFirst, NothingLost
<1>. QED BY <1>1, <1>2, <1>3, <1>4, <1>5, <1>6, <1>8, <1>9, <1>10, <1>11, <1>12 DEF RelayNext, Relay, Worker

LEMMA StreamOrderInit == RelayInit => StreamOrder
<1>1. <<>> \in Seq(Events) /\ <<>> \in Seq(Payloads) /\ Len(<<>>) = 0
  OBVIOUS
<1>2. ASSUME RelayInit PROVE StreamTypes
  <2>1. emitted \in 0 .. Steps + 1 /\ attempt \in 0 .. MaxAttempts
    BY <1>2, LimitsHold DEF RelayInit, RelayStarts
  <2>2. buffer \in Seq(Events) /\ Len(buffer) <= BufferSize
    BY <1>2, LimitsHold DEF RelayInit, RelayStarts
  <2>3. channel \in Seq(Payloads) /\ relayed \in Seq(Payloads) /\ published \in Seq(Payloads)
    BY <1>2 DEF RelayInit, RelayStarts
  <2>. QED BY <1>2, <2>1, <2>2, <2>3 DEF RelayInit, RelayStarts, StreamTypes
<1>3. ASSUME RelayInit PROVE SubscribedFirst /\ NothingLost
  BY <1>3 DEF RelayInit, RelayStarts, SubscribedFirst, NothingLost
<1>. QED BY <1>2, <1>3 DEF StreamOrder

\* While the relay listens the client has received the first of the messages the
\* job has published, and the rest are on their way in order (sserelay subscribes
\* before it enqueues).
THEOREM NothingEverMissed == RelaySpec => []NothingIsMissed
<1>1. StreamOrder => NothingIsMissed
  BY DEF StreamOrder, StreamTypes, SubscribedFirst, NothingLost, NothingIsMissed, RelayTypeOK
<1>. QED BY StreamOrderInit, StreamOrderStep, <1>1, PTL DEF RelaySpec

-----------------------------------------------------------------------------
LEMMA SeenStep ==
    ASSUME StreamInv, StreamOrder', [RelayNext]_relayVars
    PROVE  ReportIsSeen' /\ EndsOnce' /\ DoneMeansSaved'
<1>. USE LimitsHold
<1>a. /\ StreamOrder /\ buffer \in Seq(Events) /\ published \in Seq(Payloads) /\ emitted \in Nat
      /\ cancelled \in BOOLEAN
  BY DEF StreamInv, StreamOrder, StreamTypes
<1>b. (job' # "over" => \A n \in 1 .. Len(published') : published'[n] # Done)
      /\ (job' = "over" => DoneMeansSaved') => EndsOnce' /\ DoneMeansSaved'
  BY <1>a DEF EndsOnce, DoneMeansSaved
<1>1. CASE \/ Subscribe \/ Enqueue \/ Receive \/ ClientGone \/ Inactivity \/ Disconnect \/ Abort
           \/ WorkerCrash \/ Watch \/ UNCHANGED relayVars
  <2>1. /\ UNCHANGED <<emitted, closed, buffer, report, saved, published>>
        /\ job' # job => job' \notin {"running", "saved"}
        /\ job' = job => cancelled' \/ cancelled' = cancelled
    <3>1. CASE Subscribe \/ Enqueue \/ Receive \/ ClientGone \/ Inactivity \/ Disconnect \/ Abort
      BY <3>1 DEF Subscribe, Enqueue, Receive, ClientGone, Inactivity, Disconnect, Abort, agentVars
    <3>2. CASE WorkerCrash \/ Watch \/ UNCHANGED relayVars
      BY <3>2 DEF WorkerCrash, Watch, relayVars, agentVars
    <3>. QED BY <1>1, <3>1, <3>2
  <2>2. job' # "over" => job # "over"
    <3>1. CASE Subscribe \/ Enqueue \/ Receive \/ ClientGone \/ Inactivity \/ Disconnect \/ Abort
      BY <3>1 DEF Subscribe, Enqueue, Receive, ClientGone, Inactivity, Disconnect, Abort
    <3>2. CASE WorkerCrash \/ Watch \/ UNCHANGED relayVars
      BY <3>2 DEF WorkerCrash, Watch, relayVars
    <3>. QED BY <1>1, <3>1, <3>2
  <2>. QED BY <2>1, <2>2 DEF StreamInv, ReportIsSeen, LastIsReport, EndsOnce, DoneMeansSaved
<1>2. CASE StartJob
  BY <1>2 DEF StartJob, StreamInv, ReportIsSeen, LastIsReport, EndsOnce, DoneMeansSaved
<1>3. CASE AgentStep \/ AgentReport \/ AgentCancelled
  <2>1. \E event : Emit(event)
    BY <1>3 DEF AgentStep, AgentReport, AgentCancelled
  <2>2. buffer' # <<>>
    BY <1>a, <2>1 DEF Emit
  <2>3. UNCHANGED <<job, saved, published, cancelled>> /\ job = "running"
    BY <1>3, <2>1 DEF Emit, AgentStep, AgentReport, AgentCancelled
  <2>. QED BY <2>2, <2>3 DEF StreamInv, ReportIsSeen, LastIsReport, EndsOnce, DoneMeansSaved
<1>4. CASE PublishEvent
  <2>1. /\ job = "running" /\ buffer # <<>> /\ UNCHANGED <<job, saved, cancelled>>
        /\ report' = (report \/ Head(buffer)[2] = Report)
        /\ Head(buffer) \in Payloads /\ Head(buffer) # Done
    BY <1>4, <1>a DEF PublishEvent, Events, Payloads, Done
  <2>2. CASE cancelled
    BY <1>4, <2>1, <2>2 DEF PublishEvent, StreamInv, ReportIsSeen, LastIsReport, EndsOnce, DoneMeansSaved
  <2>3. CASE ~cancelled
    <3>1. /\ Len(published') = Len(published) + 1 /\ published'[Len(published')] = Head(buffer)
          /\ \A n \in 1 .. Len(published) : published'[n] = published[n]
      BY <1>4, <1>a, <2>1, <2>3, DeliverStep DEF PublishEvent
    <3>2. ASSUME NEW n \in 1 .. Len(published') PROVE published'[n] # Done
      <4>1. n = Len(published') \/ n \in 1 .. Len(published)
        BY <1>a, <3>1
      <4>. QED BY <2>1, <3>1, <4>1 DEF StreamInv, EndsOnce
    <3>3. ReportIsSeen'
      BY <2>1, <3>1 DEF ReportIsSeen, LastIsReport
    <3>. QED BY <1>b, <2>1, <3>2, <3>3
  <2>. QED BY <2>2, <2>3
<1>5. CASE Save
  <2>1. /\ job = "running" /\ closed /\ buffer = <<>> /\ UNCHANGED <<published, cancelled>>
        /\ job' = "saved" /\ (report /\ ~cancelled => saved' \in {"yes", "failed"})
    BY <1>5 DEF Save
  <2>2. \A n \in 1 .. Len(published') : published'[n] # Done
    BY <2>1 DEF StreamInv, EndsOnce
  <2>3. ReportIsSeen'
    BY <2>1 DEF StreamInv, ReportIsSeen, LastIsReport
  <2>. QED BY <1>b, <2>1, <2>2, <2>3
<1>6. CASE PublishDone
  <2>1. job = "saved" /\ job' = "over" /\ UNCHANGED <<saved, cancelled>> /\ Done \in Payloads
    BY <1>6 DEF PublishDone, Done, Payloads
  <2>2. ReportIsSeen' /\ EndsOnce'
    BY <2>1 DEF ReportIsSeen, EndsOnce
  <2>3. CASE cancelled
    BY <1>6, <2>1, <2>2, <2>3 DEF PublishDone, StreamInv, DoneMeansSaved
  <2>4. CASE ~cancelled
    <3>1. /\ Len(published') = Len(published) + 1
          /\ \A n \in 1 .. Len(published) : published'[n] = published[n]
      BY <1>6, <1>a, <2>1, <2>4, DeliverStep DEF PublishDone
    <3>2. published # <<>> /\ published[Len(published)][2] = Report => saved \in {"yes", "failed"}
      BY <2>1, <2>4 DEF StreamInv, ReportIsSeen, LastIsReport
    <3>3. ASSUME NEW n \in 2 .. Len(published'),
                 published'[n] = Done, published'[n - 1][2] = Report
          PROVE  saved \in {"yes", "failed"}
      <4>1. CASE n <= Len(published)
        <5>1. n \in 2 .. Len(published) /\ n \in 1 .. Len(published) /\ n - 1 \in 1 .. Len(published)
          BY <1>a, <3>1, <3>3, <4>1
        <5>2. published[n] = Done /\ published[n - 1][2] = Report
          BY <3>1, <3>3, <5>1
        <5>. QED BY <5>1, <5>2 DEF StreamInv, DoneMeansSaved
      <4>2. CASE n = Len(published) + 1
        BY <1>a, <3>1, <3>2, <3>3, <4>2
      <4>. QED BY <1>a, <3>1, <4>1, <4>2
    <3>. QED BY <2>1, <2>2, <3>3 DEF DoneMeansSaved
  <2>. QED BY <1>a, <2>3, <2>4
<1>. QED BY <1>1, <1>2, <1>3, <1>4, <1>5, <1>6 DEF RelayNext, Relay, Worker

\* A client that is told of the end right after a report was shown can rely on the
\* report's having been saved unless the database itself refused it (worker/research.go
\* saves before it publishes the end): through crashes, retries and whenever the
\* abort comes, for the abort that fails the save silences the end as well.
THEOREM DoneIsSaved == RelaySpec => []DoneMeansSaved
<1>1. RelayInit => StreamInv
  BY StreamOrderInit DEF RelayInit, RelayStarts, StreamInv, ReportIsSeen, LastIsReport, EndsOnce, DoneMeansSaved
<1>2. StreamInv /\ [RelayNext]_relayVars => StreamInv'
  BY StreamOrderStep, SeenStep DEF StreamInv
<1>3. StreamInv => DoneMeansSaved
  BY DEF StreamInv
<1>. QED BY <1>1, <1>2, <1>3, PTL DEF RelaySpec

-----------------------------------------------------------------------------
(* Turns of KB chats.  Induction over the rows is done on the least         *)
(* counterexample.                                                          *)

LEMMA LeastOf ==
    ASSUME NEW A \in SUBSET Nat, A # {}
    PROVE  \E n \in A : \A m \in A : n <= m
<1>. DEFINE below == {0 .. n : n \in A}
<1>1. below \subseteq FiniteSubsetsOf(Nat) /\ below # {}
  <2>1. \A n \in A : IsFiniteSet(0 .. n) /\ 0 .. n \subseteq Nat
    BY FS_Interval
  <2>. QED BY <2>1 DEF FiniteSubsetsOf
<1>2. PICK x \in below : \A y \in below : <<y, x>> \notin StrictSubsetOrdering(Nat)
  BY <1>1, FS_StrictSubsetOrderingWellFounded, WFMin, Zenon
<1>3. PICK n \in A : x = 0 .. n
  BY <1>2
<1>4. ASSUME NEW m \in A, m < n PROVE FALSE
  <2>1. 0 .. m \subseteq 0 .. n /\ n \notin 0 .. m /\ n \in 0 .. n
    BY <1>4
  <2>2. <<0 .. m, 0 .. n>> \in StrictSubsetOrdering(Nat)
    BY <2>1 DEF StrictSubsetOrdering
  <2>. QED BY <1>2, <1>3, <1>4, <2>2
<1>5. ASSUME NEW m \in A PROVE n <= m
  <2>1. m \in Nat /\ n \in Nat /\ ~(m < n)
    BY <1>4
  <2>. QED BY <2>1
<1>. QED BY <1>5, Zenon

\* The rows of a conversation point back; Above is Thread for any such rows.
PointBack(m) ==
    /\ Len(m) \in Nat /\ DOMAIN m = 1 .. Len(m)
    /\ \A i \in 1 .. Len(m) : m[i].parent \in 0 .. i - 1
Within(m, i, c) == i \in DOMAIN m /\ m[i].chat = c

AboveIs(m, c, n, f) ==
    f = [j \in 0 .. n |-> IF Within(m, j, c) THEN {j} \cup f[m[j].parent] ELSE {}]
AboveOf(m, c) == CHOOSE f : AboveIs(m, c, Len(m), f)
Above(m, c, i) == AboveOf(m, c)[i]

LEMMA AboveExists ==
    ASSUME NEW m, NEW c, PointBack(m)
    PROVE  \A n \in 0 .. Len(m) : \E f : AboveIs(m, c, n, f)
<1>. DEFINE A == {n \in 0 .. Len(m) : ~ \E f : AboveIs(m, c, n, f)}
<1>1. SUFFICES ASSUME A # {} PROVE FALSE
  OBVIOUS
<1>2. PICK n \in A : \A k \in A : n <= k
  <2>1. A \in SUBSET Nat
    OBVIOUS
  <2>. HIDE DEF A
  <2>. QED BY <1>1, <2>1, LeastOf
<1>3. CASE n = 0
  <2>1. AboveIs(m, c, 0, [j \in 0 .. 0 |-> {}])
    BY DEF AboveIs, Within, PointBack
  <2>. QED BY <1>2, <1>3, <2>1
<1>4. CASE n # 0
  <2>1. n - 1 \in 0 .. Len(m) /\ n - 1 \notin A /\ n \in 1 .. Len(m)
    BY <1>2, <1>4
  <2>2. PICK g : AboveIs(m, c, n - 1, g)
    BY <2>1
  <2>. DEFINE last == IF Within(m, n, c) THEN {n} \cup g[m[n].parent] ELSE {}
  <2>. DEFINE f == [j \in 0 .. n |-> IF j = n THEN last ELSE g[j]]
  <2>3. ASSUME NEW j \in 0 .. n
        PROVE  f[j] = IF Within(m, j, c) THEN {j} \cup f[m[j].parent] ELSE {}
    <3>1. Within(m, j, c) => m[j].parent \in 0 .. j - 1
      BY DEF Within, PointBack
    <3>2. Within(m, j, c) => f[m[j].parent] = g[m[j].parent]
      BY <3>1, <2>1
    <3>3. CASE j = n
      BY <3>2, <3>3
    <3>4. CASE j # n
      <4>1. j \in 0 .. n - 1
        BY <3>4, <2>1
      <4>2. g[j] = IF Within(m, j, c) THEN {j} \cup g[m[j].parent] ELSE {}
        BY <4>1, <2>2 DEF AboveIs
      <4>. QED BY <3>2, <3>4, <4>1, <4>2
    <3>. QED BY <3>3, <3>4
  <2>4. AboveIs(m, c, n, f)
    BY <2>3 DEF AboveIs
  <2>. QED BY <1>2, <2>4
<1>. QED BY <1>3, <1>4

\* What is above a row: nothing outside the chat, else the row and what is above
\* its parent.
LEMMA AboveUnfolds ==
    ASSUME NEW m, NEW c, PointBack(m), NEW i \in 0 .. Len(m)
    PROVE  Above(m, c, i) = IF Within(m, i, c) THEN {i} \cup Above(m, c, m[i].parent) ELSE {}
<1>1. AboveIs(m, c, Len(m), AboveOf(m, c))
  <2>1. Len(m) \in 0 .. Len(m)
    OBVIOUS
  <2>2. \E f : AboveIs(m, c, Len(m), f)
    BY <2>1, AboveExists
  <2>. QED BY <2>2, Zenon DEF AboveOf
<1>. QED BY <1>1 DEF AboveIs, Above

\* It is older rows of the chat.
LEMMA AboveIsOlder ==
    ASSUME NEW m, NEW c, PointBack(m), NEW i \in 0 .. Len(m)
    PROVE  Above(m, c, i) \subseteq {j \in 1 .. i : m[j].chat = c}
<1>. DEFINE Fine(k) == Above(m, c, k) \subseteq {j \in 1 .. k : m[j].chat = c}
<1>. DEFINE A == {k \in 0 .. Len(m) : ~Fine(k)}
<1>1. SUFFICES ASSUME A # {} PROVE FALSE
  OBVIOUS
<1>2. PICK k \in A : \A l \in A : k <= l
  <2>1. A \in SUBSET Nat
    OBVIOUS
  <2>. HIDE DEF A
  <2>. QED BY <1>1, <2>1, LeastOf
<1>3. Within(m, k, c)
  BY <1>2, AboveUnfolds
<1>4. m[k].parent \in 0 .. k - 1 /\ m[k].parent \in 0 .. Len(m) /\ m[k].parent < k
  BY <1>2, <1>3 DEF Within, PointBack
<1>5. Fine(m[k].parent)
  BY <1>2, <1>4
<1>6. Above(m, c, k) = {k} \cup Above(m, c, m[k].parent)
  BY <1>2, <1>3, AboveUnfolds
<1>7. Fine(k)
  <2>1. k \in 1 .. k /\ m[k].chat = c
    BY <1>3 DEF Within, PointBack
  <2>2. \A j \in 1 .. m[k].parent : j \in 1 .. k
    BY <1>4
  <2>. QED BY <1>5, <1>6, <2>1, <2>2
<1>. QED BY <1>2, <1>7

\* With a row that has its parent in the chat, it has the parent.
LEMMA AboveIsClosed ==
    ASSUME NEW m, NEW c, PointBack(m),
           \A j \in 1 .. Len(m) : Within(m, j, c) /\ m[j].parent # 0 => Within(m, m[j].parent, c),
           NEW i \in 0 .. Len(m)
    PROVE  \A j \in Above(m, c, i) : m[j].parent # 0 => m[j].parent \in Above(m, c, i)
<1>. DEFINE Fine(k) == \A j \in Above(m, c, k) : m[j].parent # 0 => m[j].parent \in Above(m, c, k)
<1>. DEFINE A == {k \in 0 .. Len(m) : ~Fine(k)}
<1>1. SUFFICES ASSUME A # {} PROVE FALSE
  OBVIOUS
<1>2. PICK k \in A : \A l \in A : k <= l
  <2>1. A \in SUBSET Nat
    OBVIOUS
  <2>. HIDE DEF A
  <2>. QED BY <1>1, <2>1, LeastOf
<1>3. Within(m, k, c)
  BY <1>2, AboveUnfolds
<1>4. m[k].parent \in 0 .. k - 1 /\ m[k].parent \in 0 .. Len(m) /\ m[k].parent < k
  BY <1>2, <1>3 DEF Within, PointBack
<1>5. Fine(m[k].parent)
  BY <1>2, <1>4
<1>6. Above(m, c, k) = {k} \cup Above(m, c, m[k].parent)
  BY <1>2, <1>3, AboveUnfolds
<1>7. m[k].parent # 0 => m[k].parent \in Above(m, c, m[k].parent)
  <2>1. m[k].parent # 0 => Within(m, m[k].parent, c)
    BY <1>3 DEF Within, PointBack
  <2>. QED BY <1>4, <2>1, AboveUnfolds
<1>8. Fine(k)
  BY <1>5, <1>6, <1>7
<1>. QED BY <1>2, <1>8

\* It stays when the rows up to there keep their parents and their places.
LEMMA AboveStays ==
    ASSUME NEW m, NEW n, NEW c, PointBack(m), PointBack(n),
           NEW i \in 0 .. Len(m), i <= Len(n),
           \A j \in 1 .. i : n[j].parent = m[j].parent /\ (n[j].chat = c <=> m[j].chat = c)
    PROVE  Above(n, c, i) = Above(m, c, i)
<1>. DEFINE A == {k \in 0 .. i : Above(n, c, k) # Above(m, c, k)}
<1>1. SUFFICES ASSUME A # {} PROVE FALSE
  OBVIOUS
<1>2. PICK k \in A : \A l \in A : k <= l
  <2>1. A \in SUBSET Nat
    OBVIOUS
  <2>. HIDE DEF A
  <2>. QED BY <1>1, <2>1, LeastOf
<1>3. k \in 0 .. Len(m) /\ k \in 0 .. Len(n)
  BY <1>2
<1>4. Within(n, k, c) <=> Within(m, k, c)
  BY <1>2, <1>3 DEF Within, PointBack
<1>5. Within(m, k, c)
  BY <1>2, <1>3, <1>4, AboveUnfolds
<1>6. n[k].parent = m[k].parent /\ m[k].parent \in 0 .. k - 1
  BY <1>2, <1>5 DEF Within, PointBack
<1>7. m[k].parent \notin A /\ m[k].parent \in 0 .. i
  BY <1>2, <1>6
<1>8. Above(n, c, m[k].parent) = Above(m, c, m[k].parent)
  BY <1>7
<1>9. /\ Above(n, c, k) = {k} \cup Above(n, c, m[k].parent)
      /\ Above(m, c, k) = {k} \cup Above(m, c, m[k].parent)
  BY <1>3, <1>4, <1>5, <1>6, AboveUnfolds
<1>. QED BY <1>2, <1>8, <1>9

\* The rows that a branch copies keep their order: Nth undoes Rank.
Nth(S, n) == CHOOSE j \in S : Rank(S, j) = n

LEMMA RankType ==
    ASSUME NEW S \in SUBSET Nat, IsFiniteSet(S), NEW i \in S
    PROVE  Rank(S, i) \in 1 .. Cardinality(S)
<1>. DEFINE low == {j \in S : j <= i}
<1>1. IsFiniteSet(low) /\ Cardinality(low) <= Cardinality(S) /\ Cardinality(S) \in Nat
  BY FS_Subset, FS_CardinalityType
<1>2. Cardinality(low) \in Nat /\ Cardinality(low) # 0
  <2>1. i \in low
    OBVIOUS
  <2>. HIDE DEF low
  <2>. QED BY <1>1, <2>1, FS_CardinalityType, FS_EmptySet
<1>3. Rank(S, i) = Cardinality(low)
  BY DEF Rank
<1>. HIDE DEF low
<1>. QED BY <1>1, <1>2, <1>3

LEMMA RankGrows ==
    ASSUME NEW S \in SUBSET Nat, IsFiniteSet(S), NEW i \in S, NEW k \in S, i < k
    PROVE  Rank(S, i) < Rank(S, k)
<1>. DEFINE low == {j \in S : j <= i}
<1>. DEFINE high == {j \in S : j <= k}
<1>1. low \subseteq high /\ low # high
  <2>1. k \in high /\ k \notin low
    OBVIOUS
  <2>2. \A j \in low : j \in high
    OBVIOUS
  <2>. QED BY <2>1, <2>2
<1>2. IsFiniteSet(high)
  BY FS_Subset
<1>3. Rank(S, i) = Cardinality(low) /\ Rank(S, k) = Cardinality(high)
  BY DEF Rank
<1>. HIDE DEF low, high
<1>4. /\ Cardinality(low) <= Cardinality(high) /\ Cardinality(low) # Cardinality(high)
      /\ Cardinality(low) \in Nat /\ Cardinality(high) \in Nat
  BY <1>1, <1>2, FS_Subset, FS_CardinalityType
<1>. QED BY <1>3, <1>4

LEMMA RanksAreFilled ==
    ASSUME NEW S \in SUBSET Nat, IsFiniteSet(S), NEW n \in 1 .. Cardinality(S)
    PROVE  \E j \in S : Rank(S, j) = n
<1>. DEFINE f == [i \in S |-> Rank(S, i)]
<1>. DEFINE T == 1 .. Cardinality(S)
<1>1. f \in [S -> T]
  BY RankType
<1>2. \A i, k \in S : f[i] = f[k] => i = k
  <2>1. SUFFICES ASSUME NEW i \in S, NEW k \in S, f[i] = f[k], i # k PROVE FALSE
    OBVIOUS
  <2>2. Rank(S, i) = Rank(S, k) /\ Rank(S, i) \in Nat
    BY <2>1, RankType
  <2>3. i < k \/ k < i
    <3>. HIDE DEF f
    <3>. QED BY <2>1
  <2>. QED BY <2>1, <2>2, <2>3, RankGrows
<1>3. Cardinality(S) \in Nat /\ IsFiniteSet(T) /\ Cardinality(T) = Cardinality(S)
  <2>1. Cardinality(S) \in Nat
    BY FS_CardinalityType
  <2>. QED BY <2>1, FS_Interval
<1>. HIDE DEF T
<1>4. f \in Injection(S, T)
  <2>. HIDE DEF f
  <2>. QED BY <1>1, <1>2 DEF Injection, IsInjective
<1>5. f \in Surjection(S, T)
  <2>. HIDE DEF f
  <2>. QED BY <1>3, <1>4, FS_Injection
<1>6. n \in T
  BY DEF T
<1>. QED BY <1>5, <1>6 DEF Surjection

LEMMA NthOfRank ==
    ASSUME NEW S \in SUBSET Nat, IsFiniteSet(S)
    PROVE  /\ \A n \in 1 .. Cardinality(S) : Nth(S, n) \in S /\ Rank(S, Nth(S, n)) = n
           /\ \A i \in S : Nth(S, Rank(S, i)) = i
<1>1. ASSUME NEW n \in 1 .. Cardinality(S)
      PROVE  Nth(S, n) \in S /\ Rank(S, Nth(S, n)) = n
  BY RanksAreFilled DEF Nth
<1>2. ASSUME NEW i \in S PROVE Nth(S, Rank(S, i)) = i
  <2>. DEFINE k == Nth(S, Rank(S, i))
  <2>1. k \in S /\ Rank(S, k) = Rank(S, i) /\ Rank(S, i) \in Nat
    BY <1>1, RankType
  <2>. HIDE DEF k
  <2>2. k < i \/ k = i \/ i < k
    BY <2>1
  <2>3. k = i
    BY <2>1, <2>2, RankGrows
  <2>. QED BY <2>3 DEF k
<1>. QED BY <1>1, <1>2

-----------------------------------------------------------------------------
(* Types, without the bounds on rows and chats.                            *)

AnyRow == [chat : Nat, role : {"user", "ai"}, parent : Nat, at : Nat,
           text : Texts, steps : Texts, copyOf : Nat]

AnyTurn == [pc : ChatStages, chat : Nat, stream : BOOLEAN, regen : BOOLEAN, ref : Nat,
            route : {"", "deep", "standard", "transform"}, anchor : Nat, hist : SUBSET Nat,
            whole : BOOLEAN, question : Nat, answer : Nat, text : Texts,
            seen : Texts \cup {"part"}, end : {"open", "ok", "error", "cut"}]

ChatTypes ==
    /\ born \in Nat /\ chats \subseteq 1 .. born
    /\ msg \in Seq(AnyRow)
    /\ turn \in [Posts -> AnyTurn]

LEMMA RowTypes ==
    ASSUME ChatTypes
    PROVE  /\ Len(msg) \in Nat /\ DOMAIN msg = 1 .. Len(msg) /\ 0 \notin DOMAIN msg
           /\ \A i \in 1 .. Len(msg) : msg[i] \in AnyRow
<1>. QED BY LenProperties, ElementOfSeq DEF ChatTypes

\* Rows point back and never leave their chat for another one.
RowsPlaced ==
    \A i \in 1 .. Len(msg) :
        /\ msg[i].parent < i /\ msg[i].copyOf < i /\ msg[i].at <= i
        /\ msg[i].chat # 0 => msg[i].chat \in chats

LEMMA RowsPointBack ==
    ASSUME ChatTypes, RowsPlaced
    PROVE  PointBack(msg)
<1>. QED BY RowTypes DEF PointBack, RowsPlaced, AnyRow

LEMMA ThreadIsAbove ==
    ASSUME NEW c, NEW i
    PROVE  Thread(c, i) = Above(msg, c, i) /\ (InChat(i, c) <=> Within(msg, i, c))
<1>. QED BY DEF Thread, Above, AboveOf, AboveIs, InChat, Within

LEMMA ThreadIsOfRows ==
    ASSUME ChatTypes, RowsPlaced, NEW c, NEW i \in 0 .. Len(msg)
    PROVE  Thread(c, i) \subseteq {j \in 1 .. i : msg[j].chat = c} /\ Thread(c, i) \subseteq Nat
<1>1. Above(msg, c, i) \subseteq {j \in 1 .. i : msg[j].chat = c}
  BY RowsPointBack, AboveIsOlder
<1>. QED BY <1>1, ThreadIsAbove

-----------------------------------------------------------------------------
(* What a step does to the rows.                                           *)

AsksRow(t) ==
    /\ At(t, "ask") /\ ~turn[t].regen /\ turn[t].chat \in chats
    /\ Insert(turn[t].chat, "user", turn[t].anchor, "", "")
    /\ UNCHANGED <<chats, born>>

AnswersRow(t) ==
    /\ At(t, "store") /\ turn[t].chat \in chats
    /\ Insert(turn[t].chat, "ai", turn[t].question, turn[t].text,
              IF turn[t].stream THEN "answer" ELSE "")
    /\ UNCHANGED <<chats, born>>

RewritesRow(t) ==
    /\ turn[t].pc \in {"check", "steps"} /\ msg[turn[t].answer].chat # 0
    /\ \/ msg' = [msg EXCEPT ![turn[t].answer].text = "refined"]
       \/ msg' = [msg EXCEPT ![turn[t].answer].steps = "refined"]
    /\ UNCHANGED <<chats, born>>

MakesChat == UNCHANGED msg /\ born' = born + 1 /\ chats' = chats \cup {born + 1}

KeepsRows == UNCHANGED <<chats, born, msg>>

LEMMA RowSteps ==
    ASSUME ChatNext
    PROVE  \/ KeepsRows \/ MakesChat
           \/ \E t \in Posts : AsksRow(t) \/ AnswersRow(t) \/ RewritesRow(t)
           \/ \E c \in chats : DeleteChat(c) \/ \E i \in 0 .. Len(msg) : Branch(c, i)
<1>1. ASSUME NEW t \in Posts, Step(t)
      PROVE  KeepsRows \/ MakesChat \/ AsksRow(t) \/ AnswersRow(t) \/ RewritesRow(t)
  <2>1. CASE Resolve(t)
    BY <2>1 DEF Resolve, KeepsRows, MakesChat
  <2>2. CASE Anchor(t) \/ LoadHistory(t) \/ AnswerAgain(t) \/ TransformFollowUp(t) \/ Prepare(t)
    BY <2>2 DEF Anchor, LoadHistory, AnswerAgain, TransformFollowUp, Prepare, KeepsRows
  <2>3. CASE Generate(t) \/ GenerateFails(t) \/ ShowRefined(t) \/ Close(t)
    BY <2>3 DEF Generate, GenerateFails, ShowRefined, Close, KeepsRows
  <2>4. CASE StoreQuestion(t)
    BY <2>4 DEF StoreQuestion, AsksRow, KeepsRows
  <2>5. CASE StoreAnswer(t)
    BY <2>5 DEF StoreAnswer, AnswersRow, KeepsRows
  <2>6. CASE KeepAnswer(t) \/ Refine(t) \/ StoreSteps(t)
    BY <2>6 DEF KeepAnswer, Refine, StoreSteps, At, RewritesRow, KeepsRows
  <2>. QED BY <1>1, <2>1, <2>2, <2>3, <2>4, <2>5, <2>6 DEF Step
<1>2. ASSUME NEW t \in Posts, Send(t) \/ ReaderLeaves(t) \/ ServerDies(t) PROVE KeepsRows
  BY <1>2 DEF Send, ReaderLeaves, ServerDies, KeepsRows
<1>. QED BY <1>1, <1>2 DEF ChatNext

LEMMA InsertIs ==
    ASSUME ChatTypes, NEW c \in Nat \ {0}, NEW role \in {"user", "ai"}, NEW p \in Nat,
           NEW text \in Texts, NEW steps \in Texts, Insert(c, role, p, text, steps)
    PROVE  /\ msg' \in Seq(AnyRow) /\ Len(msg') = Len(msg) + 1
           /\ \A i \in 1 .. Len(msg) : msg'[i] = msg[i]
           /\ msg'[Len(msg) + 1] =
                 [chat |-> c, role |-> role, parent |-> IF InChat(p, c) THEN p ELSE 0,
                  at |-> Len(msg) + 1, text |-> text, steps |-> steps, copyOf |-> 0]
<1>. DEFINE r == [chat |-> c, role |-> role, parent |-> IF InChat(p, c) THEN p ELSE 0,
                  at |-> Len(msg) + 1, text |-> text, steps |-> steps, copyOf |-> 0]
<1>1. msg' = Append(msg, r) /\ Len(msg) \in Nat /\ msg \in Seq(AnyRow)
  BY RowTypes DEF Insert, ChatTypes
<1>2. r \in AnyRow
  BY <1>1 DEF AnyRow
<1>. HIDE DEF r
<1>3. /\ msg' \in Seq(AnyRow) /\ Len(msg') = Len(msg) + 1
      /\ \A i \in 1 .. Len(msg) : msg'[i] = msg[i]
      /\ msg'[Len(msg) + 1] = r
  BY <1>1, <1>2
<1>. QED BY <1>3 DEF r

\* A correction changes the text or the steps of the row, and nothing else.
LEMMA RewriteIs ==
    ASSUME ChatTypes, NEW t \in Posts, turn[t].answer \in 1 .. Len(msg), RewritesRow(t)
    PROVE  /\ msg' \in Seq(AnyRow) /\ Len(msg') = Len(msg)
           /\ \A i \in 1 .. Len(msg) :
                /\ msg'[i].chat = msg[i].chat /\ msg'[i].role = msg[i].role
                /\ msg'[i].parent = msg[i].parent /\ msg'[i].at = msg[i].at
                /\ msg'[i].copyOf = msg[i].copyOf
                /\ i # turn[t].answer => msg'[i] = msg[i]
<1>. DEFINE a == turn[t].answer
<1>1. ASSUME NEW r \in AnyRow, msg' = [msg EXCEPT ![a] = r],
             r.chat = msg[a].chat, r.role = msg[a].role, r.parent = msg[a].parent,
             r.at = msg[a].at, r.copyOf = msg[a].copyOf
      PROVE  /\ msg' \in Seq(AnyRow) /\ Len(msg') = Len(msg)
             /\ \A i \in 1 .. Len(msg) :
                  /\ msg'[i].chat = msg[i].chat /\ msg'[i].role = msg[i].role
                  /\ msg'[i].parent = msg[i].parent /\ msg'[i].at = msg[i].at
                  /\ msg'[i].copyOf = msg[i].copyOf
                  /\ i # a => msg'[i] = msg[i]
  <2>1. msg \in Seq(AnyRow) /\ a \in 1 .. Len(msg)
    BY DEF ChatTypes
  <2>. HIDE DEF a
  <2>2. /\ msg' \in Seq(AnyRow) /\ Len(msg') = Len(msg)
        /\ \A i \in 1 .. Len(msg) : msg'[i] = IF i = a THEN r ELSE msg[i]
    BY <1>1, <2>1, ExceptSeq
  <2>. QED BY <1>1, <2>2
<1>2. msg[a] \in AnyRow
  BY RowTypes
<1>3. CASE msg' = [msg EXCEPT ![a].text = "refined"]
  <2>. DEFINE r == [msg[a] EXCEPT !.text = "refined"]
  <2>1. msg' = [msg EXCEPT ![a] = r]
    BY <1>3
  <2>2. /\ r \in AnyRow
        /\ r.chat = msg[a].chat /\ r.role = msg[a].role /\ r.parent = msg[a].parent
        /\ r.at = msg[a].at /\ r.copyOf = msg[a].copyOf
    BY <1>2 DEF AnyRow, Texts
  <2>. HIDE DEF r
  <2>. QED BY <1>1, <2>1, <2>2
<1>4. CASE msg' = [msg EXCEPT ![a].steps = "refined"]
  <2>. DEFINE r == [msg[a] EXCEPT !.steps = "refined"]
  <2>1. msg' = [msg EXCEPT ![a] = r]
    BY <1>4
  <2>2. /\ r \in AnyRow
        /\ r.chat = msg[a].chat /\ r.role = msg[a].role /\ r.parent = msg[a].parent
        /\ r.at = msg[a].at /\ r.copyOf = msg[a].copyOf
    BY <1>2 DEF AnyRow, Texts
  <2>. HIDE DEF r
  <2>. QED BY <1>1, <2>1, <2>2
<1>. QED BY <1>3, <1>4 DEF RewritesRow

LEMMA DeleteIs ==
    ASSUME ChatTypes, NEW c \in chats, DeleteChat(c)
    PROVE  /\ msg' \in Seq(AnyRow) /\ Len(msg') = Len(msg)
           /\ \A i \in 1 .. Len(msg) :
                /\ msg'[i].chat = IF msg[i].chat = c THEN 0 ELSE msg[i].chat
                /\ msg'[i].role = msg[i].role /\ msg'[i].parent = msg[i].parent
                /\ msg'[i].at = msg[i].at /\ msg'[i].copyOf = msg[i].copyOf
                /\ msg'[i].text = msg[i].text /\ msg'[i].steps = msg[i].steps
<1>1. Len(msg) \in Nat /\ DOMAIN msg = 1 .. Len(msg) /\ \A i \in 1 .. Len(msg) : msg[i] \in AnyRow
  BY RowTypes
<1>2. msg' = [i \in 1 .. Len(msg) |-> IF msg[i].chat = c THEN [msg[i] EXCEPT !.chat = 0] ELSE msg[i]]
  BY <1>1 DEF DeleteChat
<1>3. ASSUME NEW i \in 1 .. Len(msg)
      PROVE  /\ msg'[i] \in AnyRow
             /\ msg'[i].chat = IF msg[i].chat = c THEN 0 ELSE msg[i].chat
             /\ msg'[i].role = msg[i].role /\ msg'[i].parent = msg[i].parent
             /\ msg'[i].at = msg[i].at /\ msg'[i].copyOf = msg[i].copyOf
             /\ msg'[i].text = msg[i].text /\ msg'[i].steps = msg[i].steps
  <2>1. msg[i] \in AnyRow /\ msg'[i] = IF msg[i].chat = c THEN [msg[i] EXCEPT !.chat = 0] ELSE msg[i]
    BY <1>1, <1>2
  <2>. QED BY <2>1 DEF AnyRow
<1>4. msg' \in [1 .. Len(msg) -> AnyRow]
  BY <1>2, <1>3
<1>5. msg' \in Seq(AnyRow) /\ DOMAIN msg' = 1 .. Len(msg)
  BY <1>1, <1>4, SeqDef
<1>6. Len(msg') = Len(msg)
  BY <1>1, <1>5, LenProperties
<1>. QED BY <1>3, <1>5, <1>6

CopyOf(S, j) ==
    [msg[j] EXCEPT !.chat = born + 1, !.copyOf = j,
                   !.parent = IF msg[j].parent \in S THEN Len(msg) + Rank(S, msg[j].parent) ELSE 0]

LEMMA BranchIs ==
    ASSUME ChatTypes, RowsPlaced, NEW c \in chats, NEW i \in 0 .. Len(msg), Branch(c, i)
    PROVE  LET S == Thread(c, i) IN
           /\ S \subseteq {j \in 1 .. Len(msg) : msg[j].chat = c}
           /\ msg' \in Seq(AnyRow) /\ Len(msg) <= Len(msg')
           /\ \A j \in 1 .. Len(msg) : msg'[j] = msg[j]
           /\ \A j \in S : Len(msg) + Rank(S, j) <= Len(msg') /\ Rank(S, j) \in Nat \ {0}
           /\ \A k \in 1 .. Len(msg') : k > Len(msg) =>
                 \E j \in S : k = Len(msg) + Rank(S, j) /\ msg'[k] = CopyOf(S, j)
           /\ \A j, k \in S : j < k => Rank(S, j) < Rank(S, k)
           /\ \A j \in S : msg'[Len(msg) + Rank(S, j)] = CopyOf(S, j)
<1>. DEFINE S == Thread(c, i)
<1>1. Len(msg) \in Nat /\ DOMAIN msg = 1 .. Len(msg) /\ \A j \in 1 .. Len(msg) : msg[j] \in AnyRow
  BY RowTypes
<1>2. S \subseteq {j \in 1 .. i : msg[j].chat = c}
  BY ThreadIsOfRows
<1>3. S \subseteq {j \in 1 .. Len(msg) : msg[j].chat = c} /\ S \in SUBSET Nat /\ S \subseteq 1 .. Len(msg)
  BY <1>1, <1>2
<1>4. IsFiniteSet(S) /\ Cardinality(S) \in Nat
  <2>1. IsFiniteSet(1 .. Len(msg))
    BY <1>1, FS_Interval
  <2>2. IsFiniteSet(S)
    BY <1>3, <2>1, FS_Subset
  <2>. QED BY <2>2, FS_CardinalityType
<1>5. msg' = msg \o Copies(S)
  BY DEF Branch
<1>6. msg \in Seq(AnyRow) /\ born \in Nat
  BY DEF ChatTypes
<1>. HIDE DEF S
<1>7. /\ \A n \in 1 .. Cardinality(S) : Nth(S, n) \in S /\ Rank(S, Nth(S, n)) = n
      /\ \A j \in S : Nth(S, Rank(S, j)) = j
  BY <1>3, <1>4, NthOfRank
<1>8. \A j \in S : Rank(S, j) \in 1 .. Cardinality(S)
  BY <1>3, <1>4, RankType
<1>9. Copies(S) = [n \in 1 .. Cardinality(S) |-> CopyOf(S, Nth(S, n))]
  BY DEF Copies, CopyOf, Nth
<1>10. ASSUME NEW j \in S PROVE CopyOf(S, j) \in AnyRow
  <2>1. msg[j] \in AnyRow /\ j \in Nat /\ born + 1 \in Nat
    BY <1>1, <1>3, <1>6
  <2>2. (IF msg[j].parent \in S THEN Len(msg) + Rank(S, msg[j].parent) ELSE 0) \in Nat
    BY <1>1, <1>8
  <2>. QED BY <2>1, <2>2 DEF CopyOf, AnyRow
<1>11. Copies(S) \in Seq(AnyRow) /\ Len(Copies(S)) = Cardinality(S)
  <2>1. Copies(S) \in [1 .. Cardinality(S) -> AnyRow]
    BY <1>7, <1>9, <1>10
  <2>2. Copies(S) \in Seq(AnyRow) /\ DOMAIN Copies(S) = 1 .. Cardinality(S)
    BY <1>4, <2>1, SeqDef
  <2>. QED BY <1>4, <2>2, LenProperties
<1>12. /\ msg' \in Seq(AnyRow) /\ Len(msg') = Len(msg) + Cardinality(S)
       /\ \A j \in 1 .. Len(msg) : msg'[j] = msg[j]
       /\ \A k \in 1 .. Len(msg) + Cardinality(S) :
             k > Len(msg) => msg'[k] = Copies(S)[k - Len(msg)]
  <2>. DEFINE n == Copies(S)
  <2>1. msg' = msg \o n /\ n \in Seq(AnyRow) /\ Len(n) = Cardinality(S)
    BY <1>5, <1>11
  <2>. HIDE DEF n
  <2>2. /\ msg \o n \in Seq(AnyRow) /\ Len(msg \o n) = Len(msg) + Len(n)
        /\ \A k \in 1 .. Len(msg) + Len(n) : (msg \o n)[k] = IF k <= Len(msg) THEN msg[k] ELSE n[k - Len(msg)]
    BY <1>6, <2>1, ConcatProperties
  <2>3. \A j \in 1 .. Len(msg) : msg'[j] = msg[j]
    BY <1>1, <1>4, <2>1, <2>2
  <2>4. \A k \in 1 .. Len(msg) + Cardinality(S) : k > Len(msg) => msg'[k] = n[k - Len(msg)]
    BY <1>1, <1>4, <2>1, <2>2
  <2>. QED BY <2>1, <2>2, <2>3, <2>4 DEF n
<1>13. ASSUME NEW k \in 1 .. Len(msg'), k > Len(msg)
       PROVE  \E j \in S : k = Len(msg) + Rank(S, j) /\ msg'[k] = CopyOf(S, j)
  <2>1. k - Len(msg) \in 1 .. Cardinality(S)
    BY <1>1, <1>4, <1>12, <1>13
  <2>2. msg'[k] = CopyOf(S, Nth(S, k - Len(msg)))
    BY <1>9, <1>12, <1>13, <2>1
  <2>. QED BY <1>1, <1>7, <2>1, <2>2
<1>14. \A j, k \in S : j < k => Rank(S, j) < Rank(S, k)
  BY <1>3, <1>4, RankGrows
<1>15. ASSUME NEW j \in S
       PROVE  /\ Len(msg) + Rank(S, j) <= Len(msg') /\ Rank(S, j) \in Nat \ {0}
              /\ msg'[Len(msg) + Rank(S, j)] = CopyOf(S, j)
  <2>1. Rank(S, j) \in 1 .. Cardinality(S)
    BY <1>8
  <2>2. /\ Len(msg) + Rank(S, j) \in 1 .. Len(msg) + Cardinality(S)
        /\ Len(msg) + Rank(S, j) > Len(msg) /\ (Len(msg) + Rank(S, j)) - Len(msg) = Rank(S, j)
    BY <1>1, <1>4, <2>1
  <2>3. msg'[Len(msg) + Rank(S, j)] = Copies(S)[Rank(S, j)]
    BY <1>12, <2>2
  <2>. QED BY <1>1, <1>4, <1>7, <1>9, <1>12, <2>1, <2>2, <2>3
<1>. QED BY <1>1, <1>3, <1>4, <1>12, <1>13, <1>14, <1>15 DEF S

\* Whatever happens, rows keep what they say, and leave their chat only with it.
Kept ==
    /\ born <= born' /\ born' \in Nat /\ chats' \subseteq 1 .. born'
    /\ \A c \in chats' : c <= born => c \in chats
    /\ msg' \in Seq(AnyRow) /\ Len(msg) <= Len(msg')
    /\ \A i \in 1 .. Len(msg) :
         /\ msg'[i].role = msg[i].role /\ msg'[i].parent = msg[i].parent
         /\ msg'[i].at = msg[i].at /\ msg'[i].copyOf = msg[i].copyOf
         /\ msg'[i].chat = msg[i].chat \/ (msg'[i].chat = 0 /\ msg[i].chat \notin chats')

\* The rows that a turn knows exist, and it closes with an answer.
Exists(t) ==
    /\ turn[t].ref <= Len(msg) /\ turn[t].anchor <= Len(msg)
    /\ turn[t].question <= Len(msg) /\ turn[t].answer <= Len(msg)
    /\ turn[t].pc \in {"check", "show", "steps", "close"} => turn[t].answer # 0

RowsExist == \A t \in Posts : Exists(t)

LEMMA RowsAreKept ==
    ASSUME ChatTypes, RowsPlaced, RowsExist, ChatNext
    PROVE  Kept /\ RowsPlaced'
<1>1. /\ Len(msg) \in Nat /\ DOMAIN msg = 1 .. Len(msg) /\ \A i \in 1 .. Len(msg) : msg[i] \in AnyRow
      /\ born \in Nat /\ chats \subseteq 1 .. born /\ msg \in Seq(AnyRow)
  BY RowTypes DEF ChatTypes
<1>2. CASE KeepsRows
  BY <1>1, <1>2 DEF KeepsRows, Kept, RowsPlaced
<1>3. CASE MakesChat
  <2>1. chats' \subseteq 1 .. born' /\ \A c \in chats' : c <= born => c \in chats
    BY <1>1, <1>3 DEF MakesChat
  <2>. QED BY <1>1, <1>3, <2>1 DEF MakesChat, Kept, RowsPlaced
<1>4. ASSUME NEW c \in Nat \ {0}, NEW role \in {"user", "ai"}, NEW p \in Nat, NEW text \in Texts,
             NEW steps \in Texts, Insert(c, role, p, text, steps), c \in chats, UNCHANGED <<chats, born>>
      PROVE  Kept /\ RowsPlaced'
  <2>1. /\ msg' \in Seq(AnyRow) /\ Len(msg') = Len(msg) + 1
        /\ \A i \in 1 .. Len(msg) : msg'[i] = msg[i]
        /\ msg'[Len(msg) + 1] =
              [chat |-> c, role |-> role, parent |-> IF InChat(p, c) THEN p ELSE 0,
               at |-> Len(msg) + 1, text |-> text, steps |-> steps, copyOf |-> 0]
    BY <1>4, InsertIs, ZenonT(60)
  <2>2. Kept
    BY <1>1, <1>4, <2>1 DEF Kept
  <2>3. ASSUME NEW i \in 1 .. Len(msg')
        PROVE  /\ msg'[i].parent < i /\ msg'[i].copyOf < i /\ msg'[i].at <= i
               /\ msg'[i].chat # 0 => msg'[i].chat \in chats'
    <3>1. CASE i \in 1 .. Len(msg)
      BY <1>4, <2>1, <3>1 DEF RowsPlaced
    <3>2. CASE i = Len(msg) + 1
      <4>1. InChat(p, c) => p < i
        BY <1>1, <3>2 DEF InChat
      <4>. QED BY <1>1, <1>4, <2>1, <3>2, <4>1
    <3>. QED BY <1>1, <2>1, <3>1, <3>2
  <2>. QED BY <2>2, <2>3 DEF RowsPlaced
<1>5. ASSUME NEW t \in Posts, AsksRow(t) \/ AnswersRow(t) PROVE Kept /\ RowsPlaced'
  <2>1. turn[t] \in AnyTurn
    BY DEF ChatTypes
  <2>2. /\ turn[t].chat \in Nat /\ turn[t].anchor \in Nat /\ turn[t].question \in Nat
        /\ turn[t].text \in Texts /\ {"", "answer"} \subseteq Texts
    BY <2>1 DEF AnyTurn, Texts
  <2>3. turn[t].chat \in chats => turn[t].chat \in Nat \ {0}
    <3>1. chats \subseteq 1 .. born /\ born \in Nat /\ 1 .. born \subseteq Nat \ {0}
      BY <1>1
    <3>. QED BY <3>1, Zenon
  <2>4. CASE AsksRow(t)
    BY <1>4, <2>2, <2>3, <2>4 DEF AsksRow
  <2>5. CASE AnswersRow(t)
    BY <1>4, <2>2, <2>3, <2>5 DEF AnswersRow
  <2>. QED BY <1>5, <2>4, <2>5
<1>6. ASSUME NEW t \in Posts, RewritesRow(t) PROVE Kept /\ RowsPlaced'
  <2>1. turn[t].answer \in 1 .. Len(msg)
    <3>1. turn[t].answer \in Nat
      BY DEF ChatTypes, AnyTurn
    <3>. QED BY <1>1, <1>6, <3>1 DEF RowsExist, Exists, RewritesRow
  <2>2. /\ msg' \in Seq(AnyRow) /\ Len(msg') = Len(msg)
        /\ \A i \in 1 .. Len(msg) :
             /\ msg'[i].chat = msg[i].chat /\ msg'[i].role = msg[i].role
             /\ msg'[i].parent = msg[i].parent /\ msg'[i].at = msg[i].at
             /\ msg'[i].copyOf = msg[i].copyOf
    BY <1>6, <2>1, RewriteIs
  <2>3. UNCHANGED <<chats, born>>
    BY <1>6 DEF RewritesRow
  <2>. QED BY <1>1, <2>2, <2>3 DEF Kept, RowsPlaced
<1>7. ASSUME NEW c \in chats, DeleteChat(c) PROVE Kept /\ RowsPlaced'
  <2>1. /\ msg' \in Seq(AnyRow) /\ Len(msg') = Len(msg)
        /\ \A i \in 1 .. Len(msg) :
             /\ msg'[i].chat = IF msg[i].chat = c THEN 0 ELSE msg[i].chat
             /\ msg'[i].role = msg[i].role /\ msg'[i].parent = msg[i].parent
             /\ msg'[i].at = msg[i].at /\ msg'[i].copyOf = msg[i].copyOf
    BY <1>7, DeleteIs
  <2>2. chats' = chats \ {c} /\ born' = born
    BY <1>7 DEF DeleteChat
  <2>3. Kept
    BY <1>1, <2>1, <2>2 DEF Kept
  <2>4. RowsPlaced'
    BY <1>1, <2>1, <2>2 DEF RowsPlaced
  <2>. QED BY <2>3, <2>4
<1>8. ASSUME NEW c \in chats, NEW i \in 0 .. Len(msg), Branch(c, i) PROVE Kept /\ RowsPlaced'
  <2>. DEFINE S == Thread(c, i)
  <2>1. /\ S \subseteq {j \in 1 .. Len(msg) : msg[j].chat = c}
        /\ msg' \in Seq(AnyRow) /\ Len(msg) <= Len(msg')
        /\ \A j \in 1 .. Len(msg) : msg'[j] = msg[j]
        /\ \A j \in S : Len(msg) + Rank(S, j) <= Len(msg') /\ Rank(S, j) \in Nat \ {0}
        /\ \A k \in 1 .. Len(msg') : k > Len(msg) =>
              \E j \in S : k = Len(msg) + Rank(S, j) /\ msg'[k] = CopyOf(S, j)
        /\ \A j, k \in S : j < k => Rank(S, j) < Rank(S, k)
    BY <1>8, BranchIs
  <2>2. born' = born + 1 /\ chats' = chats \cup {born + 1}
    BY <1>8 DEF Branch
  <2>. HIDE DEF S
  <2>3. Kept
    <3>1. chats' \subseteq 1 .. born' /\ (\A d \in chats' : d <= born => d \in chats) /\ born <= born' /\ born' \in Nat
      BY <1>1, <2>2
    <3>. QED BY <2>1, <3>1 DEF Kept
  <2>4. ASSUME NEW k \in 1 .. Len(msg')
        PROVE  /\ msg'[k].parent < k /\ msg'[k].copyOf < k /\ msg'[k].at <= k
               /\ msg'[k].chat # 0 => msg'[k].chat \in chats'
    <3>1. CASE k \in 1 .. Len(msg)
      BY <2>1, <2>2, <3>1 DEF RowsPlaced
    <3>2. CASE k > Len(msg)
      <4>1. PICK j \in S : k = Len(msg) + Rank(S, j) /\ msg'[k] = CopyOf(S, j)
        BY <2>1, <3>2
      <4>2. /\ j \in 1 .. Len(msg) /\ msg[j] \in AnyRow /\ msg[j].at <= j /\ msg[j].parent < j
            /\ msg[j].parent \in Nat /\ msg[j].at \in Nat
        BY <1>1, <2>1 DEF RowsPlaced, AnyRow
      <4>3. /\ msg'[k].chat = born + 1 /\ msg'[k].copyOf = j /\ msg'[k].at = msg[j].at
            /\ msg'[k].parent = IF msg[j].parent \in S THEN Len(msg) + Rank(S, msg[j].parent) ELSE 0
        BY <4>1, <4>2 DEF CopyOf, AnyRow
      <4>4. msg[j].parent \in S => Rank(S, msg[j].parent) < Rank(S, j) /\ Rank(S, msg[j].parent) \in Nat
        BY <2>1, <4>2
      <4>5. msg'[k].parent < k
        BY <1>1, <2>1, <4>1, <4>3, <4>4
      <4>. QED BY <1>1, <2>2, <3>2, <4>2, <4>3, <4>5
    <3>. QED BY <1>1, <2>1, <3>1, <3>2
  <2>. QED BY <2>3, <2>4 DEF RowsPlaced
<1>. QED BY <1>2, <1>3, <1>5, <1>6, <1>7, <1>8, RowSteps

-----------------------------------------------------------------------------
(* What a step does to the turns.                                          *)

LEMMA BecomeIs ==
    ASSUME ChatTypes, NEW t \in Posts, NEW new, Become(t, new)
    PROVE  /\ turn'[t] = new
           /\ \A q \in Posts : q # t => turn'[q] = turn[q]
           /\ new \in AnyTurn => turn' \in [Posts -> AnyTurn]
<1>. QED BY DEF Become, ChatTypes

LEMMA TurnTypes ==
    ASSUME ChatTypes, RowsPlaced, RowsExist, NEW t \in Posts, Send(t) \/ Step(t) \/ ReaderLeaves(t) \/ ServerDies(t)
    PROVE  \E new \in AnyTurn : Become(t, new)
<1>. DEFINE u == turn[t]
<1>1. u \in AnyTurn
  BY DEF ChatTypes
<1>2. Len(msg) \in Nat /\ DOMAIN msg = 1 .. Len(msg) /\ (\A i \in 1 .. Len(msg) : msg[i] \in AnyRow) /\ born \in Nat
  BY RowTypes DEF ChatTypes
<1>3. Quiet \in AnyTurn
  BY DEF Quiet, AnyTurn, ChatStages, Texts
<1>. DEFINE f == Fed(u)
<1>fed. f \in AnyTurn
  BY <1>1 DEF Fed, AnyTurn
<1>ptr. u.ref \in 0 .. Len(msg) /\ u.anchor \in 0 .. Len(msg) /\ u.question \in 0 .. Len(msg)
  <2>1. u.ref \in Nat /\ u.anchor \in Nat /\ u.question \in Nat
    BY <1>1 DEF AnyTurn
  <2>2. u.ref <= Len(msg) /\ u.anchor <= Len(msg) /\ u.question <= Len(msg)
    BY DEF RowsExist, Exists
  <2>. QED BY <1>2, <2>1, <2>2
<1>. HIDE DEF f
<1>4. \A word \in {"error", "cut"} : [Fed(u) EXCEPT !.pc = "done", !.end = IF Reading(t) THEN word ELSE @] \in AnyTurn
  <2>1. ASSUME NEW word \in {"error", "cut"}
        PROVE  [f EXCEPT !.pc = "done", !.end = IF Reading(t) THEN word ELSE @] \in AnyTurn
    BY <1>fed DEF AnyTurn, ChatStages
  <2>. QED BY <2>1 DEF f
<1>5. \A word \in {"error", "cut"} : End(t, word) => \E new \in AnyTurn : Become(t, new)
  BY <1>4 DEF End
<1>6. \A stage \in ChatStages : GoOn(t, stage) => \E new \in AnyTurn : Become(t, new)
  <2>1. \A stage \in ChatStages : [u EXCEPT !.pc = stage] \in AnyTurn
    BY <1>1 DEF AnyTurn
  <2>. QED BY <2>1 DEF GoOn
<1>7. CASE Send(t)
  <2>1. PICK c \in 0 .. born, r \in 0 .. Len(msg), asks \in Requests :
           Become(t, [Quiet EXCEPT !.pc = "resolve", !.chat = c, !.ref = r,
                                   !.stream = asks.stream, !.regen = asks.regen])
    BY <1>7 DEF Send
  <2>2. asks.stream \in BOOLEAN /\ asks.regen \in BOOLEAN /\ c \in Nat /\ r \in Nat
    BY <1>2, ChatAssumption DEF AllRequests
  <2>3. [Quiet EXCEPT !.pc = "resolve", !.chat = c, !.ref = r,
                      !.stream = asks.stream, !.regen = asks.regen] \in AnyTurn
    BY <1>3, <2>2 DEF AnyTurn, ChatStages
  <2>. QED BY <2>1, <2>3
<1>8. CASE Resolve(t)
  <2>1. \A b \in Nat : [u EXCEPT !.pc = "anchor", !.chat = b] \in AnyTurn
    BY <1>1 DEF AnyTurn, ChatStages
  <2>2. "anchor" \in ChatStages
    BY DEF ChatStages
  <2>3. CASE born' = born + 1 /\ Become(t, [u EXCEPT !.pc = "anchor", !.chat = born'])
    <3>1. born' \in Nat
      BY <1>2, <2>3
    <3>. QED BY <2>1, <2>3, <3>1
  <2>. QED BY <1>5, <1>6, <1>8, <2>2, <2>3 DEF Resolve
<1>9. CASE Anchor(t)
  <2>1. /\ [u EXCEPT !.pc = "history", !.anchor = IF InChat(u.ref, u.chat) THEN u.ref ELSE 0] \in AnyTurn
        /\ [u EXCEPT !.pc = "history"] \in AnyTurn
    BY <1>1 DEF AnyTurn, ChatStages
  <2>. QED BY <1>9, <2>1 DEF Anchor
<1>10. CASE LoadHistory(t)
  <2>1. RowsOf(u.chat) \subseteq Nat /\ Thread(u.chat, u.anchor) \subseteq Nat
    <3>2. Thread(u.chat, u.anchor) \subseteq Nat
      BY <1>ptr, ThreadIsOfRows
    <3>. QED BY <1>2, <3>2 DEF RowsOf
  <2>2. CASE Become(t, [u EXCEPT !.pc = "prepare", !.whole = FALSE])
    <3>1. [u EXCEPT !.pc = "prepare", !.whole = FALSE] \in AnyTurn
      BY <1>1 DEF AnyTurn, ChatStages
    <3>. QED BY <2>2, <3>1
  <2>3. ASSUME NEW h, Become(t, [u EXCEPT !.pc = "prepare", !.hist = h]), h \in SUBSET Nat
        PROVE  \E new \in AnyTurn : Become(t, new)
    <3>1. [u EXCEPT !.pc = "prepare", !.hist = h] \in AnyTurn
      BY <1>1, <2>3 DEF AnyTurn, ChatStages
    <3>. QED BY <2>3, <3>1
  <2>. QED BY <1>10, <2>1, <2>2, <2>3 DEF LoadHistory
<1>11. CASE AnswerAgain(t)
  <2>. DEFINE q == Asked(u.chat, u.ref)
  <2>1. CASE End(t, "error")
    BY <1>5, <2>1
  <2>2. CASE q # 0 /\ Become(t, [u EXCEPT !.pc = "prepare", !.question = q, !.anchor = msg[q].parent,
                                         !.hist = Thread(u.chat, u.ref) \ {u.ref, q}])
    <3>2. Thread(u.chat, u.ref) \subseteq Nat
      BY <1>ptr, ThreadIsOfRows
    <3>3. q \in 1 .. Len(msg)
      BY <1>2, <2>2 DEF Asked, InChat
    <3>4. msg[q].parent \in Nat /\ q \in Nat
      BY <1>2, <3>3 DEF AnyRow
    <3>. HIDE DEF q
    <3>5. [u EXCEPT !.pc = "prepare", !.question = q, !.anchor = msg[q].parent,
                    !.hist = Thread(u.chat, u.ref) \ {u.ref, q}] \in AnyTurn
      BY <1>1, <3>2, <3>4 DEF AnyTurn, ChatStages
    <3>. QED BY <2>2, <3>5
  <2>. QED BY <1>11, <2>1, <2>2 DEF AnswerAgain
<1>12. CASE TransformFollowUp(t) \/ Prepare(t)
  <2>1. \A r \in {"transform", "deep", "standard"} : [u EXCEPT !.pc = "ask", !.route = r] \in AnyTurn
    BY <1>1 DEF AnyTurn, ChatStages
  <2>. QED BY <1>5, <1>12, <2>1 DEF TransformFollowUp, Prepare
<1>13. CASE StoreQuestion(t)
  <2>1. {"generate", "prepare"} \subseteq ChatStages
    BY DEF ChatStages
  <2>2. NotAsked(t) => \E new \in AnyTurn : Become(t, new)
    BY <1>5, <1>6, <2>1 DEF NotAsked
  <2>3. [u EXCEPT !.pc = "generate", !.question = NewRow] \in AnyTurn
    <3>1. NewRow \in Nat
      BY <1>2 DEF NewRow
    <3>. QED BY <1>1, <3>1 DEF AnyTurn, ChatStages
  <2>. QED BY <1>6, <1>13, <2>1, <2>2, <2>3 DEF StoreQuestion
<1>14. CASE Generate(t)
  <2>1. [f EXCEPT !.pc = "store", !.text = "answer",
                  !.seen = IF u.stream /\ Reading(t) THEN "answer" ELSE @] \in AnyTurn
    BY <1>fed, ZenonT(60) DEF AnyTurn, ChatStages, Texts
  <2>. QED BY <1>14, <2>1 DEF Generate, f
<1>15. CASE GenerateFails(t)
  <2>1. ASSUME NEW seen \in {"", "part"}
        PROVE
          [f EXCEPT !.pc = "done", !.seen = IF u.stream /\ Reading(t) THEN seen ELSE @,
                    !.end = IF Reading(t) THEN "error" ELSE @] \in AnyTurn
    BY <1>fed, ZenonT(60) DEF AnyTurn, ChatStages, Texts
  <2>. QED BY <1>15, <2>1 DEF GenerateFails, f
<1>16. CASE StoreAnswer(t)
  <2>1. [u EXCEPT !.pc = "check", !.answer = NewRow] \in AnyTurn
    <3>1. NewRow \in Nat
      BY <1>2 DEF NewRow
    <3>. QED BY <1>1, <3>1 DEF AnyTurn, ChatStages
  <2>. QED BY <1>5, <1>16, <2>1 DEF StoreAnswer
<1>17. CASE KeepAnswer(t) \/ StoreSteps(t)
  <2>1. "close" \in ChatStages
    BY DEF ChatStages
  <2>. QED BY <1>6, <1>17, <2>1 DEF KeepAnswer, StoreSteps
<1>18. CASE Refine(t)
  <2>1. [u EXCEPT !.pc = "show", !.text = "refined"] \in AnyTurn
    BY <1>1 DEF AnyTurn, ChatStages, Texts
  <2>. QED BY <1>18, <2>1 DEF Refine
<1>19. CASE ShowRefined(t)
  <2>1. [u EXCEPT !.pc = IF u.stream THEN "steps" ELSE "close",
                  !.seen = IF u.stream /\ Reading(t) THEN "refined" ELSE @] \in AnyTurn
    BY <1>1, ZenonT(60) DEF AnyTurn, ChatStages, Texts
  <2>. QED BY <1>19, <2>1 DEF ShowRefined
<1>20. CASE Close(t)
  <2>1. [u EXCEPT !.pc = "done", !.seen = IF ~u.stream /\ Reading(t) THEN u.text ELSE @,
                  !.end = IF Reading(t) THEN "ok" ELSE @] \in AnyTurn
    BY <1>1, ZenonT(60) DEF AnyTurn, ChatStages
  <2>. QED BY <1>20, <2>1 DEF Close
<1>21. CASE ReaderLeaves(t)
  <2>1. [u EXCEPT !.end = "cut"] \in AnyTurn
    BY <1>1 DEF AnyTurn
  <2>. QED BY <1>21, <2>1 DEF ReaderLeaves
<1>22. CASE ServerDies(t)
  BY <1>5, <1>22 DEF ServerDies
<1>. QED BY <1>7, <1>8, <1>9, <1>10, <1>11, <1>12, <1>13, <1>14, <1>15, <1>16, <1>17, <1>18,
            <1>19, <1>20, <1>21, <1>22 DEF Step

-----------------------------------------------------------------------------
(* What a turn holds on to.                                                *)

TurnStep(t) == Send(t) \/ Step(t) \/ ReaderLeaves(t) \/ ServerDies(t)
BeforeTheChat == {"idle", "resolve", "done"}
AfterTheQuestion == {"generate", "store", "check", "show", "steps", "close"}
AfterTheAnswer == {"check", "show", "steps", "close"}

\* Its question is a question of its chat, as long as there is the chat; its answer
\* is below the question, and no other turn's; and who is told that it is done has one.
Stands(t) ==
    LET u == turn[t] IN
    /\ u.pc \notin BeforeTheChat => u.chat \in 1 .. born
    /\ u.pc = "history" => ~u.regen
    /\ u.pc = "resolve" => u.question = 0
    /\ u.answer # 0 => u.pc \in AfterTheAnswer \cup {"done"}
    /\ u.question # 0 => /\ u.chat \in 1 .. born /\ msg[u.question].role = "user"
                         /\ msg[u.question].chat = u.chat \/ u.chat \notin chats
    /\ u.pc \in AfterTheQuestion \/ (u.regen /\ u.pc \in {"prepare", "ask"}) => u.question # 0
    /\ u.answer # 0 => /\ msg[u.answer].role = "ai" /\ msg[u.answer].parent = u.question
                       /\ msg[u.answer].chat \in {0, u.chat}
    /\ u.end = "ok" => u.pc = "done" /\ u.answer # 0

AnswersDiffer ==
    \A t, q \in Posts : t # q /\ turn[t].answer # 0 => turn[t].answer # turn[q].answer

TurnsInv == RowsExist /\ AnswersDiffer /\ \A t \in Posts : Stands(t)

LEMMA OthersStand ==
    ASSUME ChatTypes, RowsExist, Kept, NEW t \in Posts, Stands(t),
           turn'[t].chat = turn[t].chat, turn'[t].question = turn[t].question,
           turn'[t].answer = turn[t].answer, turn'[t].regen = turn[t].regen,
           turn'[t].pc \in BeforeTheChat \/ turn[t].pc \notin BeforeTheChat,
           turn'[t].pc \in AfterTheQuestion => turn[t].pc \in AfterTheQuestion
              \/ (turn[t].regen /\ turn[t].pc \in {"prepare", "ask"}),
           turn'[t].regen /\ turn'[t].pc \in {"prepare", "ask"} =>
              turn[t].regen /\ turn[t].pc \in {"prepare", "ask"},
           turn'[t].pc \in AfterTheAnswer => turn[t].pc \in AfterTheAnswer,
           turn'[t].pc = "history" => ~turn[t].regen,
           turn'[t].pc = "resolve" => turn[t].pc = "resolve",
           turn[t].pc \in AfterTheAnswer \cup {"done"} => turn'[t].pc \in AfterTheAnswer \cup {"done"},
           turn'[t].end = "ok" => turn'[t].pc = "done" /\ turn[t].answer # 0,
           turn'[t].ref \in {0, turn[t].ref}, turn'[t].anchor \in {0, turn[t].ref, turn[t].anchor}
    PROVE  Stands(t)' /\ Exists(t)'
<1>. DEFINE u == turn[t]
<1>1. /\ Len(msg) \in Nat /\ \A i \in 1 .. Len(msg) : msg[i].chat \in Nat
      /\ born \in Nat /\ u.question \in Nat /\ u.answer \in Nat
  BY RowTypes DEF ChatTypes, AnyRow, AnyTurn
<1>2. /\ u.question # 0 => u.question \in 1 .. Len(msg)
      /\ u.answer # 0 => u.answer \in 1 .. Len(msg)
  BY <1>1 DEF RowsExist, Exists
<1>3. u.chat \in 1 .. born => u.chat \in 1 .. born' /\ (u.chat \notin chats => u.chat \notin chats')
  BY <1>1 DEF Kept
<1>4. turn'[t].pc \notin BeforeTheChat => turn'[t].chat \in 1 .. born'
  BY <1>3 DEF Stands
<1>5. ASSUME u.question # 0
      PROVE  /\ u.chat \in 1 .. born' /\ msg'[u.question].role = "user"
             /\ msg'[u.question].chat = u.chat \/ u.chat \notin chats'
  <2>1. u.question \in 1 .. Len(msg) /\ u.chat \in 1 .. born
    BY <1>2, <1>5 DEF Stands
  <2>2. /\ msg'[u.question].role = msg[u.question].role
        /\ msg'[u.question].chat = msg[u.question].chat \/ msg[u.question].chat \notin chats'
    BY <2>1 DEF Kept
  <2>3. msg[u.question].role = "user" /\ (msg[u.question].chat = u.chat \/ u.chat \notin chats)
    BY <1>5 DEF Stands
  <2>. QED BY <1>3, <2>1, <2>2, <2>3
<1>6. ASSUME u.answer # 0
      PROVE  /\ msg'[u.answer].role = "ai" /\ msg'[u.answer].parent = u.question
             /\ msg'[u.answer].chat \in {0, u.chat}
  <2>1. u.answer \in 1 .. Len(msg)
    BY <1>2, <1>6
  <2>2. /\ msg'[u.answer].role = msg[u.answer].role /\ msg'[u.answer].parent = msg[u.answer].parent
        /\ msg'[u.answer].chat \in {0, msg[u.answer].chat}
    BY <2>1 DEF Kept
  <2>. QED BY <1>6, <2>2 DEF Stands
<1>7. turn'[t].pc \in AfterTheQuestion \/ (turn'[t].regen /\ turn'[t].pc \in {"prepare", "ask"}) => u.question # 0
  BY DEF Stands
<1>8. Stands(t)'
  BY <1>4, <1>5, <1>6, <1>7 DEF Stands
<1>9. Exists(t)'
  <2>1. Exists(t) /\ Len(msg) <= Len(msg') /\ Len(msg') \in Nat /\ u.ref \in Nat /\ u.anchor \in Nat
    BY LenProperties DEF RowsExist, Kept, ChatTypes, AnyTurn
  <2>. QED BY <1>1, <2>1 DEF Exists, AfterTheAnswer
<1>. QED BY <1>8, <1>9

\* What the turn keeps when its stage changes, when it ends, and when it generates.
Keeps(t) ==
    /\ turn'[t].chat = turn[t].chat /\ turn'[t].question = turn[t].question
    /\ turn'[t].answer = turn[t].answer /\ turn'[t].regen = turn[t].regen
    /\ turn'[t].stream = turn[t].stream

LEMMA EndIs ==
    ASSUME ChatTypes, NEW t \in Posts, NEW word, End(t, word)
    PROVE  /\ Keeps(t) /\ turn'[t].pc = "done" /\ turn'[t].text = turn[t].text /\ turn'[t].seen = turn[t].seen
           /\ turn'[t].end = IF Reading(t) THEN word ELSE turn[t].end
           /\ turn'[t].ref = 0 /\ turn'[t].anchor = 0
<1>. DEFINE f == Fed(turn[t])
<1>1. turn[t] \in AnyTurn
  BY DEF ChatTypes
<1>2. f \in AnyTurn /\ f.chat = turn[t].chat /\ f.question = turn[t].question /\ f.answer = turn[t].answer
      /\ f.regen = turn[t].regen /\ f.stream = turn[t].stream /\ f.text = turn[t].text
      /\ f.seen = turn[t].seen /\ f.end = turn[t].end /\ f.ref = 0 /\ f.anchor = 0
  BY <1>1 DEF Fed, AnyTurn
<1>3. turn'[t] = [f EXCEPT !.pc = "done", !.end = IF Reading(t) THEN word ELSE @]
  BY BecomeIs DEF End
<1>. HIDE DEF f
<1>. QED BY <1>2, <1>3 DEF Keeps, AnyTurn

LEMMA GoOnIs ==
    ASSUME ChatTypes, NEW t \in Posts, NEW stage, GoOn(t, stage)
    PROVE  turn'[t] = [turn[t] EXCEPT !.pc = stage] /\ Keeps(t) /\ turn'[t].pc = stage
           /\ turn'[t].end = turn[t].end /\ turn'[t].text = turn[t].text /\ turn'[t].seen = turn[t].seen
<1>1. turn[t] \in AnyTurn
  BY DEF ChatTypes
<1>2. turn'[t] = [turn[t] EXCEPT !.pc = stage]
  BY BecomeIs DEF GoOn
<1>. QED BY <1>1, <1>2 DEF Keeps, AnyTurn

LEMMA GenerateFailsIs ==
    ASSUME ChatTypes, NEW t \in Posts, GenerateFails(t)
    PROVE  /\ Keeps(t) /\ turn[t].pc = "generate" /\ turn'[t].ref = 0 /\ turn'[t].anchor = 0
           /\ turn'[t].pc = "done" /\ turn'[t].end = IF Reading(t) THEN "error" ELSE turn[t].end
<1>. DEFINE f == Fed(turn[t])
<1>1. turn[t] \in AnyTurn
  BY DEF ChatTypes
<1>2. f \in AnyTurn /\ f.chat = turn[t].chat /\ f.question = turn[t].question /\ f.answer = turn[t].answer
      /\ f.regen = turn[t].regen /\ f.stream = turn[t].stream /\ f.text = turn[t].text
      /\ f.seen = turn[t].seen /\ f.end = turn[t].end /\ f.ref = 0 /\ f.anchor = 0
  BY <1>1 DEF Fed, AnyTurn
<1>3. PICK seen \in {"", "part"} :
         turn'[t] = [f EXCEPT !.pc = "done", !.seen = IF turn[t].stream /\ Reading(t) THEN seen ELSE @,
                              !.end = IF Reading(t) THEN "error" ELSE @]
  BY BecomeIs DEF GenerateFails
<1>. HIDE DEF f
<1>4. Keeps(t) /\ turn'[t].ref = 0 /\ turn'[t].anchor = 0
  BY <1>2, <1>3 DEF Keeps, AnyTurn
<1>5. turn'[t].pc = "done" /\ turn'[t].end = IF Reading(t) THEN "error" ELSE turn[t].end
  BY <1>2, <1>3 DEF AnyTurn
<1>. QED BY <1>4, <1>5 DEF GenerateFails, At

LEMMA GenerateIs ==
    ASSUME ChatTypes, NEW t \in Posts, Generate(t) \/ GenerateFails(t)
    PROVE  /\ Keeps(t) /\ turn[t].pc = "generate" /\ turn'[t].ref = 0 /\ turn'[t].anchor = 0
           /\ \/ /\ turn'[t].pc = "store" /\ turn'[t].text = "answer" /\ turn'[t].end = turn[t].end
                 /\ turn'[t].seen = IF turn[t].stream /\ Reading(t) THEN "answer" ELSE turn[t].seen
              \/ turn'[t].pc = "done" /\ turn'[t].end = IF Reading(t) THEN "error" ELSE turn[t].end
<1>. DEFINE f == Fed(turn[t])
<1>1. turn[t] \in AnyTurn
  BY DEF ChatTypes
<1>2. f \in AnyTurn /\ f.chat = turn[t].chat /\ f.question = turn[t].question /\ f.answer = turn[t].answer
      /\ f.regen = turn[t].regen /\ f.stream = turn[t].stream /\ f.text = turn[t].text
      /\ f.seen = turn[t].seen /\ f.end = turn[t].end /\ f.ref = 0 /\ f.anchor = 0
  BY <1>1 DEF Fed, AnyTurn
<1>3. CASE Generate(t)
  <2>1. turn'[t] = [f EXCEPT !.pc = "store", !.text = "answer",
                             !.seen = IF turn[t].stream /\ Reading(t) THEN "answer" ELSE @]
    BY <1>3, BecomeIs DEF Generate
  <2>. HIDE DEF f
  <2>2. Keeps(t) /\ turn'[t].ref = 0 /\ turn'[t].anchor = 0
    BY <1>2, <2>1 DEF Keeps, AnyTurn
  <2>3. /\ turn'[t].pc = "store" /\ turn'[t].text = "answer" /\ turn'[t].end = turn[t].end
        /\ turn'[t].seen = IF turn[t].stream /\ Reading(t) THEN "answer" ELSE turn[t].seen
    BY <1>2, <2>1 DEF AnyTurn
  <2>. QED BY <1>3, <2>2, <2>3 DEF Generate, At
<1>4. CASE GenerateFails(t)
  BY <1>4, GenerateFailsIs
<1>. QED BY <1>3, <1>4


\* Counting one further.
LEMMA OneMore ==
    ASSUME NEW n \in Nat, NEW m, m = n + 1
    PROVE  /\ m \in Nat /\ m # 0 /\ m <= m /\ 0 <= m
           /\ \A k \in Nat : k <= n => k <= m
OBVIOUS

LEMMA TurnStands ==
    ASSUME ChatTypes, RowsPlaced, TurnsInv, Kept, NEW t \in Posts, TurnStep(t)
    PROVE  Stands(t)' /\ Exists(t)'
<1>. DEFINE u == turn[t]
<1>1. u \in AnyTurn /\ Stands(t) /\ RowsExist /\ Exists(t)
  BY DEF ChatTypes, TurnsInv, RowsExist
<1>2. /\ Len(msg) \in Nat /\ DOMAIN msg = 1 .. Len(msg) /\ (\A i \in 1 .. Len(msg) : msg[i] \in AnyRow)
      /\ born \in Nat /\ chats \subseteq 1 .. born
  BY RowTypes DEF ChatTypes
<1>. USE DEF BeforeTheChat, AfterTheQuestion, AfterTheAnswer
<1>3. CASE Send(t)
  <2>1. PICK c \in 0 .. born, r \in 0 .. Len(msg), asks \in Requests :
           turn'[t] = [Quiet EXCEPT !.pc = "resolve", !.chat = c, !.ref = r,
                                    !.stream = asks.stream, !.regen = asks.regen]
    <3>1. PICK c \in 0 .. born, r \in 0 .. Len(msg), asks \in Requests :
             Become(t, [Quiet EXCEPT !.pc = "resolve", !.chat = c, !.ref = r,
                                     !.stream = asks.stream, !.regen = asks.regen])
      BY <1>3 DEF Send
    <3>2. turn'[t] = [Quiet EXCEPT !.pc = "resolve", !.chat = c, !.ref = r,
                                   !.stream = asks.stream, !.regen = asks.regen]
      BY <3>1, BecomeIs
    <3>. QED BY <3>2
  <2>2. /\ turn'[t].pc = "resolve" /\ turn'[t].question = 0 /\ turn'[t].answer = 0 /\ turn'[t].end = "open"
        /\ turn'[t].ref = r /\ turn'[t].anchor = 0
    BY <2>1 DEF Quiet
  <2>3. Len(msg) <= Len(msg') /\ Len(msg') \in Nat
    BY LenProperties DEF Kept
  <2>. QED BY <1>2, <2>2, <2>3 DEF Stands, Exists
<1>4. CASE Resolve(t)
  <2>1. u.pc = "resolve"
    BY <1>4 DEF Resolve, At
  <2>2. CASE End(t, "error")
    <3>1. /\ Keeps(t) /\ turn'[t].pc = "done" /\ turn'[t].ref = 0 /\ turn'[t].anchor = 0
          /\ turn'[t].end = IF Reading(t) THEN "error" ELSE turn[t].end
      BY <2>2, EndIs
    <3>. QED BY <1>1, <2>1, <3>1, OthersStand DEF Keeps, Stands
  <2>3. ASSUME NEW c \in 1 .. born', turn'[t] = [u EXCEPT !.pc = "anchor", !.chat = c],
               c # u.chat => u.chat = 0
        PROVE  Stands(t)' /\ Exists(t)'
    <3>1. /\ turn'[t].pc = "anchor" /\ turn'[t].chat = c /\ turn'[t].question = u.question
          /\ turn'[t].answer = u.answer /\ turn'[t].end = u.end /\ turn'[t].regen = u.regen
          /\ turn'[t].ref = u.ref /\ turn'[t].anchor = u.anchor
      BY <1>1, <2>3 DEF AnyTurn
    <3>2. u.question = 0 /\ u.answer = 0
      BY <1>1, <2>1 DEF Stands
    <3>3. Len(msg) <= Len(msg') /\ Len(msg') \in Nat
      BY LenProperties DEF Kept
    <3>4. Exists(t)'
      <4>1. u.ref <= Len(msg) /\ u.anchor <= Len(msg) /\ u.ref \in Nat /\ u.anchor \in Nat
        BY <1>1 DEF Exists, AnyTurn
      <4>. QED BY <1>2, <3>1, <3>2, <3>3, <4>1 DEF Exists
    <3>5. Stands(t)'
      BY <1>1, <2>1, <2>3, <3>1, <3>2 DEF Stands
    <3>. QED BY <3>4, <3>5
  <2>4. CASE u.chat \in chats /\ GoOn(t, "anchor") /\ born' = born
    <3>1. turn'[t] = [u EXCEPT !.pc = "anchor"] /\ u.chat \in 1 .. born'
      BY <1>2, <2>4, GoOnIs
    <3>2. turn'[t] = [u EXCEPT !.pc = "anchor", !.chat = u.chat]
      BY <1>1, <3>1 DEF AnyTurn
    <3>. QED BY <2>3, <3>1, <3>2
  <2>5. CASE u.chat = 0 /\ born' = born + 1 /\ Become(t, [u EXCEPT !.pc = "anchor", !.chat = born'])
    <3>1. turn'[t] = [u EXCEPT !.pc = "anchor", !.chat = born'] /\ born' \in 1 .. born'
      BY <1>2, <2>5, BecomeIs
    <3>. QED BY <2>3, <2>5, <3>1
  <2>. QED BY <1>4, <2>2, <2>4, <2>5 DEF Resolve
<1>5. CASE Anchor(t)
  <2>1. /\ u.pc = "anchor" /\ ~u.regen /\ turn'[t].pc = "history" /\ Keeps(t) /\ turn'[t].end = u.end
        /\ turn'[t].ref = u.ref /\ turn'[t].anchor \in {0, u.ref, u.anchor}
    <3>1. \/ turn'[t] = [u EXCEPT !.pc = "history", !.anchor = IF InChat(u.ref, u.chat) THEN u.ref ELSE 0]
          \/ turn'[t] = [u EXCEPT !.pc = "history"]
      BY <1>5, BecomeIs DEF Anchor
    <3>2. u.pc = "anchor" /\ ~u.regen
      BY <1>5 DEF Anchor, At
    <3>. QED BY <1>1, <3>1, <3>2 DEF AnyTurn, Keeps
  <2>. QED BY <1>1, <2>1, OthersStand DEF Keeps, Stands
<1>6. CASE LoadHistory(t)
  <2>1. /\ u.pc = "history" /\ turn'[t].pc = "prepare" /\ Keeps(t) /\ turn'[t].end = u.end
        /\ turn'[t].ref = u.ref /\ turn'[t].anchor = u.anchor
    <3>1. \/ \E h : turn'[t] = [u EXCEPT !.pc = "prepare", !.hist = h]
          \/ turn'[t] = [u EXCEPT !.pc = "prepare", !.whole = FALSE]
      BY <1>6, BecomeIs DEF LoadHistory
    <3>2. u.pc = "history"
      BY <1>6 DEF LoadHistory, At
    <3>. QED BY <1>1, <3>1, <3>2 DEF AnyTurn, Keeps
  <2>. QED BY <1>1, <2>1, OthersStand DEF Keeps, Stands
<1>7. ASSUME NEW word \in {"error", "cut"}, End(t, word) PROVE Stands(t)' /\ Exists(t)'
  <2>1. /\ Keeps(t) /\ turn'[t].pc = "done" /\ turn'[t].ref = 0 /\ turn'[t].anchor = 0
        /\ turn'[t].end = IF Reading(t) THEN word ELSE turn[t].end
    BY <1>7, EndIs
  <2>. QED BY <1>1, <2>1, OthersStand DEF Keeps, Stands
<1>8. ASSUME NEW stage, GoOn(t, stage), u.pc \notin BeforeTheChat,
             \/ u.pc \in AfterTheAnswer /\ stage = "close"
             \/ u.pc = "ask" /\ (stage = "prepare" \/ (u.regen /\ stage = "generate"))
      PROVE  Stands(t)' /\ Exists(t)'
  <2>1. /\ Keeps(t) /\ turn'[t].pc = stage /\ turn'[t].end = u.end
        /\ turn'[t].ref = u.ref /\ turn'[t].anchor = u.anchor
    <3>1. /\ turn'[t] = [u EXCEPT !.pc = stage] /\ Keeps(t) /\ turn'[t].pc = stage
          /\ turn'[t].end = u.end
      BY <1>8, GoOnIs
    <3>. QED BY <1>1, <3>1 DEF AnyTurn
  <2>2. u.end # "ok"
    BY <1>1, <1>8 DEF Stands
  <2>. QED BY <1>1, <1>8, <2>1, <2>2, OthersStand DEF Keeps, Stands
<1>9. CASE AnswerAgain(t)
  <2>. DEFINE q == Asked(u.chat, u.ref)
  <2>1. u.pc = "anchor" /\ u.regen /\ u.chat \in 1 .. born /\ u.answer = 0 /\ u.end # "ok"
    BY <1>1, <1>9 DEF AnswerAgain, At, Stands
  <2>2. CASE q # 0 /\ Become(t, [u EXCEPT !.pc = "prepare", !.question = q, !.anchor = msg[q].parent,
                                         !.hist = Thread(u.chat, u.ref) \ {u.ref, q}])
    <3>1. q \in 1 .. Len(msg) /\ msg[q].role = "user" /\ msg[q].chat = u.chat
      BY <1>2, <2>2 DEF Asked, InChat
    <3>2. msg[q].parent \in Nat /\ msg[q].parent <= Len(msg)
      BY <1>2, <3>1 DEF AnyRow, RowsPlaced
    <3>. HIDE DEF q
    <3>3. turn'[t] = [u EXCEPT !.pc = "prepare", !.question = q, !.anchor = msg[q].parent,
                               !.hist = Thread(u.chat, u.ref) \ {u.ref, q}]
      BY <2>2, BecomeIs
    <3>4. /\ turn'[t].pc = "prepare" /\ turn'[t].chat = u.chat /\ turn'[t].question = q
          /\ turn'[t].answer = 0 /\ turn'[t].end = u.end /\ turn'[t].ref = u.ref
          /\ turn'[t].anchor = msg[q].parent
      BY <1>1, <2>1, <3>3 DEF AnyTurn
    <3>5. /\ msg'[q].role = "user" /\ (msg'[q].chat = u.chat \/ u.chat \notin chats')
          /\ u.chat \in 1 .. born' /\ Len(msg) <= Len(msg') /\ Len(msg') \in Nat
      BY <1>2, <2>1, <3>1, LenProperties DEF Kept
    <3>6. Stands(t)'
      BY <2>1, <3>1, <3>4, <3>5 DEF Stands
    <3>7. u.ref \in Nat /\ u.ref <= Len(msg)
      BY <1>1 DEF Exists, AnyTurn
    <3>8. Exists(t)'
      BY <1>2, <3>1, <3>2, <3>4, <3>5, <3>7 DEF Exists
    <3>. QED BY <3>6, <3>8
  <2>. QED BY <1>7, <1>9, <2>2 DEF AnswerAgain
<1>10. CASE TransformFollowUp(t) \/ Prepare(t)
  <2>1. u.pc = "prepare"
    BY <1>10 DEF TransformFollowUp, Prepare, At
  <2>2. CASE \E r : Become(t, [u EXCEPT !.pc = "ask", !.route = r])
    <3>1. PICK r : Become(t, [u EXCEPT !.pc = "ask", !.route = r])
      BY <2>2
    <3>2. turn'[t] = [u EXCEPT !.pc = "ask", !.route = r]
      BY <3>1, BecomeIs
    <3>3. /\ Keeps(t) /\ turn'[t].pc = "ask" /\ turn'[t].end = u.end
          /\ turn'[t].ref = u.ref /\ turn'[t].anchor = u.anchor
      BY <1>1, <3>2 DEF AnyTurn, Keeps
    <3>. QED BY <1>1, <2>1, <3>3, OthersStand DEF Keeps, Stands
  <2>. QED BY <1>7, <1>10, <2>2 DEF TransformFollowUp, Prepare
<1>11. CASE Generate(t) \/ GenerateFails(t)
  <2>1. /\ Keeps(t) /\ u.pc = "generate" /\ turn'[t].ref = 0 /\ turn'[t].anchor = 0
        /\ \/ turn'[t].pc = "store" /\ turn'[t].end = u.end
           \/ turn'[t].pc = "done" /\ turn'[t].end = IF Reading(t) THEN "error" ELSE u.end
    BY <1>11, GenerateIs
  <2>. QED BY <1>1, <2>1, OthersStand DEF Keeps, Stands
<1>12. CASE KeepAnswer(t) \/ StoreSteps(t)
  <2>1. u.pc \in {"check", "steps"} /\ GoOn(t, "close")
    BY <1>12 DEF KeepAnswer, StoreSteps, At
  <2>. QED BY <1>8, <2>1
<1>13. CASE Refine(t) \/ ShowRefined(t)
  <2>1. /\ Keeps(t) /\ turn'[t].ref = u.ref /\ turn'[t].anchor = u.anchor /\ turn'[t].end = u.end
        /\ u.pc \in {"check", "show"} /\ turn'[t].pc \in {"show", "steps", "close"}
    <3>1. CASE Refine(t)
      <4>1. turn'[t] = [u EXCEPT !.pc = "show", !.text = "refined"] /\ u.pc = "check"
        BY <3>1, BecomeIs DEF Refine, At
      <4>. QED BY <1>1, <4>1 DEF AnyTurn, Keeps
    <3>2. CASE ShowRefined(t)
      <4>1. /\ turn'[t] = [u EXCEPT !.pc = IF u.stream THEN "steps" ELSE "close",
                                    !.seen = IF u.stream /\ Reading(t) THEN "refined" ELSE @]
            /\ u.pc = "show"
        BY <3>2, BecomeIs DEF ShowRefined, At
      <4>. QED BY <1>1, <4>1 DEF AnyTurn, Keeps
    <3>. QED BY <1>13, <3>1, <3>2
  <2>. QED BY <1>1, <2>1, OthersStand DEF Keeps, Stands
<1>14. CASE Close(t)
  <2>1. /\ turn'[t] = [u EXCEPT !.pc = "done", !.seen = IF ~u.stream /\ Reading(t) THEN u.text ELSE @,
                                !.end = IF Reading(t) THEN "ok" ELSE @]
        /\ u.pc = "close"
    BY <1>14, BecomeIs DEF Close, At
  <2>2. Keeps(t) /\ turn'[t].ref = u.ref /\ turn'[t].anchor = u.anchor /\ turn'[t].pc = "done"
    BY <1>1, <2>1 DEF AnyTurn, Keeps
  <2>3. u.answer # 0
    BY <1>1, <2>1 DEF Exists
  <2>. QED BY <1>1, <2>1, <2>2, <2>3, OthersStand DEF Keeps, Stands
<1>15. CASE ReaderLeaves(t)
  <2>1. turn'[t] = [u EXCEPT !.end = "cut"] /\ u.pc \notin {"idle", "done"}
    BY <1>15, BecomeIs DEF ReaderLeaves, Running
  <2>2. /\ Keeps(t) /\ turn'[t].ref = u.ref /\ turn'[t].anchor = u.anchor /\ turn'[t].pc = u.pc
        /\ turn'[t].end = "cut"
    BY <1>1, <2>1 DEF AnyTurn, Keeps
  <2>. QED BY <1>1, <2>1, <2>2, OthersStand DEF Keeps, Stands
<1>16. CASE ServerDies(t)
  BY <1>7, <1>16 DEF ServerDies
<1>17. ASSUME NEW role \in {"user", "ai"}, NEW p \in Nat, NEW text \in Texts, NEW steps \in Texts,
              Insert(u.chat, role, p, text, steps), u.chat \in chats, UNCHANGED <<chats, born>>
       PROVE  /\ Len(msg') = Len(msg) + 1 /\ u.chat \in 1 .. born' /\ u.chat \in chats'
              /\ msg'[Len(msg) + 1].chat = u.chat /\ msg'[Len(msg) + 1].role = role
              /\ msg'[Len(msg) + 1].parent = IF InChat(p, u.chat) THEN p ELSE 0
              /\ \A i \in 1 .. Len(msg) : msg'[i] = msg[i]
  <2>1. u.chat \in Nat \ {0} /\ u.chat \in 1 .. born' /\ u.chat \in chats'
    <3>1. 1 .. born \subseteq Nat \ {0}
      BY <1>2
    <3>. QED BY <1>2, <1>17, <3>1, Zenon
  <2>2. /\ Len(msg') = Len(msg) + 1 /\ \A i \in 1 .. Len(msg) : msg'[i] = msg[i]
        /\ msg'[Len(msg) + 1] =
              [chat |-> u.chat, role |-> role, parent |-> IF InChat(p, u.chat) THEN p ELSE 0,
               at |-> Len(msg) + 1, text |-> text, steps |-> steps, copyOf |-> 0]
    BY <1>17, <2>1, InsertIs
  <2>. QED BY <2>1, <2>2
<1>18. CASE StoreQuestion(t)
  <2>1. u.pc = "ask" /\ u.answer = 0 /\ u.end # "ok"
    BY <1>1, <1>18 DEF StoreQuestion, At, Stands
  <2>2. CASE NotAsked(t)
    BY <1>7, <1>8, <2>1, <2>2 DEF NotAsked
  <2>3. CASE u.regen /\ GoOn(t, "generate")
    BY <1>8, <2>1, <2>3
  <2>4. CASE /\ u.chat \in chats /\ Insert(u.chat, "user", u.anchor, "", "") /\ UNCHANGED <<chats, born>>
             /\ Become(t, [u EXCEPT !.pc = "generate", !.question = NewRow])
    <3>1. u.anchor \in Nat /\ "" \in Texts
      BY <1>1 DEF AnyTurn, Texts
    <3>2. /\ Len(msg') = Len(msg) + 1 /\ u.chat \in 1 .. born' /\ u.chat \in chats'
          /\ msg'[Len(msg) + 1].chat = u.chat /\ msg'[Len(msg) + 1].role = "user"
      BY <1>17, <2>4, <3>1
    <3>3. turn'[t] = [u EXCEPT !.pc = "generate", !.question = Len(msg) + 1]
      BY <2>4, BecomeIs DEF NewRow
    <3>4. /\ turn'[t].pc = "generate" /\ turn'[t].chat = u.chat /\ turn'[t].question = Len(msg) + 1
          /\ turn'[t].answer = 0 /\ turn'[t].end = u.end /\ turn'[t].ref = u.ref
          /\ turn'[t].anchor = u.anchor
      BY <1>1, <2>1, <3>3 DEF AnyTurn
    <3>5. Stands(t)'
      BY <1>2, <2>1, <3>2, <3>4 DEF Stands
    <3>6. u.ref \in Nat /\ u.ref <= Len(msg) /\ u.anchor <= Len(msg)
      BY <1>1 DEF Exists, AnyTurn
    <3>7. Exists(t)'
      <4>1. u.ref <= Len(msg') /\ u.anchor <= Len(msg') /\ Len(msg) + 1 <= Len(msg') /\ 0 <= Len(msg')
        <5>1. Len(msg') = Len(msg) + 1
          BY <3>2
        <5>. QED BY <1>2, <3>1, <3>6, <5>1, OneMore, Zenon
      <4>. QED BY <3>4, <4>1 DEF Exists
    <3>. QED BY <3>5, <3>7
  <2>. QED BY <1>18, <2>2, <2>3, <2>4 DEF StoreQuestion
<1>19. CASE StoreAnswer(t)
  <2>1. u.pc = "store" /\ u.end # "ok" /\ u.question # 0
    BY <1>1, <1>19 DEF StoreAnswer, At, Stands
  <2>2. CASE End(t, "error")
    BY <1>7, <2>2
  <2>3. CASE /\ u.chat \in chats
             /\ Insert(u.chat, "ai", u.question, u.text, IF u.stream THEN "answer" ELSE "")
             /\ UNCHANGED <<chats, born>> /\ Become(t, [u EXCEPT !.pc = "check", !.answer = NewRow])
    <3>1. /\ u.question \in 1 .. Len(msg) /\ u.text \in Texts
          /\ (IF u.stream THEN "answer" ELSE "") \in Texts
      <4>1. u.question \in Nat /\ u.text \in Texts /\ {"answer", ""} \subseteq Texts
        BY <1>1 DEF AnyTurn, Texts
      <4>2. u.question <= Len(msg)
        BY <1>1 DEF Exists
      <4>3. u.question \in 1 .. Len(msg)
        <5>. DEFINE q == u.question
        <5>1. q \in Nat /\ q # 0 /\ q <= Len(msg) /\ Len(msg) \in Nat
          BY <1>2, <2>1, <4>1, <4>2
        <5>. HIDE DEF q
        <5>2. q \in 1 .. Len(msg)
          BY <5>1
        <5>. QED BY <5>2 DEF q
      <4>4. (IF u.stream THEN "answer" ELSE "") \in {"answer", ""}
        OBVIOUS
      <4>. QED BY <4>1, <4>3, <4>4, Zenon
    <3>2. InChat(u.question, u.chat) /\ msg[u.question].role = "user"
      BY <1>1, <1>2, <2>1, <2>3, <3>1 DEF Stands, InChat
    <3>3. /\ Len(msg') = Len(msg) + 1 /\ u.chat \in 1 .. born' /\ u.chat \in chats'
          /\ msg'[Len(msg) + 1].chat = u.chat /\ msg'[Len(msg) + 1].role = "ai"
          /\ msg'[Len(msg) + 1].parent = u.question
          /\ \A i \in 1 .. Len(msg) : msg'[i] = msg[i]
      <4>1. u.question \in Nat
        BY <1>1 DEF AnyTurn
      <4>. QED BY <1>17, <2>3, <3>1, <3>2, <4>1
    <3>4. turn'[t] = [u EXCEPT !.pc = "check", !.answer = Len(msg) + 1]
      BY <2>3, BecomeIs DEF NewRow
    <3>5. /\ turn'[t].pc = "check" /\ turn'[t].chat = u.chat /\ turn'[t].question = u.question
          /\ turn'[t].answer = Len(msg) + 1 /\ turn'[t].end = u.end /\ turn'[t].ref = u.ref
          /\ turn'[t].anchor = u.anchor
      BY <1>1, <3>4 DEF AnyTurn
    <3>6. msg'[u.question].role = "user" /\ msg'[u.question].chat = u.chat
      BY <3>1, <3>2, <3>3 DEF InChat
    <3>7. Stands(t)'
      BY <1>2, <2>1, <3>3, <3>5, <3>6 DEF Stands
    <3>8. u.ref \in Nat /\ u.ref <= Len(msg) /\ u.anchor <= Len(msg) /\ u.anchor \in Nat
      BY <1>1 DEF Exists, AnyTurn
    <3>9. Exists(t)'
      <4>1. /\ u.ref <= Len(msg') /\ u.anchor <= Len(msg') /\ Len(msg) + 1 <= Len(msg')
            /\ u.question <= Len(msg') /\ Len(msg) + 1 # 0
        <5>1. Len(msg') = Len(msg) + 1
          BY <3>3
        <5>2. u.question \in Nat /\ u.question <= Len(msg)
          BY <1>1 DEF Exists, AnyTurn
        <5>. QED BY <1>2, <3>8, <5>1, <5>2, OneMore, Zenon
      <4>. QED BY <3>5, <4>1 DEF Exists
    <3>. QED BY <3>7, <3>9
  <2>. QED BY <1>19, <2>2, <2>3 DEF StoreAnswer
<1>. QED BY <1>3, <1>4, <1>5, <1>6, <1>9, <1>10, <1>11, <1>12, <1>13, <1>14, <1>15, <1>16, <1>18, <1>19
     DEF TurnStep, Step

\* An answer is given once, and it is the newest row then.
LEMMA AnswerIsNew ==
    ASSUME ChatTypes, NEW t \in Posts, TurnStep(t)
    PROVE  turn'[t].answer \in {0, turn[t].answer, Len(msg) + 1}
<1>. DEFINE u == turn[t]
<1>1. u \in AnyTurn
  BY DEF ChatTypes
<1>2. \A word : End(t, word) => turn'[t].answer = u.answer
  BY EndIs DEF Keeps
<1>3. \A stage : GoOn(t, stage) => turn'[t].answer = u.answer
  BY GoOnIs DEF Keeps
<1>4. CASE Send(t)
  <2>1. PICK c \in 0 .. born, r \in 0 .. Len(msg), asks \in Requests :
           Become(t, [Quiet EXCEPT !.pc = "resolve", !.chat = c, !.ref = r,
                                   !.stream = asks.stream, !.regen = asks.regen])
    BY <1>4 DEF Send
  <2>2. turn'[t] = [Quiet EXCEPT !.pc = "resolve", !.chat = c, !.ref = r,
                                 !.stream = asks.stream, !.regen = asks.regen]
    BY <2>1, BecomeIs
  <2>. QED BY <2>2 DEF Quiet
<1>5. CASE Resolve(t)
  <2>1. ASSUME NEW c, Become(t, [u EXCEPT !.pc = "anchor", !.chat = c]) PROVE turn'[t].answer = u.answer
    <3>1. turn'[t] = [u EXCEPT !.pc = "anchor", !.chat = c]
      BY <2>1, BecomeIs
    <3>. QED BY <1>1, <3>1 DEF AnyTurn
  <2>. QED BY <1>2, <1>3, <1>5, <2>1 DEF Resolve
<1>6. CASE Anchor(t)
  <2>1. ASSUME NEW r, Become(t, [u EXCEPT !.pc = "history", !.anchor = r]) PROVE turn'[t].answer = u.answer
    <3>1. turn'[t] = [u EXCEPT !.pc = "history", !.anchor = r]
      BY <2>1, BecomeIs
    <3>. QED BY <1>1, <3>1 DEF AnyTurn
  <2>. QED BY <1>3, <1>6, <2>1 DEF Anchor, GoOn
<1>7. CASE LoadHistory(t)
  <2>1. ASSUME NEW h, Become(t, [u EXCEPT !.pc = "prepare", !.hist = h]) PROVE turn'[t].answer = u.answer
    <3>1. turn'[t] = [u EXCEPT !.pc = "prepare", !.hist = h]
      BY <2>1, BecomeIs
    <3>. QED BY <1>1, <3>1 DEF AnyTurn
  <2>2. ASSUME Become(t, [u EXCEPT !.pc = "prepare", !.whole = FALSE]) PROVE turn'[t].answer = u.answer
    <3>1. turn'[t] = [u EXCEPT !.pc = "prepare", !.whole = FALSE]
      BY <2>2, BecomeIs
    <3>. QED BY <1>1, <3>1 DEF AnyTurn
  <2>. QED BY <1>7, <2>1, <2>2 DEF LoadHistory
<1>8. CASE AnswerAgain(t)
  <2>1. ASSUME NEW q, NEW a, NEW h,
               Become(t, [u EXCEPT !.pc = "prepare", !.question = q, !.anchor = a, !.hist = h])
        PROVE  turn'[t].answer = u.answer
    <3>1. turn'[t] = [u EXCEPT !.pc = "prepare", !.question = q, !.anchor = a, !.hist = h]
      BY <2>1, BecomeIs
    <3>. QED BY <1>1, <3>1 DEF AnyTurn
  <2>. QED BY <1>2, <1>8, <2>1 DEF AnswerAgain
<1>9. CASE TransformFollowUp(t) \/ Prepare(t)
  <2>1. ASSUME NEW r, Become(t, [u EXCEPT !.pc = "ask", !.route = r]) PROVE turn'[t].answer = u.answer
    <3>1. turn'[t] = [u EXCEPT !.pc = "ask", !.route = r]
      BY <2>1, BecomeIs
    <3>. QED BY <1>1, <3>1 DEF AnyTurn
  <2>. QED BY <1>2, <1>9, <2>1 DEF TransformFollowUp, Prepare
<1>10. CASE StoreQuestion(t)
  <2>1. ASSUME NEW q, Become(t, [u EXCEPT !.pc = "generate", !.question = q]) PROVE turn'[t].answer = u.answer
    <3>1. turn'[t] = [u EXCEPT !.pc = "generate", !.question = q]
      BY <2>1, BecomeIs
    <3>. QED BY <1>1, <3>1 DEF AnyTurn
  <2>2. NotAsked(t) => turn'[t].answer = u.answer
    BY <1>2, <1>3 DEF NotAsked
  <2>. QED BY <1>3, <1>10, <2>1, <2>2 DEF StoreQuestion
<1>11. CASE Generate(t) \/ GenerateFails(t)
  BY <1>11, GenerateIs DEF Keeps
<1>12. CASE StoreAnswer(t)
  <2>1. ASSUME Become(t, [u EXCEPT !.pc = "check", !.answer = NewRow]) PROVE turn'[t].answer = Len(msg) + 1
    <3>1. turn'[t] = [u EXCEPT !.pc = "check", !.answer = NewRow]
      BY <2>1, BecomeIs
    <3>. QED BY <1>1, <3>1 DEF AnyTurn, NewRow
  <2>. QED BY <1>2, <1>12, <2>1 DEF StoreAnswer
<1>13. CASE KeepAnswer(t) \/ StoreSteps(t)
  BY <1>3, <1>13 DEF KeepAnswer, StoreSteps
<1>14. CASE Refine(t)
  <2>1. turn'[t] = [u EXCEPT !.pc = "show", !.text = "refined"]
    BY <1>14, BecomeIs DEF Refine
  <2>. QED BY <1>1, <2>1 DEF AnyTurn
<1>15. CASE ShowRefined(t) \/ Close(t) \/ ReaderLeaves(t)
  <2>1. ASSUME NEW stage, NEW seen, NEW end, Become(t, [u EXCEPT !.pc = stage, !.seen = seen, !.end = end])
        PROVE  turn'[t].answer = u.answer
    <3>1. turn'[t] = [u EXCEPT !.pc = stage, !.seen = seen, !.end = end]
      BY <2>1, BecomeIs
    <3>. QED BY <1>1, <3>1 DEF AnyTurn
  <2>2. ASSUME NEW stage, NEW seen, Become(t, [u EXCEPT !.pc = stage, !.seen = seen]) PROVE turn'[t].answer = u.answer
    <3>1. turn'[t] = [u EXCEPT !.pc = stage, !.seen = seen]
      BY <2>2, BecomeIs
    <3>. QED BY <1>1, <3>1 DEF AnyTurn
  <2>3. ASSUME NEW end, Become(t, [u EXCEPT !.end = end]) PROVE turn'[t].answer = u.answer
    <3>1. turn'[t] = [u EXCEPT !.end = end]
      BY <2>3, BecomeIs
    <3>. QED BY <1>1, <3>1 DEF AnyTurn
  <2>. QED BY <1>15, <2>1, <2>2, <2>3 DEF ShowRefined, Close, ReaderLeaves
<1>16. CASE ServerDies(t)
  BY <1>2, <1>16 DEF ServerDies
<1>. QED BY <1>4, <1>5, <1>6, <1>7, <1>8, <1>9, <1>10, <1>11, <1>12, <1>13, <1>14, <1>15, <1>16
     DEF TurnStep, Step

\* All of this is inductive.
TurnsStand == ChatTypes /\ RowsPlaced /\ TurnsInv

\* A step of the system is one of a turn, or one of the chats.
LEMMA WhoSteps ==
    ASSUME ChatTypes, RowsPlaced, RowsExist, ChatNext
    PROVE  /\ turn' \in [Posts -> AnyTurn]
           /\ \/ turn' = turn
              \/ \E t \in Posts : TurnStep(t) /\ \A q \in Posts \ {t} : turn'[q] = turn[q]
<1>1. UNCHANGED turn \/ \E t \in Posts : TurnStep(t)
  BY DEF ChatNext, TurnStep, DeleteChat, Branch
<1>2. CASE UNCHANGED turn
  BY <1>2 DEF ChatTypes
<1>3. ASSUME NEW t \in Posts, TurnStep(t)
      PROVE  turn' \in [Posts -> AnyTurn] /\ \A q \in Posts \ {t} : turn'[q] = turn[q]
  <2>1. PICK new \in AnyTurn : Become(t, new)
    BY <1>3, TurnTypes DEF TurnStep
  <2>. QED BY <2>1, BecomeIs
<1>. QED BY <1>1, <1>2, <1>3

LEMMA TurnsStandStep ==
    ASSUME TurnsStand, ChatNext
    PROVE  TurnsStand' /\ Kept
<1>1. ChatTypes /\ RowsPlaced /\ TurnsInv /\ RowsExist /\ AnswersDiffer /\ (\A t \in Posts : Stands(t))
  BY DEF TurnsStand, TurnsInv
<1>2. Kept /\ RowsPlaced'
  BY <1>1, RowsAreKept
<1>3. turn' \in [Posts -> AnyTurn] /\ (turn' = turn \/ \E t \in Posts : TurnStep(t) /\ \A q \in Posts \ {t} : turn'[q] = turn[q])
  BY <1>1, WhoSteps
<1>4. ChatTypes'
  BY <1>2, <1>3 DEF ChatTypes, Kept
<1>5. ASSUME NEW q \in Posts, turn'[q] = turn[q]
      PROVE  Stands(q)' /\ Exists(q)'
  <2>1. turn[q] \in AnyTurn /\ Stands(q)
    BY <1>1 DEF ChatTypes
  <2>. QED BY <1>1, <1>2, <1>5, <2>1, OthersStand DEF Stands
<1>6. CASE turn' = turn
  <2>1. RowsExist' /\ (\A t \in Posts : Stands(t)')
    BY <1>5, <1>6 DEF RowsExist
  <2>2. AnswersDiffer'
    BY <1>1, <1>6 DEF AnswersDiffer
  <2>. QED BY <1>2, <1>4, <2>1, <2>2 DEF TurnsStand, TurnsInv
<1>7. ASSUME NEW t \in Posts, TurnStep(t), \A q \in Posts \ {t} : turn'[q] = turn[q]
      PROVE  TurnsInv'
  <2>1. \A q \in Posts : Stands(q)' /\ Exists(q)'
    BY <1>1, <1>2, <1>5, <1>7, TurnStands
  <2>2. turn'[t].answer \in {0, turn[t].answer, Len(msg) + 1}
    BY <1>1, <1>7, AnswerIsNew
  <2>3. \A q \in Posts : turn[q].answer # Len(msg) + 1
    <3>1. \A q \in Posts : turn[q].answer <= Len(msg) /\ turn[q].answer \in Nat
      BY <1>1 DEF RowsExist, Exists, ChatTypes, AnyTurn
    <3>2. Len(msg) \in Nat
      BY <1>1, RowTypes
    <3>3. ASSUME NEW q \in Posts PROVE turn[q].answer # Len(msg) + 1
      <4>. DEFINE a == turn[q].answer
      <4>1. a <= Len(msg) /\ a \in Nat
        BY <3>1
      <4>. HIDE DEF a
      <4>2. a # Len(msg) + 1
        BY <3>2, <4>1
      <4>. QED BY <4>2 DEF a
    <3>. QED BY <3>3
  <2>4. AnswersDiffer'
    <3>1. ASSUME NEW r \in Posts, NEW q \in Posts, r # q, turn'[r].answer # 0
          PROVE  turn'[r].answer # turn'[q].answer
      <4>1. CASE r = t
        <5>1. turn'[q] = turn[q]
          BY <1>7, <3>1, <4>1
        <5>. QED BY <1>1, <2>2, <2>3, <3>1, <4>1, <5>1 DEF AnswersDiffer
      <4>2. CASE q = t
        <5>1. turn'[r] = turn[r]
          BY <1>7, <3>1, <4>2
        <5>. QED BY <1>1, <2>2, <2>3, <3>1, <4>2, <5>1 DEF AnswersDiffer
      <4>3. CASE r # t /\ q # t
        <5>1. turn'[r] = turn[r] /\ turn'[q] = turn[q]
          BY <1>7, <4>3
        <5>. QED BY <1>1, <3>1, <5>1 DEF AnswersDiffer
      <4>. QED BY <4>1, <4>2, <4>3
    <3>. QED BY <3>1 DEF AnswersDiffer
  <2>. QED BY <2>1, <2>4 DEF TurnsInv, RowsExist
<1>. QED BY <1>2, <1>3, <1>4, <1>6, <1>7 DEF TurnsStand

LEMMA TurnsStandStays ==
    ASSUME TurnsStand, UNCHANGED chatVars
    PROVE  TurnsStand'
<1>. QED BY DEF TurnsStand, chatVars, ChatTypes, RowsPlaced, TurnsInv, RowsExist, Exists,
            AnswersDiffer, Stands

LEMMA TurnsStandInit ==
    ASSUME ChatInit
    PROVE  TurnsStand
<1>1. Past \in Nat /\ 2 * Past \in Nat
  BY ChatAssumption
<1>. DEFINE row(i) == [chat |-> 1, role |-> IF i % 2 = 1 THEN "user" ELSE "ai", parent |-> i - 1,
                 at |-> i, text |-> IF i % 2 = 1 THEN "" ELSE "answer",
                 steps |-> IF i % 2 = 1 THEN "" ELSE "answer", copyOf |-> 0]
<1>2. msg = [i \in 1 .. 2 * Past |-> row(i)]
  BY DEF ChatInit
<1>3. ASSUME NEW i \in 1 .. 2 * Past PROVE row(i) \in AnyRow /\ row(i).parent < i /\ row(i).copyOf < i
  <2>1. i \in Nat /\ i - 1 \in Nat /\ i - 1 < i /\ 0 < i
    BY <1>1
  <2>. QED BY <2>1 DEF AnyRow, Texts
<1>4. msg \in [1 .. 2 * Past -> AnyRow]
  <2>. HIDE DEF row
  <2>. QED BY <1>2, <1>3
<1>5. msg \in Seq(AnyRow) /\ Len(msg) = 2 * Past
  BY <1>1, <1>4, SeqDef, LenProperties
<1>6. Quiet \in AnyTurn
  BY DEF Quiet, AnyTurn, ChatStages, Texts
<1>7. turn = [t \in Posts |-> Quiet] /\ born = 1 /\ chats = {1}
  BY DEF ChatInit
<1>8. ChatTypes
  BY <1>5, <1>6, <1>7 DEF ChatTypes
<1>9. RowsPlaced
  <2>1. ASSUME NEW i \in 1 .. Len(msg)
        PROVE  msg[i].parent < i /\ msg[i].copyOf < i /\ msg[i].at <= i /\ msg[i].chat \in chats
    <3>1. i \in 1 .. 2 * Past
      BY <1>5
    <3>2. msg[i] = row(i)
      <4>. HIDE DEF row
      <4>. QED BY <1>2, <3>1
    <3>3. row(i).at = i /\ row(i).chat = 1
      OBVIOUS
    <3>4. i <= i
      BY <1>1, <3>1
    <3>. HIDE DEF row
    <3>. QED BY <1>3, <1>7, <3>1, <3>2, <3>3, <3>4
  <2>. QED BY <2>1 DEF RowsPlaced
<1>10. ASSUME NEW t \in Posts PROVE Stands(t) /\ Exists(t) /\ turn[t].answer = 0
  <2>1. turn[t] = Quiet
    BY <1>7
  <2>2. 0 <= Len(msg) /\ Len(msg) \in Nat
    BY <1>1, <1>5
  <2>3. /\ Quiet.pc = "idle" /\ Quiet.question = 0 /\ Quiet.answer = 0 /\ Quiet.end = "open"
        /\ Quiet.ref = 0 /\ Quiet.anchor = 0
    BY DEF Quiet
  <2>. QED BY <2>1, <2>2, <2>3 DEF Stands, Exists, BeforeTheChat, AfterTheQuestion
<1>11. TurnsInv
  BY <1>10 DEF TurnsInv, RowsExist, AnswersDiffer
<1>. QED BY <1>8, <1>9, <1>11 DEF TurnsStand

-----------------------------------------------------------------------------
(* The rows of a chat are a forest.                                         *)

Planted(i) ==
    LET p == msg[i].parent
        o == msg[i].copyOf IN
    msg[i].chat # 0 =>
        /\ p # 0 => p < i /\ p \in 1 .. Len(msg) /\ msg[p].chat = msg[i].chat
        /\ msg[i].role = "ai" => p # 0 /\ msg[p].role = "user"
        /\ o # 0 => /\ msg[i].role = msg[o].role
                    /\ IF msg[o].parent = 0 THEN p = 0
                       ELSE p # 0 /\ msg[p].copyOf = msg[o].parent

LEMMA ForestIsPlanted ==
    ASSUME ChatTypes
    PROVE  ThreadsAreForests <=> \A i \in 1 .. Len(msg) : Planted(i)
<1>1. DOMAIN msg = 1 .. Len(msg)
  BY RowTypes
<1>. QED BY <1>1 DEF ThreadsAreForests, Planted, InChat

\* A row stays in its place when the rows it hangs on are what they were.
LEMMA PlantedStays ==
    ASSUME TurnsStand, Kept, NEW i \in 1 .. Len(msg), Planted(i),
           \A j \in 1 .. Len(msg) : msg[j].chat = msg[i].chat /\ msg'[i].chat # 0 => msg'[j].chat = msg[j].chat
    PROVE  Planted(i)'
<1>1. Len(msg) \in Nat /\ (\A j \in 1 .. Len(msg) : msg[j] \in AnyRow)
  BY RowTypes DEF TurnsStand
<1>2. SUFFICES ASSUME msg'[i].chat # 0 PROVE Planted(i)'
  BY DEF Planted
<1>. DEFINE p == msg[i].parent
<1>. DEFINE o == msg[i].copyOf
<1>3. /\ msg'[i].role = msg[i].role /\ msg'[i].parent = p /\ msg'[i].copyOf = o
      /\ msg'[i].chat = msg[i].chat /\ msg[i].chat # 0
  BY <1>2 DEF Kept
<1>4. o \in Nat /\ o < i /\ (o # 0 => o \in 1 .. Len(msg))
  <2>1. o \in Nat /\ o < i
    BY <1>1 DEF TurnsStand, RowsPlaced, AnyRow
  <2>. HIDE DEF o
  <2>. QED BY <1>1, <2>1
<1>5. Len(msg) <= Len(msg') /\ Len(msg') \in Nat
  BY LenProperties DEF Kept
<1>6. ASSUME p # 0 PROVE p < i /\ p \in 1 .. Len(msg') /\ msg'[p].chat = msg'[i].chat
  <2>1. p < i /\ p \in 1 .. Len(msg) /\ msg[p].chat = msg[i].chat
    BY <1>3, <1>6 DEF Planted
  <2>2. msg'[p].chat = msg[p].chat
    BY <1>2, <2>1
  <2>3. p \in 1 .. Len(msg')
    <3>. HIDE DEF p
    <3>. QED BY <1>1, <1>5, <2>1
  <2>. QED BY <1>3, <2>1, <2>2, <2>3
<1>7. ASSUME msg[i].role = "ai" PROVE p # 0 /\ msg'[p].role = "user"
  <2>1. p # 0 /\ p \in 1 .. Len(msg) /\ msg[p].role = "user"
    BY <1>3, <1>7 DEF Planted
  <2>. QED BY <2>1 DEF Kept
<1>8. ASSUME o # 0
      PROVE  /\ msg'[i].role = msg'[o].role
             /\ IF msg'[o].parent = 0 THEN p = 0 ELSE p # 0 /\ msg'[p].copyOf = msg'[o].parent
  <2>1. msg'[o].role = msg[o].role /\ msg'[o].parent = msg[o].parent
    BY <1>4, <1>8 DEF Kept
  <2>2. /\ msg[i].role = msg[o].role
        /\ IF msg[o].parent = 0 THEN p = 0 ELSE p # 0 /\ msg[p].copyOf = msg[o].parent
    BY <1>3, <1>8 DEF Planted
  <2>3. p # 0 => msg'[p].copyOf = msg[p].copyOf
    BY <1>3 DEF Planted, Kept
  <2>. QED BY <1>3, <2>1, <2>2, <2>3
<1>. QED BY <1>3, <1>6, <1>7, <1>8 DEF Planted

\* What a branch copies, it copies with its shape.
LEMMA BranchIsPlanted ==
    ASSUME TurnsStand, ThreadsAreForests, NEW c \in chats, NEW i \in 0 .. Len(msg), Branch(c, i),
           NEW k \in 1 .. Len(msg'), k > Len(msg)
    PROVE  Planted(k)'
<1>1. ChatTypes /\ RowsPlaced /\ born \in Nat /\ Len(msg) \in Nat /\ c # 0
      /\ \A j \in 1 .. Len(msg) : msg[j] \in AnyRow
  BY RowTypes DEF TurnsStand, ChatTypes
<1>. DEFINE S == Thread(c, i)
<1>2. /\ S \subseteq {j \in 1 .. Len(msg) : msg[j].chat = c}
      /\ \A j \in 1 .. Len(msg) : msg'[j] = msg[j]
      /\ \A j \in S : Len(msg) + Rank(S, j) <= Len(msg') /\ Rank(S, j) \in Nat \ {0}
      /\ \E j \in S : k = Len(msg) + Rank(S, j) /\ msg'[k] = CopyOf(S, j)
      /\ \A j, l \in S : j < l => Rank(S, j) < Rank(S, l)
      /\ \A j \in S : msg'[Len(msg) + Rank(S, j)] = CopyOf(S, j)
  BY <1>1, BranchIs
<1>3. \A j \in S : msg[j].parent # 0 => msg[j].parent \in S
  <2>1. \A j \in 1 .. Len(msg) : Within(msg, j, c) /\ msg[j].parent # 0 => Within(msg, msg[j].parent, c)
    BY <1>1, ForestIsPlanted, RowTypes DEF Planted, Within
  <2>2. PointBack(msg)
    BY <1>1, RowsPointBack
  <2>3. S = Above(msg, c, i)
    BY ThreadIsAbove
  <2>. HIDE DEF S
  <2>. QED BY <2>1, <2>2, <2>3, AboveIsClosed
<1>. HIDE DEF S
<1>4. PICK j \in S : k = Len(msg) + Rank(S, j) /\ msg'[k] = CopyOf(S, j)
  BY <1>2
<1>5. j \in 1 .. Len(msg) /\ msg[j] \in AnyRow /\ Planted(j) /\ msg[j].chat # 0
  BY <1>1, <1>2, <1>4, ForestIsPlanted
<1>. DEFINE p == msg[j].parent
<1>6. p \in Nat /\ 0 \notin S /\ (p \in S <=> p # 0)
  BY <1>2, <1>3, <1>4, <1>5 DEF AnyRow
<1>7. ASSUME NEW l \in S
      PROVE  /\ CopyOf(S, l).chat = born + 1 /\ CopyOf(S, l).copyOf = l /\ CopyOf(S, l).role = msg[l].role
             /\ CopyOf(S, l).parent = IF msg[l].parent \in S THEN Len(msg) + Rank(S, msg[l].parent) ELSE 0
  <2>1. msg[l] \in AnyRow
    BY <1>1, <1>2
  <2>. QED BY <2>1 DEF CopyOf, AnyRow
<1>8. /\ msg'[k].chat = born + 1 /\ msg'[k].copyOf = j /\ msg'[k].role = msg[j].role
      /\ msg'[k].parent = IF p # 0 THEN Len(msg) + Rank(S, p) ELSE 0
  BY <1>4, <1>6, <1>7
<1>9. msg'[j].role = msg[j].role /\ msg'[j].parent = p
  BY <1>2, <1>5
<1>10. CASE p = 0
  BY <1>5, <1>8, <1>9, <1>10 DEF Planted
<1>11. CASE p # 0
  <2>. DEFINE pp == Len(msg) + Rank(S, p)
  <2>1. Rank(S, p) \in Nat \ {0} /\ Rank(S, j) \in Nat \ {0} /\ Rank(S, p) < Rank(S, j)
    BY <1>2, <1>4, <1>5, <1>6, <1>11 DEF Planted
  <2>2. pp \in Nat \ {0} /\ pp < k /\ pp \in 1 .. Len(msg')
    <3>1. pp <= Len(msg')
      BY <1>2, <1>6, <1>11
    <3>. QED BY <1>1, <1>4, <2>1, <3>1
  <2>3. msg'[pp] = CopyOf(S, p)
    BY <1>2, <1>6, <1>11
  <2>. HIDE DEF pp
  <2>4. msg'[pp].chat = born + 1 /\ msg'[pp].copyOf = p /\ msg'[pp].role = msg[p].role
    BY <1>6, <1>7, <1>11, <2>3
  <2>5. msg'[k].parent = pp
    BY <1>8, <1>11 DEF pp
  <2>6. msg[j].role = "ai" => msg[p].role = "user"
    BY <1>5, <1>11 DEF Planted
  <2>. QED BY <1>8, <1>9, <1>11, <2>2, <2>4, <2>5, <2>6 DEF Planted
<1>. QED BY <1>10, <1>11

LEMMA ForestStep ==
    ASSUME TurnsStand, ThreadsAreForests, ChatNext
    PROVE  ThreadsAreForests'
<1>1. TurnsStand' /\ Kept /\ ChatTypes /\ ChatTypes' /\ (\A t \in Posts : Stands(t))
      /\ (\A t \in Posts : Exists(t))
  BY TurnsStandStep DEF TurnsStand, TurnsInv, RowsExist
<1>2. /\ Len(msg) \in Nat /\ DOMAIN msg = 1 .. Len(msg) /\ (\A i \in 1 .. Len(msg) : msg[i] \in AnyRow)
      /\ Len(msg') \in Nat /\ born \in Nat /\ chats \subseteq 1 .. born
  BY <1>1, RowTypes, LenProperties DEF ChatTypes
<1>3. (\A i \in 1 .. Len(msg) : Planted(i)) /\ ((\A i \in 1 .. Len(msg') : Planted(i)') => ThreadsAreForests')
  <2>1. ThreadsAreForests' <=> \A i \in 1 .. Len(msg') : Planted(i)'
    <3>1. DOMAIN msg' = 1 .. Len(msg')
      BY <1>1, LenProperties DEF ChatTypes
    <3>. QED BY <3>1 DEF ThreadsAreForests, Planted, InChat
  <2>. QED BY <1>1, <2>1, ForestIsPlanted
<1>4. ASSUME \A i \in 1 .. Len(msg) : msg'[i].chat = msg[i].chat, NEW i \in 1 .. Len(msg) PROVE Planted(i)'
  BY <1>1, <1>3, <1>4, PlantedStays
<1>5. CASE UNCHANGED msg
  <2>1. \A i \in 1 .. Len(msg') : Planted(i)'
    BY <1>4, <1>5
  <2>. QED BY <1>3, <2>1
<1>6. ASSUME NEW c \in chats, NEW role \in {"user", "ai"}, NEW p \in Nat, NEW text \in Texts,
             NEW steps \in Texts, Insert(c, role, p, text, steps),
             role = "ai" => InChat(p, c) /\ msg[p].role = "user"
      PROVE  ThreadsAreForests'
  <2>1. c \in Nat \ {0}
    <3>1. 1 .. born \subseteq Nat \ {0}
      BY <1>2
    <3>. QED BY <1>2, <3>1, Zenon
  <2>2. /\ Len(msg') = Len(msg) + 1 /\ \A i \in 1 .. Len(msg) : msg'[i] = msg[i]
        /\ msg'[Len(msg) + 1] =
              [chat |-> c, role |-> role, parent |-> IF InChat(p, c) THEN p ELSE 0,
               at |-> Len(msg) + 1, text |-> text, steps |-> steps, copyOf |-> 0]
    BY <1>1, <1>6, <2>1, InsertIs
  <2>3. ASSUME NEW i \in 1 .. Len(msg) PROVE Planted(i)'
    BY <1>4, <2>2
  <2>4. PICK k \in Nat \ {0} : k = Len(msg) + 1
    BY <1>2
  <2>5. /\ msg'[k].chat = c /\ msg'[k].role = role /\ msg'[k].copyOf = 0
        /\ msg'[k].parent = IF InChat(p, c) THEN p ELSE 0
    BY <2>2, <2>4
  <2>6. ASSUME InChat(p, c)
        PROVE  p \in 1 .. Len(msg) /\ p # 0 /\ p < k /\ p \in 1 .. Len(msg') /\ msg'[p] = msg[p] /\ msg[p].chat = c
    <3>1. p \in 1 .. Len(msg) /\ msg[p].chat = c
      BY <1>2, <2>6 DEF InChat
    <3>. QED BY <1>2, <2>2, <2>4, <3>1
  <2>7. Planted(k)'
    <3>1. CASE InChat(p, c)
      BY <1>6, <2>5, <2>6, <3>1 DEF Planted
    <3>2. CASE ~InChat(p, c)
      BY <1>6, <2>5, <3>2 DEF Planted
    <3>. QED BY <3>1, <3>2
  <2>8. \A i \in 1 .. Len(msg') : i \in 1 .. Len(msg) \/ i = k
    BY <1>2, <2>2, <2>4
  <2>. QED BY <1>3, <2>3, <2>7, <2>8
<1>7. ASSUME NEW t \in Posts, AsksRow(t) PROVE ThreadsAreForests'
  <2>1. turn[t].anchor \in Nat /\ "" \in Texts
    BY <1>1 DEF ChatTypes, AnyTurn, Texts
  <2>. QED BY <1>6, <1>7, <2>1 DEF AsksRow
<1>8. ASSUME NEW t \in Posts, AnswersRow(t) PROVE ThreadsAreForests'
  <2>. DEFINE u == turn[t]
  <2>. DEFINE steps == IF u.stream THEN "answer" ELSE ""
  <2>1. u.question \in Nat /\ u.text \in Texts
    BY <1>1 DEF ChatTypes, AnyTurn
  <2>2. steps \in Texts
    BY DEF Texts
  <2>3. u.pc = "store" /\ u.chat \in chats /\ Insert(u.chat, "ai", u.question, u.text, steps)
    BY <1>8 DEF AnswersRow, At
  <2>4. u.question # 0 /\ u.question <= Len(msg) /\ msg[u.question].role = "user" /\ msg[u.question].chat = u.chat
    BY <1>1, <2>3 DEF Stands, AfterTheQuestion, Exists
  <2>5. InChat(u.question, u.chat)
    <3>1. u.question \in 1 .. Len(msg)
      <4>. DEFINE q == u.question
      <4>1. q \in Nat /\ q # 0 /\ q <= Len(msg)
        BY <2>1, <2>4
      <4>. HIDE DEF q
      <4>2. q \in 1 .. Len(msg)
        BY <1>2, <4>1
      <4>. QED BY <4>2 DEF q
    <3>. QED BY <1>2, <2>4, <3>1 DEF InChat
  <2>. HIDE DEF steps
  <2>. QED BY <1>6, <2>1, <2>2, <2>3, <2>4, <2>5
<1>9. ASSUME NEW t \in Posts, RewritesRow(t) PROVE ThreadsAreForests'
  <2>1. turn[t].answer \in 1 .. Len(msg)
    <3>. DEFINE a == turn[t].answer
    <3>1. a \in Nat /\ a <= Len(msg) /\ a # 0
      BY <1>1, <1>9 DEF ChatTypes, AnyTurn, Exists, RewritesRow
    <3>. HIDE DEF a
    <3>2. a \in 1 .. Len(msg)
      BY <1>2, <3>1
    <3>. QED BY <3>2 DEF a
  <2>2. Len(msg') = Len(msg) /\ \A i \in 1 .. Len(msg) : msg'[i].chat = msg[i].chat
    BY <1>1, <1>9, <2>1, RewriteIs
  <2>3. \A i \in 1 .. Len(msg') : Planted(i)'
    BY <1>4, <2>2
  <2>. QED BY <1>3, <2>3
<1>10. ASSUME NEW c \in chats, DeleteChat(c) PROVE ThreadsAreForests'
  <2>1. /\ Len(msg') = Len(msg)
        /\ \A i \in 1 .. Len(msg) : msg'[i].chat = IF msg[i].chat = c THEN 0 ELSE msg[i].chat
    BY <1>1, <1>10, DeleteIs
  <2>2. ASSUME NEW i \in 1 .. Len(msg) PROVE Planted(i)'
    BY <1>1, <1>3, <2>1, PlantedStays
  <2>3. \A i \in 1 .. Len(msg') : Planted(i)'
    BY <2>1, <2>2
  <2>. QED BY <1>3, <2>3
<1>11. ASSUME NEW c \in chats, NEW i \in 0 .. Len(msg), Branch(c, i) PROVE ThreadsAreForests'
  <2>1. \A j \in 1 .. Len(msg) : msg'[j].chat = msg[j].chat
    <3>1. ChatTypes /\ RowsPlaced
      BY DEF TurnsStand
    <3>. QED BY <1>11, <3>1, BranchIs
  <2>2. ASSUME NEW k \in 1 .. Len(msg') PROVE Planted(k)'
    <3>1. CASE k > Len(msg)
      BY <1>11, <3>1, BranchIsPlanted
    <3>2. CASE ~(k > Len(msg))
      <4>1. k \in 1 .. Len(msg)
        BY <1>2, <3>2
      <4>. QED BY <1>4, <2>1, <4>1
    <3>. QED BY <3>1, <3>2
  <2>. QED BY <1>3, <2>2
<1>. QED BY <1>5, <1>7, <1>8, <1>9, <1>10, <1>11, RowSteps DEF KeepsRows, MakesChat

LEMMA ForestInit ==
    ASSUME ChatInit
    PROVE  ThreadsAreForests
<1>1. Past \in Nat /\ 2 * Past \in Nat
  BY ChatAssumption
<1>2. msg = [i \in 1 .. 2 * Past |->
                [chat |-> 1, role |-> IF i % 2 = 1 THEN "user" ELSE "ai", parent |-> i - 1,
                 at |-> i, text |-> IF i % 2 = 1 THEN "" ELSE "answer",
                 steps |-> IF i % 2 = 1 THEN "" ELSE "answer", copyOf |-> 0]]
  BY DEF ChatInit
<1>3. DOMAIN msg = 1 .. 2 * Past
  BY <1>2
<1>4. \A i \in 1 .. 2 * Past :
         /\ msg[i].chat = 1 /\ msg[i].parent = i - 1 /\ msg[i].copyOf = 0
         /\ msg[i].role = IF i % 2 = 1 THEN "user" ELSE "ai"
  BY <1>2
<1>5. ASSUME NEW i \in 1 .. 2 * Past
      PROVE  /\ i - 1 # 0 => i - 1 < i /\ i - 1 \in 1 .. 2 * Past
             /\ i % 2 # 1 => i - 1 # 0 /\ (i - 1) % 2 = 1
  <2>1. i \in Nat /\ i # 0
    BY <1>1
  <2>2. i - 1 # 0 => i - 1 < i /\ i - 1 \in 1 .. 2 * Past
    BY <1>1, <2>1
  <2>3. i % 2 # 1 => i - 1 # 0 /\ (i - 1) % 2 = 1
    BY <2>1
  <2>. QED BY <2>2, <2>3
<1>6. ASSUME NEW i \in DOMAIN msg, msg[i].chat # 0
      PROVE  /\ msg[i].parent # 0 => msg[i].parent < i /\ InChat(msg[i].parent, msg[i].chat)
             /\ msg[i].role = "ai" => msg[i].parent # 0 /\ msg[msg[i].parent].role = "user"
             /\ msg[i].copyOf = 0
  <2>. DEFINE p == i - 1
  <2>1. i \in 1 .. 2 * Past
    BY <1>3
  <2>2. (p # 0 => p < i /\ p \in 1 .. 2 * Past) /\ (i % 2 # 1 => p # 0 /\ p % 2 = 1)
    BY <1>5, <2>1
  <2>3. msg[i].parent = p /\ msg[i].chat = 1 /\ msg[i].copyOf = 0 /\ (msg[i].role = "ai" => i % 2 # 1)
    BY <1>4, <2>1
  <2>4. p \in 1 .. 2 * Past => msg[p].chat = 1 /\ (p % 2 = 1 => msg[p].role = "user")
    BY <1>4
  <2>. HIDE DEF p
  <2>. QED BY <1>3, <2>2, <2>3, <2>4 DEF InChat
<1>. QED BY <1>6 DEF ThreadsAreForests

\* Whatever the requests name and however the turns overlap, fail and die, the rows of a
\* chat are a forest: a row follows an older one of its own chat, an answer follows its
\* question, and a branch has the shape of what it copies.
THEOREM ChatsAreForests == ChatSpec => []ThreadsAreForests
<1>1. ChatInit => TurnsStand /\ ThreadsAreForests
  BY TurnsStandInit, ForestInit
<1>2. TurnsStand /\ ThreadsAreForests /\ [ChatNext]_chatVars => (TurnsStand /\ ThreadsAreForests)'
  <2>1. ASSUME TurnsStand, ThreadsAreForests, UNCHANGED chatVars PROVE ThreadsAreForests'
    BY <2>1 DEF ThreadsAreForests, InChat, chatVars
  <2>. QED BY <2>1, TurnsStandStep, TurnsStandStays, ForestStep
<1>. QED BY <1>1, <1>2, PTL DEF ChatSpec

-----------------------------------------------------------------------------
(* A turn is fed the thread its question stands in.                         *)

LEMMA PointsBack ==
    ASSUME NEW m \in Seq(AnyRow), \A i \in 1 .. Len(m) : m[i].parent < i
    PROVE  PointBack(m)
<1>1. Len(m) \in Nat /\ DOMAIN m = 1 .. Len(m) /\ \A i \in 1 .. Len(m) : m[i] \in AnyRow
  BY LenProperties, ElementOfSeq
<1>2. ASSUME NEW i \in 1 .. Len(m) PROVE m[i].parent \in 0 .. i - 1
  <2>1. m[i].parent \in Nat /\ m[i].parent < i
    BY <1>1 DEF AnyRow
  <2>. QED BY <2>1
<1>. QED BY <1>1, <1>2 DEF PointBack

\* As long as there is the chat, its rows and what is above them stay.
LEMMA ThreadsAreKept ==
    ASSUME TurnsStand, TurnsStand', Kept, NEW c \in chats', c \in 1 .. born, NEW i \in 0 .. Len(msg)
    PROVE  /\ Above(msg', c, i) = Above(msg, c, i) /\ (Within(msg', i, c) <=> Within(msg, i, c))
           /\ \A j \in 1 .. Len(msg) : msg'[j].chat = c <=> msg[j].chat = c
<1>1. PointBack(msg) /\ PointBack(msg')
  <2>1. msg \in Seq(AnyRow) /\ \A j \in 1 .. Len(msg) : msg[j].parent < j
    BY DEF TurnsStand, ChatTypes, RowsPlaced
  <2>2. msg' \in Seq(AnyRow) /\ \A j \in 1 .. Len(msg') : msg'[j].parent < j
    BY DEF TurnsStand, ChatTypes, RowsPlaced
  <2>3. PointBack(msg)
    BY <2>1, PointsBack
  <2>4. PointBack(msg')
    BY <2>2, PointsBack
  <2>. QED BY <2>3, <2>4
<1>2. Len(msg) \in Nat /\ Len(msg') \in Nat /\ Len(msg) <= Len(msg') /\ c # 0
  BY <1>1 DEF PointBack, Kept
<1>3. \A j \in 1 .. Len(msg) : msg'[j].parent = msg[j].parent /\ (msg'[j].chat = c <=> msg[j].chat = c)
  BY <1>2 DEF Kept
<1>4. i <= Len(msg') /\ \A j \in 1 .. i : j \in 1 .. Len(msg)
  BY <1>2
<1>5. Above(msg', c, i) = Above(msg, c, i)
  BY <1>1, <1>3, <1>4, AboveStays
<1>6. Within(msg', i, c) <=> Within(msg, i, c)
  <2>1. i \in DOMAIN msg <=> i \in 1 .. Len(msg)
    BY <1>1 DEF PointBack
  <2>2. i \in DOMAIN msg' <=> i \in 1 .. Len(msg)
    <3>1. DOMAIN msg' = 1 .. Len(msg')
      BY <1>1 DEF PointBack
    <3>. QED BY <1>2, <3>1
  <2>. QED BY <1>3, <2>1, <2>2 DEF Within
<1>. QED BY <1>3, <1>5, <1>6

IsFed(u) == u.pc = "generate" \/ (u.regen /\ u.pc \in {"prepare", "ask"})

Feed(t) ==
    LET u == turn[t] IN
    /\ u.pc \in {"resolve", "anchor"} => u.anchor = 0
    /\ u.chat \in chats =>
          /\ u.pc \in {"history", "prepare", "ask"} /\ ~u.regen /\ u.anchor # 0 =>
                Within(msg, u.anchor, u.chat)
          /\ u.pc \in {"prepare", "ask"} /\ ~u.regen /\ u.whole =>
                IF u.anchor # 0 THEN u.hist = Above(msg, u.chat, u.anchor)
                ELSE \A i \in u.hist : i \in 1 .. Len(msg) /\ msg[i].chat = u.chat
          /\ IsFed(u) /\ u.whole =>
                IF u.regen \/ u.anchor # 0 THEN u.hist = Above(msg, u.chat, u.question) \ {u.question}
                ELSE \A i \in u.hist : /\ i \in 1 .. Len(msg) /\ msg[i].chat = u.chat
                                       /\ msg[i].at < msg[u.question].at

SameFeed(t) ==
    /\ turn'[t].chat = turn[t].chat /\ turn'[t].regen = turn[t].regen
    /\ turn'[t].anchor = turn[t].anchor /\ turn'[t].question = turn[t].question
    /\ turn'[t].hist = turn[t].hist /\ turn'[t].whole = turn[t].whole

LEMMA FeedStays ==
    ASSUME TurnsStand, TurnsStand', Kept, NEW t \in Posts, Feed(t), SameFeed(t),
           \/ turn'[t].pc = turn[t].pc
           \/ turn[t].pc \in {"prepare", "ask"} /\ turn'[t].pc \in {"prepare", "ask"}
           \/ turn[t].regen /\ turn[t].pc = "ask" /\ turn'[t].pc = "generate"
    PROVE  Feed(t)'
<1>1. PICK c, a, q, h : c = turn[t].chat /\ a = turn[t].anchor /\ q = turn[t].question /\ h = turn[t].hist
  OBVIOUS
<1>2. turn'[t].chat = c /\ turn'[t].anchor = a /\ turn'[t].question = q /\ turn'[t].hist = h
  BY <1>1 DEF SameFeed
<1>3. turn'[t].pc \in {"resolve", "anchor"} => a = 0
  BY <1>1, <1>2 DEF Feed
<1>4. SUFFICES ASSUME c \in chats'
               PROVE  LET u == turn'[t] IN
                      /\ u.pc \in {"history", "prepare", "ask"} /\ ~u.regen /\ a # 0 => Within(msg', a, c)
                      /\ u.pc \in {"prepare", "ask"} /\ ~u.regen /\ u.whole =>
                            IF a # 0 THEN h = Above(msg', c, a)
                            ELSE \A i \in h : i \in 1 .. Len(msg') /\ msg'[i].chat = c
                      /\ IsFed(u) /\ u.whole =>
                            IF u.regen \/ a # 0 THEN h = Above(msg', c, q) \ {q}
                            ELSE \A i \in h : i \in 1 .. Len(msg') /\ msg'[i].chat = c /\ msg'[i].at < msg'[q].at
  BY <1>2, <1>3 DEF Feed, IsFed
<1>5. CASE turn[t].pc \notin {"history", "prepare", "ask", "generate"}
  BY <1>5 DEF IsFed
<1>6. CASE turn[t].pc \in {"history", "prepare", "ask", "generate"}
  <2>1. turn[t] \in AnyTurn /\ Stands(t) /\ Exists(t)
    BY DEF TurnsStand, ChatTypes, TurnsInv, RowsExist
  <2>2. c \in 1 .. born /\ c \in chats
    <3>1. c \in 1 .. born
      BY <1>1, <1>6, <2>1 DEF Stands, BeforeTheChat
    <3>2. c <= born
      BY <3>1 DEF TurnsStand, ChatTypes
    <3>. QED BY <1>4, <3>1, <3>2 DEF Kept
  <2>3. Len(msg) \in Nat /\ Len(msg') \in Nat /\ Len(msg) <= Len(msg')
    BY LenProperties DEF TurnsStand, ChatTypes, Kept
  <2>4. a \in 0 .. Len(msg) /\ q \in 0 .. Len(msg)
    <3>1. a \in Nat /\ q \in Nat /\ a <= Len(msg) /\ q <= Len(msg)
      BY <1>1, <2>1 DEF Exists, AnyTurn
    <3>. QED BY <2>3, <3>1
  <2>5. /\ Above(msg', c, a) = Above(msg, c, a) /\ (Within(msg', a, c) <=> Within(msg, a, c))
        /\ Above(msg', c, q) = Above(msg, c, q)
        /\ \A j \in 1 .. Len(msg) : msg'[j].chat = c <=> msg[j].chat = c
    BY <1>4, <2>2, <2>4, ThreadsAreKept
  <2>6. \A i \in 1 .. Len(msg) : i \in 1 .. Len(msg') /\ msg'[i].at = msg[i].at
    BY <2>3 DEF Kept
  <2>7. IsFed(turn[t]) => q \in 1 .. Len(msg)
    <3>1. IsFed(turn[t]) => q # 0
      BY <1>1, <2>1 DEF Stands, IsFed, AfterTheQuestion
    <3>. QED BY <2>3, <2>4, <3>1
  <2>8. IsFed(turn'[t]) => IsFed(turn[t])
    BY DEF IsFed, SameFeed
  <2>9. ASSUME turn'[t].pc \in {"history", "prepare", "ask"}, ~turn'[t].regen, a # 0
        PROVE  Within(msg', a, c)
    BY <1>1, <2>2, <2>5, <2>9 DEF Feed, SameFeed
  <2>10. ASSUME turn'[t].pc \in {"prepare", "ask"}, ~turn'[t].regen, turn'[t].whole
         PROVE  IF a # 0 THEN h = Above(msg', c, a)
                ELSE \A i \in h : i \in 1 .. Len(msg') /\ msg'[i].chat = c
    <3>1. IF a # 0 THEN h = Above(msg, c, a) ELSE \A i \in h : i \in 1 .. Len(msg) /\ msg[i].chat = c
      BY <1>1, <2>2, <2>10 DEF Feed, SameFeed
    <3>. QED BY <2>5, <2>6, <3>1
  <2>11. ASSUME IsFed(turn'[t]), turn'[t].whole
         PROVE  IF turn'[t].regen \/ a # 0 THEN h = Above(msg', c, q) \ {q}
                ELSE \A i \in h : i \in 1 .. Len(msg') /\ msg'[i].chat = c /\ msg'[i].at < msg'[q].at
    <3>1. IF turn'[t].regen \/ a # 0 THEN h = Above(msg, c, q) \ {q}
          ELSE \A i \in h : i \in 1 .. Len(msg) /\ msg[i].chat = c /\ msg[i].at < msg[q].at
      BY <1>1, <2>2, <2>8, <2>11 DEF Feed, SameFeed
    <3>2. msg'[q].at = msg[q].at
      BY <2>6, <2>7, <2>8, <2>11
    <3>. QED BY <2>5, <2>6, <3>1, <3>2
  <2>. QED BY <2>9, <2>10, <2>11
<1>. QED BY <1>5, <1>6

LEMMA TurnFeeds ==
    ASSUME TurnsStand, TurnsStand', Kept, NEW t \in Posts, Feed(t), TurnStep(t)
    PROVE  Feed(t)'
<1>. DEFINE u == turn[t]
<1>1. u \in AnyTurn /\ Stands(t) /\ Exists(t) /\ ChatTypes /\ RowsPlaced
  BY DEF TurnsStand, ChatTypes, TurnsInv, RowsExist
<1>2. /\ Len(msg) \in Nat /\ DOMAIN msg = 1 .. Len(msg) /\ (\A i \in 1 .. Len(msg) : msg[i] \in AnyRow)
      /\ born \in Nat /\ chats \subseteq 1 .. born /\ PointBack(msg)
  BY <1>1, RowTypes, RowsPointBack DEF ChatTypes
<1>ptr. u.ref \in 0 .. Len(msg) /\ u.anchor \in 0 .. Len(msg) /\ u.question \in 0 .. Len(msg)
  <2>1. u.ref \in Nat /\ u.anchor \in Nat /\ u.question \in Nat
    BY <1>1 DEF AnyTurn
  <2>2. u.ref <= Len(msg) /\ u.anchor <= Len(msg) /\ u.question <= Len(msg)
    BY <1>1 DEF Exists
  <2>. QED BY <1>2, <2>1, <2>2
<1>3. turn'[t].pc \in {"idle", "store", "check", "show", "steps", "close", "done"} => Feed(t)'
  BY DEF Feed, IsFed
<1>4. \A word : End(t, word) => Feed(t)'
  BY <1>1, <1>3, EndIs
<1>5. ASSUME NEW stage, GoOn(t, stage)
      PROVE  turn'[t].pc = stage /\ SameFeed(t)
  <2>1. turn'[t] = [u EXCEPT !.pc = stage]
    BY <1>1, <1>5, GoOnIs
  <2>. QED BY <1>1, <2>1 DEF AnyTurn, SameFeed
<1>6. CASE Send(t)
  <2>1. PICK c \in 0 .. born, r \in 0 .. Len(msg), asks \in Requests :
           Become(t, [Quiet EXCEPT !.pc = "resolve", !.chat = c, !.ref = r,
                                   !.stream = asks.stream, !.regen = asks.regen])
    BY <1>6 DEF Send
  <2>2. turn'[t] = [Quiet EXCEPT !.pc = "resolve", !.chat = c, !.ref = r,
                                 !.stream = asks.stream, !.regen = asks.regen]
    BY <1>1, <2>1, BecomeIs
  <2>3. turn'[t].pc = "resolve" /\ turn'[t].anchor = 0
    BY <2>2 DEF Quiet
  <2>. QED BY <2>3 DEF Feed, IsFed
<1>7. CASE Resolve(t)
  <2>1. u.anchor = 0
    BY <1>7 DEF Feed, Resolve, At
  <2>2. ASSUME NEW c, Become(t, [u EXCEPT !.pc = "anchor", !.chat = c]) PROVE Feed(t)'
    <3>1. turn'[t] = [u EXCEPT !.pc = "anchor", !.chat = c]
      BY <1>1, <2>2, BecomeIs
    <3>2. turn'[t].pc = "anchor" /\ turn'[t].anchor = 0
      BY <1>1, <2>1, <3>1 DEF AnyTurn
    <3>. QED BY <3>2 DEF Feed, IsFed
  <2>3. CASE GoOn(t, "anchor")
    <3>1. turn'[t].pc = "anchor" /\ turn'[t].anchor = 0
      BY <1>5, <2>1, <2>3 DEF SameFeed
    <3>. QED BY <3>1 DEF Feed, IsFed
  <2>. QED BY <1>4, <1>7, <2>2, <2>3 DEF Resolve
<1>8. CASE Anchor(t)
  <2>1. u.anchor = 0 /\ UNCHANGED <<chats, msg>>
    BY <1>8 DEF Feed, Anchor, At
  <2>2. CASE Become(t, [u EXCEPT !.pc = "history", !.anchor = IF InChat(u.ref, u.chat) THEN u.ref ELSE 0])
    <3>1. turn'[t] = [u EXCEPT !.pc = "history", !.anchor = IF InChat(u.ref, u.chat) THEN u.ref ELSE 0]
      BY <1>1, <2>2, BecomeIs
    <3>2. /\ turn'[t].pc = "history" /\ turn'[t].chat = u.chat
          /\ turn'[t].anchor = IF InChat(u.ref, u.chat) THEN u.ref ELSE 0
      BY <1>1, <3>1 DEF AnyTurn
    <3>3. turn'[t].anchor # 0 => Within(msg', turn'[t].anchor, turn'[t].chat)
      BY <2>1, <3>2 DEF InChat, Within
    <3>. QED BY <3>2, <3>3 DEF Feed, IsFed
  <2>3. CASE Become(t, [u EXCEPT !.pc = "history"])
    <3>1. turn'[t] = [u EXCEPT !.pc = "history"]
      BY <1>1, <2>3, BecomeIs
    <3>2. turn'[t].pc = "history" /\ turn'[t].anchor = 0
      BY <1>1, <2>1, <3>1 DEF AnyTurn
    <3>. QED BY <3>2 DEF Feed, IsFed
  <2>. QED BY <1>8, <2>2, <2>3 DEF Anchor
<1>9. CASE LoadHistory(t)
  <2>1. u.pc = "history" /\ ~u.regen /\ UNCHANGED <<chats, msg>>
    BY <1>1, <1>9 DEF LoadHistory, At, Stands
  <2>2. CASE Become(t, [u EXCEPT !.pc = "prepare", !.whole = FALSE])
    <3>1. turn'[t] = [u EXCEPT !.pc = "prepare", !.whole = FALSE]
      BY <1>1, <2>2, BecomeIs
    <3>2. /\ turn'[t].pc = "prepare" /\ turn'[t].chat = u.chat /\ turn'[t].anchor = u.anchor
          /\ ~turn'[t].whole /\ turn'[t].regen = u.regen
      BY <1>1, <3>1 DEF AnyTurn
    <3>. QED BY <2>1, <3>2 DEF Feed, IsFed
  <2>3. CASE Become(t, [u EXCEPT !.pc = "prepare",
                          !.hist = IF u.anchor # 0 THEN Thread(u.chat, u.anchor) ELSE RowsOf(u.chat)])
    <3>1. turn'[t] = [u EXCEPT !.pc = "prepare",
                        !.hist = IF u.anchor # 0 THEN Thread(u.chat, u.anchor) ELSE RowsOf(u.chat)]
      BY <1>1, <2>3, BecomeIs
    <3>2. /\ turn'[t].pc = "prepare" /\ turn'[t].chat = u.chat /\ turn'[t].anchor = u.anchor
          /\ turn'[t].regen = u.regen
          /\ turn'[t].hist = IF u.anchor # 0 THEN Thread(u.chat, u.anchor) ELSE RowsOf(u.chat)
      BY <1>1, <3>1 DEF AnyTurn
    <3>3. Thread(u.chat, u.anchor) = Above(msg', u.chat, u.anchor)
      BY <2>1, ThreadIsAbove
    <3>4. \A i \in RowsOf(u.chat) : i \in 1 .. Len(msg') /\ msg'[i].chat = u.chat
      BY <1>2, <2>1 DEF RowsOf, InChat
    <3>. QED BY <2>1, <3>2, <3>3, <3>4 DEF Feed, IsFed
  <2>. QED BY <1>9, <2>2, <2>3 DEF LoadHistory
<1>10. CASE AnswerAgain(t)
  <2>. DEFINE q == Asked(u.chat, u.ref)
  <2>1. u.regen /\ UNCHANGED <<chats, msg>>
    BY <1>10 DEF AnswerAgain
  <2>2. CASE q # 0 /\ Become(t, [u EXCEPT !.pc = "prepare", !.question = q, !.anchor = msg[q].parent,
                                         !.hist = Thread(u.chat, u.ref) \ {u.ref, q}])
    <3>1. InChat(q, u.chat) /\ (q = u.ref \/ (q = msg[u.ref].parent /\ InChat(u.ref, u.chat)))
      BY <2>2 DEF Asked
    <3>2. Thread(u.chat, u.ref) \ {u.ref, q} = Above(msg, u.chat, q) \ {q}
      <4>1. CASE q = u.ref
        <5>. HIDE DEF q
        <5>. QED BY <4>1, ThreadIsAbove
      <4>2. CASE q = msg[u.ref].parent /\ InChat(u.ref, u.chat)
        <5>1. Within(msg, u.ref, u.chat) /\ Thread(u.chat, u.ref) = Above(msg, u.chat, u.ref)
          BY <4>2, ThreadIsAbove
        <5>2. Above(msg, u.chat, u.ref) = {u.ref} \cup Above(msg, u.chat, msg[u.ref].parent)
          BY <1>2, <1>ptr, <5>1, AboveUnfolds
        <5>3. q \in 0 .. u.ref - 1 /\ u.ref \in Nat
          BY <1>2, <1>ptr, <4>2 DEF PointBack, InChat
        <5>. HIDE DEF q
        <5>4. u.ref \notin 1 .. q /\ q \in 0 .. Len(msg)
          BY <1>2, <1>ptr, <5>3
        <5>5. u.ref \notin Above(msg, u.chat, q)
          BY <1>2, <5>4, AboveIsOlder
        <5>. QED BY <4>2, <5>1, <5>2, <5>5
      <4>. QED BY <3>1, <4>1, <4>2
    <3>. HIDE DEF q
    <3>3. turn'[t] = [u EXCEPT !.pc = "prepare", !.question = q, !.anchor = msg[q].parent,
                               !.hist = Thread(u.chat, u.ref) \ {u.ref, q}]
      BY <1>1, <2>2, BecomeIs
    <3>4. /\ turn'[t].pc = "prepare" /\ turn'[t].chat = u.chat /\ turn'[t].regen /\ turn'[t].question = q
          /\ turn'[t].hist = Thread(u.chat, u.ref) \ {u.ref, q}
      <4>1. PICK a, h : a = msg[q].parent /\ h = Thread(u.chat, u.ref) \ {u.ref, q}
        OBVIOUS
      <4>2. turn'[t] = [u EXCEPT !.pc = "prepare", !.question = q, !.anchor = a, !.hist = h]
        BY <3>3, <4>1, Zenon
      <4>3. /\ turn'[t].pc = "prepare" /\ turn'[t].chat = u.chat /\ turn'[t].regen = u.regen
            /\ turn'[t].question = q /\ turn'[t].hist = h
        BY <1>1, <4>2 DEF AnyTurn
      <4>. QED BY <2>1, <4>1, <4>3
    <3>5. turn'[t].hist = Above(msg', u.chat, q) \ {q}
      BY <2>1, <3>2, <3>4
    <3>. QED BY <3>4, <3>5 DEF Feed, IsFed
  <2>. QED BY <1>4, <1>10, <2>2 DEF AnswerAgain
<1>11. CASE TransformFollowUp(t) \/ Prepare(t)
  <2>1. ASSUME NEW r, Become(t, [u EXCEPT !.pc = "ask", !.route = r]), u.pc = "prepare" PROVE Feed(t)'
    <3>1. turn'[t] = [u EXCEPT !.pc = "ask", !.route = r]
      BY <1>1, <2>1, BecomeIs
    <3>2. turn'[t].pc = "ask" /\ SameFeed(t)
      BY <1>1, <3>1 DEF AnyTurn, SameFeed
    <3>. QED BY <2>1, <3>2, FeedStays
  <2>. QED BY <1>4, <1>11, <2>1 DEF TransformFollowUp, Prepare, At
<1>12. CASE StoreQuestion(t)
  <2>1. u.pc = "ask"
    BY <1>12 DEF StoreQuestion, At
  <2>2. CASE NotAsked(t)
    <3>1. CASE GoOn(t, "prepare")
      BY <1>5, <2>1, <3>1, FeedStays
    <3>. QED BY <1>4, <2>2, <3>1 DEF NotAsked
  <2>3. CASE u.regen /\ GoOn(t, "generate")
    BY <1>5, <2>1, <2>3, FeedStays
  <2>4. CASE /\ ~u.regen /\ u.chat \in chats /\ Insert(u.chat, "user", u.anchor, "", "") /\ UNCHANGED <<chats, born>>
             /\ Become(t, [u EXCEPT !.pc = "generate", !.question = NewRow])
    <3>1. PICK c, a, h, q : c = u.chat /\ a = u.anchor /\ h = u.hist /\ q = Len(msg) + 1
      OBVIOUS
    <3>2. turn'[t] = [u EXCEPT !.pc = "generate", !.question = q]
      BY <1>1, <2>4, <3>1, BecomeIs DEF NewRow
    <3>3. /\ turn'[t].pc = "generate" /\ turn'[t].chat = c /\ turn'[t].question = q
          /\ turn'[t].anchor = a /\ turn'[t].hist = h /\ turn'[t].whole = u.whole /\ ~turn'[t].regen
      BY <1>1, <2>4, <3>1, <3>2 DEF AnyTurn
    <3>4. c \in Nat \ {0} /\ c \in 1 .. born /\ c \in chats'
      <4>1. 1 .. born \subseteq Nat \ {0}
        BY <1>2
      <4>. QED BY <1>2, <2>4, <3>1, <4>1, Zenon
    <3>5. a \in Nat /\ a \in 0 .. Len(msg) /\ "" \in Texts /\ q \in Nat /\ q # 0 /\ q \notin 1 .. Len(msg)
      BY <1>2, <1>ptr, <3>1 DEF Texts
    <3>6. /\ Len(msg') = q /\ (\A i \in 1 .. Len(msg) : msg'[i] = msg[i])
          /\ msg'[q] = [chat |-> c, role |-> "user", parent |-> IF InChat(a, c) THEN a ELSE 0,
                        at |-> q, text |-> "", steps |-> "", copyOf |-> 0]
      <4>1. Insert(c, "user", a, "", "") /\ "user" \in {"user", "ai"}
        BY <2>4, <3>1
      <4>2. /\ Len(msg') = Len(msg) + 1 /\ (\A i \in 1 .. Len(msg) : msg'[i] = msg[i])
            /\ msg'[Len(msg) + 1] =
                  [chat |-> c, role |-> "user", parent |-> IF InChat(a, c) THEN a ELSE 0,
                   at |-> Len(msg) + 1, text |-> "", steps |-> "", copyOf |-> 0]
        BY <1>1, <3>4, <3>5, <4>1, InsertIs
      <4>. QED BY <3>1, <4>2, Zenon
    <3>7. msg'[q].at = q /\ msg'[q].chat = c /\ msg'[q].parent = IF InChat(a, c) THEN a ELSE 0
      <4>. DEFINE p == IF InChat(a, c) THEN a ELSE 0
      <4>1. msg'[q] = [chat |-> c, role |-> "user", parent |-> p,
                       at |-> q, text |-> "", steps |-> "", copyOf |-> 0]
        BY <3>6
      <4>. HIDE DEF p
      <4>2. msg'[q].at = q /\ msg'[q].chat = c /\ msg'[q].parent = p
        <5>1. ASSUME NEW r, r = [chat |-> c, role |-> "user", parent |-> p,
                                 at |-> q, text |-> "", steps |-> "", copyOf |-> 0]
              PROVE  r.at = q /\ r.chat = c /\ r.parent = p
          BY <5>1
        <5>. QED BY <4>1, <5>1
      <4>. QED BY <4>2 DEF p
    <3>8. ASSUME a # 0, u.whole
          PROVE  h = Above(msg', c, q) \ {q}
      <4>1. Within(msg, a, c) /\ h = Above(msg, c, a)
        BY <2>1, <2>4, <3>1, <3>8 DEF Feed
      <4>2. InChat(a, c)
        BY <4>1 DEF InChat, Within
      <4>3. Above(msg', c, a) = Above(msg, c, a)
        BY <3>4, <3>5, ThreadsAreKept
      <4>4. PointBack(msg')
        <5>1. msg' \in Seq(AnyRow) /\ \A j \in 1 .. Len(msg') : msg'[j].parent < j
          BY DEF TurnsStand, ChatTypes, RowsPlaced
        <5>. QED BY <5>1, PointsBack
      <4>5. q \in 0 .. Len(msg') /\ q \in DOMAIN msg'
        <5>1. Len(msg') = q /\ DOMAIN msg' = 1 .. Len(msg')
          BY <3>6, <4>4 DEF PointBack
        <5>2. q \in Nat /\ q # 0
          BY <3>5
        <5>3. q \in 0 .. q /\ q \in 1 .. q
          BY <5>2
        <5>. QED BY <5>1, <5>3
      <4>6. Above(msg', c, q) = {q} \cup Above(msg', c, a)
        BY <3>7, <4>2, <4>4, <4>5, AboveUnfolds DEF Within
      <4>7. q \notin Above(msg, c, a)
        <5>1. 1 .. a \subseteq 1 .. Len(msg)
          <6>1. a \in 0 .. Len(msg) /\ Len(msg) \in Nat
            BY <1>2, <3>5
          <6>. QED BY <6>1
        <5>. QED BY <1>2, <3>5, <5>1, AboveIsOlder
      <4>. QED BY <4>1, <4>3, <4>6, <4>7
    <3>9. ASSUME a = 0, u.whole, NEW i \in h
          PROVE  i \in 1 .. Len(msg') /\ msg'[i].chat = c /\ msg'[i].at < msg'[q].at
      <4>1. i \in 1 .. Len(msg) /\ msg[i].chat = c
        BY <2>1, <2>4, <3>1, <3>9 DEF Feed
      <4>2. msg[i].at <= i /\ msg[i].at \in Nat
        BY <1>1, <1>2, <4>1 DEF RowsPlaced, AnyRow
      <4>3. msg[i].at < q /\ i \in 1 .. Len(msg')
        <5>1. q = Len(msg) + 1 /\ Len(msg) \in Nat /\ Len(msg') = q
          BY <1>2, <3>1, <3>6
        <5>2. i \in 1 .. Len(msg) /\ msg[i].at <= i /\ msg[i].at \in Nat
          BY <4>1, <4>2
        <5>. DEFINE at == msg[i].at
        <5>. HIDE DEF at
        <5>3. at <= i /\ at \in Nat
          BY <5>2 DEF at
        <5>4. at < q /\ i \in 1 .. q
          BY <5>1, <5>2, <5>3
        <5>. QED BY <5>1, <5>4 DEF at
      <4>. QED BY <3>6, <3>7, <4>1, <4>3
    <3>. QED BY <3>3, <3>8, <3>9 DEF Feed, IsFed
  <2>. QED BY <1>12, <2>2, <2>3, <2>4 DEF StoreQuestion
<1>13. CASE Generate(t) \/ GenerateFails(t)
  <2>1. turn'[t].pc \in {"store", "done"}
    BY <1>1, <1>13, GenerateIs
  <2>. QED BY <1>3, <2>1
<1>14. CASE StoreAnswer(t)
  <2>1. ASSUME Become(t, [u EXCEPT !.pc = "check", !.answer = NewRow]) PROVE Feed(t)'
    <3>1. turn'[t] = [u EXCEPT !.pc = "check", !.answer = NewRow]
      BY <1>1, <2>1, BecomeIs
    <3>2. turn'[t].pc = "check"
      BY <1>1, <3>1 DEF AnyTurn
    <3>. QED BY <1>3, <3>2
  <2>. QED BY <1>4, <1>14, <2>1 DEF StoreAnswer
<1>15. CASE KeepAnswer(t) \/ StoreSteps(t)
  BY <1>3, <1>5, <1>15 DEF KeepAnswer, StoreSteps
<1>16. CASE Refine(t)
  <2>1. turn'[t] = [u EXCEPT !.pc = "show", !.text = "refined"]
    BY <1>1, <1>16, BecomeIs DEF Refine
  <2>2. turn'[t].pc = "show"
    BY <1>1, <2>1 DEF AnyTurn
  <2>. QED BY <1>3, <2>2
<1>17. CASE ShowRefined(t) \/ Close(t)
  <2>1. ASSUME NEW stage, NEW seen, NEW end, Become(t, [u EXCEPT !.pc = stage, !.seen = seen, !.end = end])
        PROVE  turn'[t].pc = stage
    <3>1. turn'[t] = [u EXCEPT !.pc = stage, !.seen = seen, !.end = end]
      BY <1>1, <2>1, BecomeIs
    <3>. QED BY <1>1, <3>1 DEF AnyTurn
  <2>2. ASSUME NEW stage, NEW seen, Become(t, [u EXCEPT !.pc = stage, !.seen = seen]) PROVE turn'[t].pc = stage
    <3>1. turn'[t] = [u EXCEPT !.pc = stage, !.seen = seen]
      BY <1>1, <2>2, BecomeIs
    <3>. QED BY <1>1, <3>1 DEF AnyTurn
  <2>3. CASE ShowRefined(t)
    <3>1. turn'[t].pc = IF u.stream THEN "steps" ELSE "close"
      BY <2>2, <2>3 DEF ShowRefined
    <3>2. turn'[t].pc \in {"steps", "close"}
      BY <3>1
    <3>. QED BY <1>3, <3>2
  <2>4. CASE Close(t)
    <3>1. turn'[t].pc = "done"
      BY <2>1, <2>4 DEF Close
    <3>. QED BY <1>3, <3>1
  <2>. QED BY <1>17, <2>3, <2>4
<1>18. CASE ReaderLeaves(t)
  <2>1. turn'[t] = [u EXCEPT !.end = "cut"]
    BY <1>1, <1>18, BecomeIs DEF ReaderLeaves
  <2>2. turn'[t].pc = u.pc /\ SameFeed(t)
    BY <1>1, <2>1 DEF AnyTurn, SameFeed
  <2>. QED BY <2>2, FeedStays
<1>19. CASE ServerDies(t)
  BY <1>4, <1>19 DEF ServerDies
<1>. QED BY <1>6, <1>7, <1>8, <1>9, <1>10, <1>11, <1>12, <1>13, <1>14, <1>15, <1>16, <1>17, <1>18, <1>19
     DEF TurnStep, Step

FeedInv == \A t \in Posts : Feed(t)

LEMMA FeedStep ==
    ASSUME TurnsStand, FeedInv, ChatNext
    PROVE  FeedInv'
<1>1. TurnsStand' /\ Kept /\ ChatTypes /\ RowsPlaced /\ RowsExist
  BY TurnsStandStep DEF TurnsStand, TurnsInv
<1>2. ASSUME NEW q \in Posts, turn'[q] = turn[q] PROVE Feed(q)'
  BY <1>1, <1>2, FeedStays DEF FeedInv, SameFeed
<1>3. ASSUME NEW t \in Posts, TurnStep(t) PROVE Feed(t)'
  BY <1>1, <1>3, TurnFeeds DEF FeedInv
<1>4. turn' = turn \/ \E t \in Posts : TurnStep(t) /\ \A q \in Posts \ {t} : turn'[q] = turn[q]
  BY <1>1, WhoSteps
<1>. QED BY <1>2, <1>3, <1>4 DEF FeedInv

LEMMA FeedIsTheThread ==
    ASSUME TurnsStand, FeedInv
    PROVE  FedTheThread
<1>1. ASSUME NEW t \in Posts, turn[t].pc = "generate", turn[t].whole, InChat(turn[t].question, turn[t].chat)
      PROVE  IF turn[t].regen \/ turn[t].anchor # 0
             THEN turn[t].hist = Thread(turn[t].chat, turn[t].question) \ {turn[t].question}
             ELSE turn[t].hist \subseteq {i \in RowsOf(turn[t].chat) : msg[i].at < msg[turn[t].question].at}
  <2>. DEFINE u == turn[t]
  <2>1. DOMAIN msg = 1 .. Len(msg) /\ born \in Nat
    BY RowTypes DEF TurnsStand, ChatTypes
  <2>2. u.chat \in chats
    <3>1. u.chat \in 1 .. born /\ msg[u.question].chat = u.chat /\ u.question \in 1 .. Len(msg)
      BY <1>1, <2>1 DEF TurnsStand, TurnsInv, Stands, BeforeTheChat, InChat
    <3>2. u.chat # 0
      BY <2>1, <3>1
    <3>. QED BY <3>1, <3>2 DEF TurnsStand, RowsPlaced
  <2>3. IF u.regen \/ u.anchor # 0 THEN u.hist = Above(msg, u.chat, u.question) \ {u.question}
        ELSE \A i \in u.hist : /\ i \in 1 .. Len(msg) /\ msg[i].chat = u.chat
                               /\ msg[i].at < msg[u.question].at
    BY <1>1, <2>2 DEF FeedInv, Feed, IsFed
  <2>4. Thread(u.chat, u.question) = Above(msg, u.chat, u.question)
    BY ThreadIsAbove
  <2>. QED BY <2>1, <2>3, <2>4 DEF RowsOf, InChat
<1>. QED BY <1>1 DEF FedTheThread, At

\* A turn answers from all that is above its question, and from nothing else, although
\* rows are stored, copied and deleted between the loading of its history, the storing of
\* its question and its answer, and it may have begun anew after deep chat failed.
THEOREM TurnsAreFedTheThread == ChatSpec => []FedTheThread
<1>1. ChatInit => TurnsStand /\ FeedInv
  <2>1. ASSUME ChatInit, NEW t \in Posts PROVE Feed(t)
    <3>1. turn[t].pc = "idle"
      BY <2>1 DEF ChatInit, Quiet
    <3>. QED BY <3>1 DEF Feed, IsFed
  <2>. QED BY <2>1, TurnsStandInit DEF FeedInv
<1>2. TurnsStand /\ FeedInv /\ [ChatNext]_chatVars => (TurnsStand /\ FeedInv)'
  <2>1. ASSUME FeedInv, UNCHANGED chatVars PROVE FeedInv'
    BY <2>1 DEF FeedInv, Feed, IsFed, chatVars
  <2>. QED BY <2>1, TurnsStandStep, TurnsStandStays, FeedStep
<1>3. TurnsStand /\ FeedInv => FedTheThread
  BY FeedIsTheThread
<1>. QED BY <1>1, <1>2, <1>3, PTL DEF ChatSpec

-----------------------------------------------------------------------------
(* Who is told that the turn is done has seen what is stored.               *)

LEMMA TurnRows ==
    ASSUME NEW t \in Posts, TurnStep(t)
    PROVE  KeepsRows \/ MakesChat \/ AsksRow(t) \/ AnswersRow(t) \/ RewritesRow(t)
<1>1. CASE Resolve(t)
  BY <1>1 DEF Resolve, KeepsRows, MakesChat
<1>2. CASE StoreQuestion(t)
  BY <1>2 DEF StoreQuestion, KeepsRows, AsksRow
<1>3. CASE StoreAnswer(t)
  BY <1>3 DEF StoreAnswer, KeepsRows, AnswersRow
<1>4. CASE KeepAnswer(t) \/ Refine(t) \/ StoreSteps(t)
  BY <1>4 DEF KeepAnswer, Refine, StoreSteps, KeepsRows, RewritesRow, At
<1>. QED BY <1>1, <1>2, <1>3, <1>4
     DEF TurnStep, Step, KeepsRows, Send, ReaderLeaves, ServerDies, Anchor, LoadHistory, AnswerAgain,
         TransformFollowUp, Prepare, Generate, GenerateFails, ShowRefined, Close

\* A turn rewrites no row but its answer.
LEMMA WordsAreKept ==
    ASSUME TurnsStand, NEW t \in Posts, TurnStep(t), NEW i \in 1 .. Len(msg), i # turn[t].answer
    PROVE  msg'[i].text = msg[i].text /\ msg'[i].steps = msg[i].steps
<1>. DEFINE u == turn[t]
<1>1. u \in AnyTurn /\ ChatTypes /\ Exists(t) /\ born \in Nat /\ chats \subseteq 1 .. born /\ Len(msg) \in Nat
  BY RowTypes DEF TurnsStand, ChatTypes, TurnsInv, RowsExist
<1>2. u.anchor \in Nat /\ u.question \in Nat /\ u.text \in Texts /\ {"answer", ""} \subseteq Texts
      /\ (IF u.stream THEN "answer" ELSE "") \in {"answer", ""} /\ u.answer \in Nat
  BY <1>1 DEF AnyTurn, Texts
<1>3. u.chat \in chats => u.chat \in Nat \ {0}
  <2>1. 1 .. born \subseteq Nat \ {0}
    BY <1>1
  <2>. QED BY <1>1, <2>1
<1>4. CASE AsksRow(t)
  <2>1. "" \in Texts
    BY <1>2
  <2>2. Insert(u.chat, "user", u.anchor, "", "") /\ u.chat \in chats /\ "user" \in {"user", "ai"}
    BY <1>4 DEF AsksRow
  <2>3. msg'[i] = msg[i]
    BY <1>1, <1>2, <1>3, <2>1, <2>2, InsertIs
  <2>. QED BY <2>3
<1>5. CASE AnswersRow(t)
  <2>1. PICK steps \in Texts : steps = IF u.stream THEN "answer" ELSE ""
    BY <1>2
  <2>2. Insert(u.chat, "ai", u.question, u.text, steps) /\ u.chat \in chats /\ "ai" \in {"user", "ai"}
    BY <1>5, <2>1 DEF AnswersRow
  <2>3. msg'[i] = msg[i]
    BY <1>1, <1>2, <1>3, <2>2, InsertIs
  <2>. QED BY <2>3
<1>6. CASE RewritesRow(t)
  <2>1. u.answer \in 1 .. Len(msg)
    <3>. DEFINE a == u.answer
    <3>1. a \in Nat /\ a <= Len(msg) /\ a # 0
      BY <1>1, <1>2, <1>6 DEF Exists, RewritesRow
    <3>. HIDE DEF a
    <3>2. a \in 1 .. Len(msg)
      BY <1>1, <3>1
    <3>. QED BY <3>2 DEF a
  <2>. QED BY <1>1, <1>6, <2>1, RewriteIs
<1>. QED BY <1>4, <1>5, <1>6, TurnRows DEF KeepsRows, MakesChat

Seen(t) ==
    LET u == turn[t]
        a == turn[t].answer IN
    /\ u.pc \in {"store", "check"} => u.text = "answer"
    /\ u.pc \in {"show", "steps"} => u.text = "refined"
    /\ u.stream /\ u.end = "open" /\ u.pc \in {"store", "check", "steps", "close"} => u.seen = u.text
    /\ ~Failing("ack") /\ u.pc \in AfterTheAnswer => msg[a].text = u.text
    /\ u.stream /\ ~Failing("ack") /\ ~Failing("store") =>
          /\ u.pc \in {"check", "show", "steps"} => msg[a].steps = "answer"
          /\ u.pc = "close" /\ u.end = "open" => msg[a].chat = 0 \/ msg[a].steps = u.text
    /\ u.end = "ok" =>
          /\ ~Failing("ack") => msg[a].chat = 0 \/ msg[a].text = u.seen
          /\ u.stream /\ ~Failing("ack") /\ ~Failing("store") => msg[a].chat = 0 \/ msg[a].steps = u.seen

LEMMA SeenStays ==
    ASSUME TurnsStand, Kept, NEW t \in Posts, Seen(t), turn'[t] = turn[t],
           turn[t].answer \in 1 .. Len(msg) =>
              /\ msg'[turn[t].answer].text = msg[turn[t].answer].text
              /\ msg'[turn[t].answer].steps = msg[turn[t].answer].steps
    PROVE  Seen(t)'
<1>. DEFINE u == turn[t]
<1>. DEFINE a == turn[t].answer
<1>1. u \in AnyTurn /\ Stands(t) /\ Exists(t) /\ Len(msg) \in Nat
  BY RowTypes DEF TurnsStand, ChatTypes, TurnsInv, RowsExist
<1>2. a # 0 => a \in 1 .. Len(msg)
  <2>1. a \in Nat /\ a <= Len(msg)
    BY <1>1 DEF Exists, AnyTurn
  <2>. HIDE DEF a
  <2>. QED BY <1>1, <2>1
<1>3. u.pc \in AfterTheAnswer \/ u.end = "ok" => a # 0
  BY <1>1 DEF Stands, Exists, AfterTheAnswer
<1>4. a # 0 => /\ msg'[a].text = msg[a].text /\ msg'[a].steps = msg[a].steps
               /\ msg[a].chat = 0 => msg'[a].chat = 0
  BY <1>2 DEF Kept
<1>. QED BY <1>3, <1>4 DEF Seen, AfterTheAnswer

LEMMA StageOf ==
    ASSUME ChatTypes, NEW t \in Posts, TurnStep(t)
    PROVE  \/ turn'[t].pc \in {"resolve", "anchor", "history", "prepare", "ask", "generate"}
           \/ turn'[t].pc = "done" /\ turn'[t].end = IF Reading(t) THEN "error" ELSE turn[t].end
           \/ Generate(t) \/ StoreAnswer(t) \/ KeepAnswer(t) \/ Refine(t) \/ ShowRefined(t)
           \/ StoreSteps(t) \/ Close(t) \/ ReaderLeaves(t) \/ ServerDies(t)
<1>. DEFINE u == turn[t]
<1>1. u \in AnyTurn
  BY DEF ChatTypes
<1>2. \A stage : GoOn(t, stage) => turn'[t].pc = stage
  BY GoOnIs
<1>3. End(t, "error") => turn'[t].pc = "done" /\ turn'[t].end = IF Reading(t) THEN "error" ELSE turn[t].end
  BY EndIs
<1>4. CASE Send(t)
  <2>1. PICK c \in 0 .. born, r \in 0 .. Len(msg), asks \in Requests :
           Become(t, [Quiet EXCEPT !.pc = "resolve", !.chat = c, !.ref = r,
                                   !.stream = asks.stream, !.regen = asks.regen])
    BY <1>4 DEF Send
  <2>2. turn'[t] = [Quiet EXCEPT !.pc = "resolve", !.chat = c, !.ref = r,
                                 !.stream = asks.stream, !.regen = asks.regen]
    BY <2>1, BecomeIs
  <2>. QED BY <2>2 DEF Quiet
<1>5. CASE Resolve(t)
  <2>1. ASSUME NEW c, Become(t, [u EXCEPT !.pc = "anchor", !.chat = c]) PROVE turn'[t].pc = "anchor"
    <3>1. turn'[t] = [u EXCEPT !.pc = "anchor", !.chat = c]
      BY <2>1, BecomeIs
    <3>. QED BY <1>1, <3>1 DEF AnyTurn
  <2>. QED BY <1>2, <1>3, <1>5, <2>1 DEF Resolve
<1>6. CASE Anchor(t)
  <2>1. ASSUME NEW r, Become(t, [u EXCEPT !.pc = "history", !.anchor = r]) PROVE turn'[t].pc = "history"
    <3>1. turn'[t] = [u EXCEPT !.pc = "history", !.anchor = r]
      BY <2>1, BecomeIs
    <3>. QED BY <1>1, <3>1 DEF AnyTurn
  <2>. QED BY <1>2, <1>6, <2>1 DEF Anchor, GoOn
<1>7. CASE LoadHistory(t)
  <2>1. ASSUME NEW h, Become(t, [u EXCEPT !.pc = "prepare", !.hist = h]) PROVE turn'[t].pc = "prepare"
    <3>1. turn'[t] = [u EXCEPT !.pc = "prepare", !.hist = h]
      BY <2>1, BecomeIs
    <3>. QED BY <1>1, <3>1 DEF AnyTurn
  <2>2. ASSUME Become(t, [u EXCEPT !.pc = "prepare", !.whole = FALSE]) PROVE turn'[t].pc = "prepare"
    <3>1. turn'[t] = [u EXCEPT !.pc = "prepare", !.whole = FALSE]
      BY <2>2, BecomeIs
    <3>. QED BY <1>1, <3>1 DEF AnyTurn
  <2>. QED BY <1>7, <2>1, <2>2 DEF LoadHistory
<1>8. CASE AnswerAgain(t)
  <2>1. ASSUME NEW q, NEW a, NEW h,
               Become(t, [u EXCEPT !.pc = "prepare", !.question = q, !.anchor = a, !.hist = h])
        PROVE  turn'[t].pc = "prepare"
    <3>1. turn'[t] = [u EXCEPT !.pc = "prepare", !.question = q, !.anchor = a, !.hist = h]
      BY <2>1, BecomeIs
    <3>. QED BY <1>1, <3>1 DEF AnyTurn
  <2>. QED BY <1>3, <1>8, <2>1 DEF AnswerAgain
<1>9. CASE TransformFollowUp(t) \/ Prepare(t)
  <2>1. ASSUME NEW r, Become(t, [u EXCEPT !.pc = "ask", !.route = r]) PROVE turn'[t].pc = "ask"
    <3>1. turn'[t] = [u EXCEPT !.pc = "ask", !.route = r]
      BY <2>1, BecomeIs
    <3>. QED BY <1>1, <3>1 DEF AnyTurn
  <2>. QED BY <1>3, <1>9, <2>1 DEF TransformFollowUp, Prepare
<1>10. CASE StoreQuestion(t)
  <2>1. ASSUME NEW q, Become(t, [u EXCEPT !.pc = "generate", !.question = q]) PROVE turn'[t].pc = "generate"
    <3>1. turn'[t] = [u EXCEPT !.pc = "generate", !.question = q]
      BY <2>1, BecomeIs
    <3>. QED BY <1>1, <3>1 DEF AnyTurn
  <2>2. NotAsked(t) => \/ turn'[t].pc = "prepare"
                       \/ turn'[t].pc = "done" /\ turn'[t].end = IF Reading(t) THEN "error" ELSE turn[t].end
    BY <1>2, <1>3 DEF NotAsked
  <2>. QED BY <1>2, <1>10, <2>1, <2>2 DEF StoreQuestion
<1>11. CASE GenerateFails(t)
  BY <1>11, GenerateFailsIs
<1>. QED BY <1>4, <1>5, <1>6, <1>7, <1>8, <1>9, <1>10, <1>11 DEF TurnStep, Step

LEMMA TurnSees ==
    ASSUME TurnsStand, TurnsStand', Kept, NEW t \in Posts, Seen(t), TurnStep(t)
    PROVE  Seen(t)'
<1>. DEFINE u == turn[t]
<1>1. u \in AnyTurn /\ Stands(t) /\ Exists(t) /\ ChatTypes /\ Stands(t)' /\ turn'[t] \in AnyTurn
  BY DEF TurnsStand, ChatTypes, TurnsInv, RowsExist
<1>2. Len(msg) \in Nat /\ DOMAIN msg = 1 .. Len(msg) /\ (\A i \in 1 .. Len(msg) : msg[i] \in AnyRow)
      /\ born \in Nat /\ chats \subseteq 1 .. born
  BY <1>1, RowTypes DEF ChatTypes
<1>3. u.pc # "done" /\ u.end # "ok"
  <2>1. u.pc # "done"
    BY DEF TurnStep, Step, At, Running, Send, ReaderLeaves, ServerDies, Resolve, Anchor, LoadHistory,
           AnswerAgain, TransformFollowUp, Prepare, StoreQuestion, Generate, GenerateFails,
           StoreAnswer, KeepAnswer, Refine, ShowRefined, StoreSteps, Close
  <2>. QED BY <1>1, <2>1 DEF Stands
<1>4. turn'[t].pc # "done" => turn'[t].end # "ok"
  BY <1>1 DEF Stands
<1>5. turn'[t].pc = "done" /\ turn'[t].end # "ok" => Seen(t)'
  BY DEF Seen, AfterTheAnswer
<1>6. CASE turn'[t].pc \in {"resolve", "anchor", "history", "prepare", "ask", "generate"}
  BY <1>4, <1>6 DEF Seen, AfterTheAnswer
<1>7. \A word \in {"error", "cut"} : End(t, word) => Seen(t)'
  BY <1>1, <1>3, <1>5, EndIs
<1>8. CASE turn'[t].pc = "done" /\ turn'[t].end = IF Reading(t) THEN "error" ELSE turn[t].end
  BY <1>3, <1>5, <1>8
<1>9. CASE Generate(t)
  <2>1. CASE turn'[t].pc = "done"
    <3>1. turn'[t].end = IF Reading(t) THEN "error" ELSE turn[t].end
      BY <1>1, <1>9, <2>1, GenerateIs
    <3>. QED BY <1>3, <1>5, <2>1, <3>1
  <2>2. CASE turn'[t].pc # "done"
    <3>1. /\ turn'[t].pc = "store" /\ turn'[t].text = "answer" /\ turn'[t].end = u.end
          /\ turn'[t].seen = IF u.stream /\ Reading(t) THEN "answer" ELSE u.seen
          /\ turn'[t].stream = u.stream
      BY <1>1, <1>9, <2>2, GenerateIs DEF Keeps
    <3>. QED BY <1>3, <3>1 DEF Seen, AfterTheAnswer, Reading
  <2>. QED BY <2>1, <2>2
<1>10. CASE StoreAnswer(t)
  <2>1. u.pc = "store" /\ u.text = "answer"
    BY <1>10 DEF StoreAnswer, At, Seen
  <2>2. CASE /\ u.chat \in chats
             /\ Insert(u.chat, "ai", u.question, u.text, IF u.stream THEN "answer" ELSE "")
             /\ Become(t, [u EXCEPT !.pc = "check", !.answer = NewRow])
    <3>1. PICK a : a = Len(msg) + 1
      OBVIOUS
    <3>2. turn'[t] = [u EXCEPT !.pc = "check", !.answer = a]
      BY <1>1, <2>2, <3>1, BecomeIs DEF NewRow
    <3>3. /\ turn'[t].pc = "check" /\ turn'[t].answer = a /\ turn'[t].text = "answer"
          /\ turn'[t].stream = u.stream /\ turn'[t].end = u.end /\ turn'[t].seen = u.seen
      BY <1>1, <2>1, <3>2 DEF AnyTurn
    <3>4. u.chat \in Nat \ {0} /\ u.question \in Nat /\ "answer" \in Texts
      <4>1. 1 .. born \subseteq Nat \ {0}
        BY <1>2
      <4>2. u.chat \in Nat \ {0}
        BY <1>2, <2>2, <4>1, Zenon
      <4>. QED BY <1>1, <4>2 DEF AnyTurn, Texts
    <3>5. PICK steps \in Texts : steps = IF u.stream THEN "answer" ELSE ""
      BY DEF Texts
    <3>6. Insert(u.chat, "ai", u.question, "answer", steps) /\ "ai" \in {"user", "ai"}
      BY <2>1, <2>2, <3>5
    <3>7. ASSUME NEW c \in Nat \ {0}, NEW q \in Nat, NEW text \in Texts, NEW s \in Texts, Insert(c, "ai", q, text, s)
          PROVE  msg'[Len(msg) + 1].text = text /\ msg'[Len(msg) + 1].steps = s
      <4>1. "ai" \in {"user", "ai"}
        OBVIOUS
      <4>2. msg'[Len(msg) + 1] =
              [chat |-> c, role |-> "ai", parent |-> IF InChat(q, c) THEN q ELSE 0,
               at |-> Len(msg) + 1, text |-> text, steps |-> s, copyOf |-> 0]
        BY <1>1, <3>7, <4>1, InsertIs
      <4>. QED BY <4>2
    <3>8. msg'[Len(msg) + 1].text = "answer" /\ msg'[Len(msg) + 1].steps = steps
      BY <3>4, <3>5, <3>6, <3>7
    <3>9. msg'[a].text = "answer" /\ msg'[a].steps = steps
      BY <3>1, <3>8
    <3>10. u.stream /\ u.end = "open" => u.seen = "answer"
      BY <2>1 DEF Seen
    <3>. QED BY <1>3, <3>3, <3>5, <3>9, <3>10 DEF Seen, AfterTheAnswer
  <2>. QED BY <1>7, <1>10, <2>2 DEF StoreAnswer
<1>. DEFINE a == turn[t].answer
<1>11. ASSUME u.pc \in AfterTheAnswer PROVE a \in 1 .. Len(msg)
  <2>1. a \in Nat /\ a <= Len(msg) /\ a # 0
    BY <1>1, <1>11 DEF Exists, AnyTurn, AfterTheAnswer
  <2>. HIDE DEF a
  <2>. QED BY <1>2, <2>1
<1>12. CASE KeepAnswer(t)
  <2>1. u.pc = "check" /\ u.text = "answer" /\ GoOn(t, "close") /\ (~Failing("ack") => UNCHANGED msg)
    BY <1>12 DEF KeepAnswer, At, Seen
  <2>2. turn'[t] = [u EXCEPT !.pc = "close"]
    BY <1>1, <2>1, GoOnIs
  <2>3. /\ turn'[t].pc = "close" /\ turn'[t].answer = a /\ turn'[t].text = "answer"
        /\ turn'[t].stream = u.stream /\ turn'[t].end = u.end /\ turn'[t].seen = u.seen
    BY <1>1, <2>1, <2>2 DEF AnyTurn
  <2>4. u.stream /\ u.end = "open" => u.seen = "answer"
    BY <2>1 DEF Seen
  <2>5. ~Failing("ack") => msg'[a].text = "answer"
    BY <2>1 DEF Seen, AfterTheAnswer
  <2>6. u.stream /\ ~Failing("ack") /\ ~Failing("store") => msg'[a].steps = "answer"
    BY <2>1 DEF Seen
  <2>. QED BY <1>3, <2>3, <2>4, <2>5, <2>6 DEF Seen, AfterTheAnswer
<1>13. CASE Refine(t)
  <2>1. u.pc = "check" /\ msg' = [msg EXCEPT ![a].text = "refined"]
    BY <1>13 DEF Refine, At
  <2>2. turn'[t] = [u EXCEPT !.pc = "show", !.text = "refined"]
    BY <1>1, <1>13, BecomeIs DEF Refine
  <2>3. /\ turn'[t].pc = "show" /\ turn'[t].answer = a /\ turn'[t].text = "refined"
        /\ turn'[t].stream = u.stream /\ turn'[t].end = u.end
    BY <1>1, <2>2 DEF AnyTurn
  <2>4. a \in 1 .. Len(msg) /\ msg[a] \in AnyRow
    BY <1>2, <1>11, <2>1 DEF AfterTheAnswer
  <2>5. msg'[a].text = "refined" /\ msg'[a].steps = msg[a].steps
    <3>. HIDE DEF a
    <3>. QED BY <1>2, <2>1, <2>4 DEF AnyRow
  <2>6. u.stream /\ ~Failing("ack") /\ ~Failing("store") => msg[a].steps = "answer"
    BY <2>1 DEF Seen
  <2>. QED BY <1>3, <2>3, <2>5, <2>6 DEF Seen, AfterTheAnswer
<1>14. CASE ShowRefined(t)
  <2>1. u.pc = "show" /\ u.text = "refined" /\ UNCHANGED msg
    BY <1>14 DEF ShowRefined, At, Seen
  <2>2. PICK stage, seen : /\ stage = IF u.stream THEN "steps" ELSE "close"
                        /\ seen = IF u.stream /\ Reading(t) THEN "refined" ELSE u.seen
    OBVIOUS
  <2>3. turn'[t] = [u EXCEPT !.pc = stage, !.seen = seen]
    BY <1>1, <1>14, <2>2, BecomeIs DEF ShowRefined
  <2>4. /\ turn'[t].pc = stage /\ turn'[t].answer = a /\ turn'[t].text = "refined"
        /\ turn'[t].stream = u.stream /\ turn'[t].end = u.end /\ turn'[t].seen = seen
    BY <1>1, <2>1, <2>3 DEF AnyTurn
  <2>5. ~Failing("ack") => msg'[a].text = "refined"
    BY <2>1 DEF Seen, AfterTheAnswer
  <2>6. u.stream /\ ~Failing("ack") /\ ~Failing("store") => msg'[a].steps = "answer"
    BY <2>1 DEF Seen
  <2>. QED BY <1>3, <2>2, <2>4, <2>5, <2>6 DEF Seen, AfterTheAnswer, Reading
<1>15. CASE StoreSteps(t)
  <2>1. u.pc = "steps" /\ u.text = "refined" /\ GoOn(t, "close")
    BY <1>15 DEF StoreSteps, At, Seen
  <2>2. turn'[t] = [u EXCEPT !.pc = "close"]
    BY <1>1, <2>1, GoOnIs
  <2>3. /\ turn'[t].pc = "close" /\ turn'[t].answer = a /\ turn'[t].text = "refined"
        /\ turn'[t].stream = u.stream /\ turn'[t].end = u.end /\ turn'[t].seen = u.seen
    BY <1>1, <2>1, <2>2 DEF AnyTurn
  <2>4. u.stream /\ u.end = "open" => u.seen = "refined"
    BY <2>1 DEF Seen
  <2>5. a \in 1 .. Len(msg) /\ msg[a] \in AnyRow
    BY <1>2, <1>11, <2>1 DEF AfterTheAnswer
  <2>6. /\ msg'[a].text = msg[a].text
        /\ msg'[a].steps = "refined" \/ (msg'[a].chat = 0) \/ Fails(t)
    <3>1. CASE msg' = [msg EXCEPT ![a].steps = "refined"]
      <4>1. msg'[a].text = msg[a].text /\ msg'[a].steps = "refined"
        <5>. HIDE DEF a
        <5>. QED BY <1>2, <2>5, <3>1 DEF AnyRow
      <4>. QED BY <4>1
    <3>2. CASE UNCHANGED msg /\ (msg[a].chat = 0 \/ Fails(t))
      BY <3>2
    <3>. QED BY <1>15, <3>1, <3>2 DEF StoreSteps
  <2>7. ~Failing("ack") => msg'[a].text = "refined"
    BY <2>1, <2>6 DEF Seen, AfterTheAnswer
  <2>8. u.end = "open" /\ ~Failing("store") => ~Fails(t)
    BY DEF Fails, Reading
  <2>. QED BY <1>3, <2>3, <2>4, <2>6, <2>7, <2>8 DEF Seen, AfterTheAnswer
<1>16. CASE Close(t)
  <2>1. u.pc = "close" /\ UNCHANGED msg
    BY <1>16 DEF Close, At
  <2>2. PICK seen, end : /\ seen = IF ~u.stream /\ Reading(t) THEN u.text ELSE u.seen
                         /\ end = IF Reading(t) THEN "ok" ELSE u.end
    OBVIOUS
  <2>3. turn'[t] = [u EXCEPT !.pc = "done", !.seen = seen, !.end = end]
    BY <1>1, <1>16, <2>2, BecomeIs DEF Close
  <2>4. /\ turn'[t].pc = "done" /\ turn'[t].answer = a /\ turn'[t].stream = u.stream
        /\ turn'[t].end = end /\ turn'[t].seen = seen
    BY <1>1, <2>3 DEF AnyTurn
  <2>5. CASE u.end = "open"
    <3>1. seen = u.text
      <4>1. u.stream => u.seen = u.text
        BY <2>1, <2>5 DEF Seen
      <4>. QED BY <2>2, <2>5, <4>1 DEF Reading
    <3>2. ~Failing("ack") => msg'[a].text = u.text
      BY <2>1 DEF Seen, AfterTheAnswer
    <3>3. u.stream /\ ~Failing("ack") /\ ~Failing("store") => msg'[a].chat = 0 \/ msg'[a].steps = u.text
      BY <2>1, <2>5 DEF Seen
    <3>. QED BY <2>4, <3>1, <3>2, <3>3 DEF Seen, AfterTheAnswer
  <2>6. CASE u.end # "open"
    BY <1>3, <1>5, <2>2, <2>4, <2>6 DEF Reading
  <2>. QED BY <2>5, <2>6
<1>17. CASE ReaderLeaves(t)
  <2>1. turn'[t] = [u EXCEPT !.end = "cut"] /\ UNCHANGED msg
    BY <1>1, <1>17, BecomeIs DEF ReaderLeaves
  <2>2. /\ turn'[t].pc = u.pc /\ turn'[t].answer = a /\ turn'[t].stream = u.stream
        /\ turn'[t].end = "cut" /\ turn'[t].text = u.text /\ msg' = msg
    BY <1>1, <2>1 DEF AnyTurn
  <2>. QED BY <2>2 DEF Seen
<1>18. CASE ServerDies(t)
  BY <1>7, <1>18 DEF ServerDies
<1>. QED BY <1>1, <1>6, <1>8, <1>9, <1>10, <1>12, <1>13, <1>14, <1>15, <1>16, <1>17, <1>18, StageOf

SeenInv == \A t \in Posts : Seen(t)

LEMMA SeenInvStep ==
    ASSUME TurnsStand, SeenInv, ChatNext
    PROVE  SeenInv'
<1>1. TurnsStand' /\ Kept /\ ChatTypes /\ RowsPlaced /\ RowsExist /\ AnswersDiffer
  BY TurnsStandStep DEF TurnsStand, TurnsInv
<1>2. ASSUME NEW t \in Posts, TurnStep(t) PROVE SeenInv'
  <2>1. \A q \in Posts \ {t} : turn'[q] = turn[q]
    <3>1. PICK new \in AnyTurn : Become(t, new)
      BY <1>1, <1>2, TurnTypes DEF TurnStep
    <3>. QED BY <1>1, <3>1, BecomeIs
  <2>2. Seen(t)'
    BY <1>1, <1>2, TurnSees DEF SeenInv
  <2>3. ASSUME NEW q \in Posts, q # t PROVE Seen(q)'
    <3>1. turn[q].answer \in 1 .. Len(msg) => turn[q].answer # turn[t].answer
      <4>1. 0 \notin 1 .. Len(msg)
        BY <1>1, RowTypes
      <4>. QED BY <1>1, <2>3, <4>1 DEF AnswersDiffer
    <3>2. turn[q].answer \in 1 .. Len(msg) =>
             /\ msg'[turn[q].answer].text = msg[turn[q].answer].text
             /\ msg'[turn[q].answer].steps = msg[turn[q].answer].steps
      BY <1>2, <3>1, WordsAreKept
    <3>. QED BY <1>1, <2>1, <2>3, <3>2, SeenStays DEF SeenInv
  <2>. QED BY <2>2, <2>3 DEF SeenInv
<1>3. ASSUME NEW c \in chats, DeleteChat(c) \/ \E i \in 0 .. Len(msg) : Branch(c, i)
      PROVE  SeenInv'
  <2>1. turn' = turn
    BY <1>3 DEF DeleteChat, Branch
  <2>2. \A i \in 1 .. Len(msg) : msg'[i].text = msg[i].text /\ msg'[i].steps = msg[i].steps
    <3>1. CASE DeleteChat(c)
      BY <1>1, <3>1, DeleteIs
    <3>2. ASSUME NEW i \in 0 .. Len(msg), Branch(c, i)
          PROVE  \A j \in 1 .. Len(msg) : msg'[j] = msg[j]
      BY <1>1, <3>2, BranchIs
    <3>. QED BY <1>3, <3>1, <3>2
  <2>3. ASSUME NEW q \in Posts PROVE Seen(q)'
    BY <1>1, <2>1, <2>2, SeenStays DEF SeenInv
  <2>. QED BY <2>3 DEF SeenInv
<1>. QED BY <1>2, <1>3 DEF ChatNext, TurnStep

LEMMA SeenIsDone ==
    ASSUME TurnsStand, SeenInv
    PROVE  DoneMeansStored
<1>1. ASSUME NEW t \in Posts, turn[t].end = "ok"
      PROVE  /\ turn[t].answer # 0
             /\ msg[turn[t].answer].chat # 0 =>
                   /\ InChat(turn[t].answer, turn[t].chat) /\ msg[turn[t].answer].parent = turn[t].question
                   /\ ~Failing("ack") => msg[turn[t].answer].text = turn[t].seen
                   /\ turn[t].stream /\ ChatFaults \cap {"store", "ack"} = {} =>
                         msg[turn[t].answer].steps = turn[t].seen
  <2>. DEFINE a == turn[t].answer
  <2>1. Stands(t) /\ Seen(t) /\ Exists(t) /\ turn[t] \in AnyTurn /\ DOMAIN msg = 1 .. Len(msg) /\ Len(msg) \in Nat
    BY RowTypes DEF TurnsStand, TurnsInv, SeenInv, RowsExist, ChatTypes
  <2>2. a # 0 /\ msg[a].parent = turn[t].question /\ msg[a].chat \in {0, turn[t].chat}
    BY <1>1, <2>1 DEF Stands
  <2>3. a \in 1 .. Len(msg)
    <3>1. a \in Nat /\ a # 0 /\ a <= Len(msg)
      BY <2>1, <2>2 DEF Exists, AnyTurn
    <3>. HIDE DEF a
    <3>. QED BY <2>1, <3>1
  <2>4. ~Failing("ack") => msg[a].chat = 0 \/ msg[a].text = turn[t].seen
    BY <1>1, <2>1 DEF Seen
  <2>5. turn[t].stream /\ ~Failing("ack") /\ ~Failing("store") => msg[a].chat = 0 \/ msg[a].steps = turn[t].seen
    BY <1>1, <2>1 DEF Seen
  <2>. QED BY <2>1, <2>2, <2>3, <2>4, <2>5 DEF InChat, Failing
<1>. QED BY <1>1 DEF DoneMeansStored

\* Who is told that the turn is done has seen what is stored, whoever else asks, branches
\* and deletes meanwhile: an answer below the question, in its last version unless the
\* store's word was lost, and a stream's steps unless their update may have failed.
THEOREM ReadersSeeWhatIsStored == ChatSpec => []DoneMeansStored
<1>1. ChatInit => TurnsStand /\ SeenInv
  <2>1. ASSUME ChatInit, NEW t \in Posts PROVE Seen(t)
    <3>1. turn[t].pc = "idle" /\ turn[t].end = "open"
      BY <2>1 DEF ChatInit, Quiet
    <3>. QED BY <3>1 DEF Seen, AfterTheAnswer
  <2>. QED BY <2>1, TurnsStandInit DEF SeenInv
<1>2. TurnsStand /\ SeenInv /\ [ChatNext]_chatVars => (TurnsStand /\ SeenInv)'
  <2>1. ASSUME SeenInv, UNCHANGED chatVars PROVE SeenInv'
    BY <2>1 DEF SeenInv, Seen, chatVars
  <2>. QED BY <2>1, TurnsStandStep, TurnsStandStays, SeenInvStep
<1>3. TurnsStand /\ SeenInv => DoneMeansStored
  BY SeenIsDone
<1>. QED BY <1>1, <1>2, <1>3, PTL DEF ChatSpec
=============================================================================
