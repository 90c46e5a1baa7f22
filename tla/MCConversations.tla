-------------------------- MODULE MCConversations --------------------------
(***************************************************************************)
(* Instances of the three kinds of conversation: with an agent             *)
(* (AgentRuns), with a knowledge base (ChatTurns) and a stream of research *)
(* (SSERelay).  They share nothing; a behaviour is about one of them and   *)
(* keeps to one scenario.  Requests differ in their names only, so they    *)
(* arrive in the order of these.                                           *)
(***************************************************************************)
EXTENDS AgentRuns, ChatTurns, SSERelay

VARIABLE scenario

\* Three requests to the agent are a pause and two resumes, or two pauses and a
\* resume: overlapping without a fault, with crashes, with lost updates, or one
\* after the other.
AgentScenarios ==
    {[overlap |-> TRUE, faults |-> {}, inFlight |-> 2, turns |-> {1, 2}],
     [overlap |-> TRUE, faults |-> {"crash"}, inFlight |-> 2, turns |-> {1, 2, 3}],
     [overlap |-> TRUE, faults |-> {"crash", "finish"}, inFlight |-> 2, turns |-> {1, 2}],
     [overlap |-> FALSE, faults |-> {}, inFlight |-> 1, turns |-> {1, 2, 3}]}

Streamed == {[stream |-> TRUE, regen |-> regen] : regen \in BOOLEAN}
Any == [stream : BOOLEAN, regen : BOOLEAN]

\* Two turns of a KB chat at once; one after two that are past, with a second chat
\* which is a branch or the turn's own; one with a reader who leaves, a crash or
\* statements that fail; and one whose writes may be committed unseen.
ChatScenarios ==
    {[requests |-> Streamed, past |-> 1, chats |-> 1, rows |-> 6, inFlight |-> 2, turns |-> {1, 2},
      faults |-> {}],
     [requests |-> Streamed, past |-> 2, chats |-> 2, rows |-> 8, inFlight |-> 1, turns |-> {1},
      faults |-> {}],
     [requests |-> Any, past |-> 1, chats |-> 2, rows |-> 6, inFlight |-> 1, turns |-> {1},
      faults |-> {"store", "client", "crash"}],
     [requests |-> Any, past |-> 1, chats |-> 1, rows |-> 6, inFlight |-> 1, turns |-> {1},
      faults |-> {"ack", "client"}]}

Runs(s) == INSTANCE AgentRuns WITH Overlap <- s.overlap, Faults <- s.faults
Chat(s) == INSTANCE ChatTurns WITH
    Posts <- Turns, Requests <- s.requests, Past <- s.past, MaxChats <- s.chats, MaxRows <- s.rows,
    ChatFaults <- s.faults

InOrder(s, idle, busy) ==
    /\ Cardinality({q \in Turns : busy[q]}) <= s.inFlight
    /\ \A q \in Turns : ~idle[q] => q \in s.turns /\ \A p \in 1..q : ~idle[p]

Research == [events |-> Steps]

NoChats ==
    /\ chats = {} /\ born = 0 /\ msg = <<>>
    /\ turn = [t \in Turns |-> [pc |-> "idle", end |-> "open"]]

MCInit ==
    /\ Init
    /\ \/ /\ scenario \in AgentScenarios
          /\ NoChats /\ RelayStarts("over")
       \/ /\ \E s \in ChatScenarios : scenario = s /\ Chat(s)!ChatInit
          /\ RelayStarts("over")
       \/ scenario = Research /\ NoChats /\ RelayInit

AgentNext == \E s \in AgentScenarios :
    /\ scenario = s
    /\ \/ /\ Runs(s)!Next
          /\ InOrder(s, [q \in Turns |-> pc'[q] = "idle"], [q \in Turns |-> pc'[q] \notin {"idle", "done"}])
       \/ (\A q \in s.turns : pc[q] = "done") /\ UNCHANGED vars
    /\ UNCHANGED <<chatVars, relayVars, scenario>>

KBNext == \E s \in ChatScenarios :
    /\ scenario = s
    /\ \/ /\ Chat(s)!ChatNext
          /\ InOrder(s, [t \in Turns |-> turn'[t].pc = "idle"],
                        [t \in Turns |-> turn'[t].pc \notin {"idle", "done"}])
       \/ (\A t \in s.turns : turn[t].pc \in {"idle", "done"}) /\ UNCHANGED chatVars
    /\ UNCHANGED <<vars, relayVars, scenario>>

ResearchNext ==
    /\ scenario = Research
    /\ RelayNext \/ (relay = "over" /\ UNCHANGED relayVars)
    /\ UNCHANGED <<vars, chatVars, scenario>>

MCSpec ==
    /\ MCInit /\ [][AgentNext \/ KBNext \/ ResearchNext]_<<vars, chatVars, relayVars, scenario>>
    /\ Fairness /\ RelayFairness
    /\ \A t \in Turns : WF_chatVars(\E s \in ChatScenarios : scenario = s /\ Chat(s)!Step(t))

\* What is announced is recorded, unless the last update of a row is lost; and one
\* request at a time, every answer is stored below the question it answers (which
\* overlapping requests break).
RowsAndAnswersAgree ==
    scenario \in AgentScenarios =>
        /\ "finish" \notin scenario.faults => RowMatchesHooks
        /\ ~scenario.overlap => AnswersItsQuestion

\* ChatTurns, in its scenarios: who is told that the turn is done has seen what is
\* stored, whatever fails or ends early (and the variables keep their types).
SeenIsStored ==
    \A s \in ChatScenarios : scenario = s => Chat(s)!ChatTypeOK /\ Chat(s)!DoneMeansStored

\* Again and again there is a moment at which no pause blocks its thread (it is
\* answered or abandoned), every row of a started run has reached an end state if
\* nothing crashes or is lost, and every reader of a KB chat has been told that the
\* turn is done or has failed.  The requests of a scenario are finitely many: each
\* of these comes to an end.
TurnsEnd ==
    []<>(/\ \A q \in Turns : run[q] # "interrupted"
         /\ scenario \in AgentScenarios /\ scenario.faults = {} => \A q \in Turns : run[q] # "running"
         /\ scenario \in ChatScenarios => \A q \in Turns : turn[q].pc = "idle" \/ turn[q].end # "open")
=============================================================================
