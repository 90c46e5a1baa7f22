----------------------------- MODULE ChatTurns -----------------------------
(***************************************************************************)
(* The turns of KB chats (chat): SendMessage and its answer paths, the     *)
(* message rows they write, and what the reader is shown.  A turn either   *)
(* asks a new question or answers a stored one again.  Turns overlap, and  *)
(* meanwhile chats are branched and deleted, and readers go away.          *)
(***************************************************************************)
EXTENDS Naturals, Sequences, FiniteSets

CONSTANTS
    Posts,      \* the requests, each of which has its turn
    Requests,   \* what a request may ask for: see AllRequests
    Past,       \* questions answered in chat 1 before the behaviour begins
    MaxChats,   \* bound: chats ever made
    MaxRows,    \* bound: message rows ever made
    ChatFaults  \* what may go wrong besides the work itself: see AllChatFaults

AllChatFaults ==
             {"store",    \* a statement on the chat store fails
              "ack",      \* a row is committed, but its writer sees an error
              "client",   \* the reader goes away
              "crash"}    \* the server process dies

\* stream: the answer is streamed.  regen: a stored question is answered again.
AllRequests == [stream : BOOLEAN, regen : BOOLEAN]

ASSUME ChatAssumption ==
    /\ IsFiniteSet(Posts)
    /\ Requests \subseteq AllRequests /\ ChatFaults \subseteq AllChatFaults
    /\ Past \in Nat /\ MaxRows \in Nat /\ 2 * Past <= MaxRows /\ MaxChats \in Nat \ {0}

VARIABLES
    chats,   \* the chats there are
    born,    \* how many chats were made; they are numbered from 1
    msg,     \* the message rows ever made; a deleted row has lost its chat
    turn     \* what each request is doing, and what its reader sees

chatVars == <<chats, born, msg, turn>>

Texts == {"", "answer", "refined"}

\* at: created_at, which a copy keeps.  text, steps: the answer and its trajectory
\* as stored.  copyOf: (history) the row that a branch has copied.
Row == [chat : 0..MaxChats, role : {"user", "ai"}, parent : 0..MaxRows, at : 1..MaxRows,
        text : Texts, steps : Texts, copyOf : 0..MaxRows]

ChatStages == {"idle", "resolve", "anchor", "history", "prepare", "ask", "generate",
           "store", "check", "show", "steps", "close", "done"}

Turn == [pc : ChatStages, chat : 0..MaxChats, stream : BOOLEAN,
         regen : BOOLEAN, ref : 0..MaxRows,      \* the row the request names, if any
         route : {"", "deep", "standard", "transform"},
         anchor : 0..MaxRows,                    \* the row its question follows
         hist : SUBSET (1..MaxRows),             \* the rows the model is given
         whole : BOOLEAN,                        \* (history) they could be read
         question : 0..MaxRows, answer : 0..MaxRows,
         text : Texts,                           \* the answer as the turn knows it
         seen : Texts \cup {"part"},             \* ... and as its reader sees it
         end : {"open", "ok", "error", "cut"}]   \* what the reader is told at last

Quiet == [pc |-> "idle", chat |-> 0, stream |-> FALSE, regen |-> FALSE, ref |-> 0,
          route |-> "", anchor |-> 0, hist |-> {}, whole |-> TRUE,
          question |-> 0, answer |-> 0, text |-> "", seen |-> "", end |-> "open"]

ChatTypeOK ==
    /\ born \in 0..MaxChats /\ chats \subseteq 1..born
    /\ msg \in Seq(Row) /\ Len(msg) <= MaxRows
    /\ turn \in [Posts -> Turn]

\* A chat in which some questions were asked and answered, one after the other.
ChatInit ==
    /\ born = 1 /\ chats = {1}
    /\ msg = [i \in 1 .. 2 * Past |->
                LET text == IF i % 2 = 1 THEN "" ELSE "answer" IN
                [chat |-> 1, role |-> IF i % 2 = 1 THEN "user" ELSE "ai", parent |-> i - 1,
                 at |-> i, text |-> text, steps |-> text, copyOf |-> 0]]
    /\ turn = [t \in Posts |-> Quiet]

-----------------------------------------------------------------------------
(* The message rows.                                                       *)

InChat(i, c) == i \in DOMAIN msg /\ msg[i].chat = c
RowsOf(c) == {i \in DOMAIN msg : InChat(i, c)}

\* GetMessageAncestors, branchPath: a row and those above it, within the chat.
Thread(c, i) ==
    LET up[j \in 0..Len(msg)] == IF InChat(j, c) THEN {j} \cup up[msg[j].parent] ELSE {}
    IN up[i]

\* AddMessage; a parent outside the chat is stored as NULL.
Insert(c, role, p, text, steps) ==
    msg' = Append(msg,
        [chat |-> c, role |-> role, parent |-> IF InChat(p, c) THEN p ELSE 0,
         at |-> Len(msg) + 1, text |-> text, steps |-> steps, copyOf |-> 0])

NewRow == Len(msg) + 1

\* Rows that the turns under way may still need, an unacknowledged one included.
RowsPerTurn == IF "ack" \in ChatFaults THEN 3 ELSE 2
Reserved == RowsPerTurn * Cardinality({t \in Posts : turn[t].pc \notin {"idle", "done"}})
Room(n) == Len(msg) + n + Reserved <= MaxRows

-----------------------------------------------------------------------------
(* The turn up to its question.                                            *)

Reading(t) == turn[t].end = "open"
At(t, stage) == turn[t].pc = stage
Failing(fault) == fault \in ChatFaults

\* A statement of the request fails: by itself, or cancelled as its reader has gone.
Fails(t) == Failing("store") \/ ~Reading(t)

\* The turn goes on, or it is over and its reader, if still there, is told.
Become(t, new) == turn' = [turn EXCEPT ![t] = new]
GoOn(t, stage) == Become(t, [turn[t] EXCEPT !.pc = stage])
Fed(u) == [u EXCEPT !.hist = {}, !.ref = 0, !.anchor = 0, !.route = "", !.whole = TRUE]
End(t, told) ==
    Become(t, [Fed(turn[t]) EXCEPT !.pc = "done", !.end = IF Reading(t) THEN told ELSE @])

\* Another chat may be made, besides those that requests under way will make.
ChatsLeft == born + Cardinality({t \in Posts : At(t, "resolve") /\ turn[t].chat = 0}) < MaxChats

\* A request names a chat, which may be gone by now, or none; and it may name a row
\* it has seen in any chat: the one it follows, or the one to answer again.
Send(t) ==
    /\ At(t, "idle") /\ Room(RowsPerTurn)
    /\ \E c \in 0..born, r \in 0..Len(msg), asks \in Requests :
          /\ asks.regen => c # 0 /\ r # 0
          /\ c = 0 => ChatsLeft
          /\ Become(t, [Quiet EXCEPT !.pc = "resolve", !.chat = c, !.ref = r,
                                     !.stream = asks.stream, !.regen = asks.regen])
    /\ UNCHANGED <<chats, born, msg>>

\* resolveOrCreateChat.
Resolve(t) ==
    /\ At(t, "resolve")
    /\ \/ /\ turn[t].chat \in chats
          /\ GoOn(t, "anchor")
          /\ UNCHANGED <<chats, born>>
       \/ /\ turn[t].chat = 0
          /\ born' = born + 1
          /\ chats' = chats \cup {born'}
          /\ Become(t, [turn[t] EXCEPT !.pc = "anchor", !.chat = born'])
       \/ /\ turn[t].chat \notin chats \cup {0} \/ Fails(t)
          /\ End(t, "error")
          /\ UNCHANGED <<chats, born>>
    /\ UNCHANGED msg

\* parentInChat; a lookup that fails counts as "not in the chat".
Anchor(t) ==
    LET u == turn[t] IN
    /\ At(t, "anchor") /\ ~u.regen
    /\ \/ Become(t, [u EXCEPT !.pc = "history", !.anchor = IF InChat(u.ref, u.chat) THEN u.ref ELSE 0])
       \/ /\ Fails(t)
          /\ Become(t, [u EXCEPT !.pc = "history"])
    /\ UNCHANGED <<chats, born, msg>>

\* loadConversationRows: the thread above the question, or the whole chat.
LoadHistory(t) ==
    LET u == turn[t] IN
    /\ At(t, "history")
    /\ \/ Become(t, [u EXCEPT !.pc = "prepare",
                       !.hist = IF u.anchor # 0 THEN Thread(u.chat, u.anchor) ELSE RowsOf(u.chat)])
       \/ /\ Fails(t)
          /\ Become(t, [u EXCEPT !.pc = "prepare", !.whole = FALSE])
    /\ UNCHANGED <<chats, born, msg>>

\* What a request to answer again is about: the question named, or that of the answer
\* named; 0 when there is none in the chat.
Asked(c, r) ==
    IF ~InChat(r, c) THEN 0
    ELSE IF msg[r].role = "user" THEN r
    ELSE IF InChat(msg[r].parent, c) /\ msg[msg[r].parent].role = "user" THEN msg[r].parent ELSE 0

\* Mutant of AnswerAgain: the history is loaded as for a new question.
AnswerAgainReloading(t) ==
    LET u == turn[t]
        q == Asked(u.chat, u.ref) IN
    /\ At(t, "anchor") /\ u.regen
    /\ \/ /\ q # 0
          /\ Become(t, [u EXCEPT !.pc = "prepare", !.question = q, !.anchor = msg[q].parent,
                !.hist = IF msg[q].parent # 0 THEN Thread(u.chat, msg[q].parent) ELSE RowsOf(u.chat)])
       \/ /\ q = 0 \/ Fails(t)
          /\ End(t, "error")
    /\ UNCHANGED <<chats, born, msg>>

\* resolveRegenerate: the stored question, with what is above it.
AnswerAgain(t) ==
    LET u == turn[t]
        q == Asked(u.chat, u.ref) IN
    /\ At(t, "anchor") /\ u.regen
    /\ \/ /\ q # 0
          /\ Become(t, [u EXCEPT !.pc = "prepare", !.question = q, !.anchor = msg[q].parent,
                                 !.hist = Thread(u.chat, u.ref) \ {u.ref, q}])
       \/ /\ q = 0 \/ Fails(t)
          /\ End(t, "error")
    /\ UNCHANGED <<chats, born, msg>>

\* handleTransformFollowUp: "as a table, please" is about the last answer above it and
\* needs no retrieval.
TransformFollowUp(t) ==
    /\ At(t, "prepare") /\ turn[t].route = ""
    /\ \E i \in turn[t].hist : msg[i].role = "ai"
    /\ Become(t, [turn[t] EXCEPT !.pc = "ask", !.route = "transform"])
    /\ UNCHANGED <<chats, born, msg>>

\* tryDeepChat up to the question, once and for streams only; otherwise, or when it
\* fails, PrepareChatContext, whose failure ends the turn.
Prepare(t) ==
    /\ At(t, "prepare")
    /\ \/ /\ turn[t].stream /\ turn[t].route = ""
          /\ Become(t, [turn[t] EXCEPT !.pc = "ask", !.route = "deep"])
       \/ Become(t, [turn[t] EXCEPT !.pc = "ask", !.route = "standard"])
       \/ End(t, "error")
    /\ UNCHANGED <<chats, born, msg>>

\* The question could not be stored: deep chat leaves it to the standard path.
NotAsked(t) ==
    IF turn[t].route = "deep" THEN GoOn(t, "prepare") ELSE End(t, "error")

\* resolveTurnUserMessage: a question that is answered again is there already.
StoreQuestion(t) ==
    LET u == turn[t] IN
    /\ At(t, "ask")
    /\ IF u.regen
       THEN GoOn(t, "generate") /\ UNCHANGED msg
       ELSE \/ /\ u.chat \in chats
               /\ Insert(u.chat, "user", u.anchor, "", "")
               /\ Become(t, [u EXCEPT !.pc = "generate", !.question = NewRow])
            \/ /\ u.chat \in chats /\ Failing("ack")
               /\ Insert(u.chat, "user", u.anchor, "", "")
               /\ NotAsked(t)
            \/ /\ u.chat \notin chats \/ Fails(t)
               /\ NotAsked(t)
               /\ UNCHANGED msg
    /\ UNCHANGED <<chats, born>>

-----------------------------------------------------------------------------
(* The answer.                                                             *)

\* The model answers in full (a runaway repetition is cut off and counts as that).
Generate(t) ==
    LET u == turn[t] IN
    /\ At(t, "generate")
    /\ Become(t, [Fed(u) EXCEPT !.pc = "store", !.text = "answer",
                           !.seen = IF u.stream /\ Reading(t) THEN "answer" ELSE @])
    /\ UNCHANGED <<chats, born, msg>>

\* It fails, perhaps in mid-answer, or is cancelled with its request.
GenerateFails(t) ==
    /\ At(t, "generate")
    /\ \E seen \in {"", "part"} :
          Become(t, [Fed(turn[t]) EXCEPT !.pc = "done",
                        !.seen = IF turn[t].stream /\ Reading(t) THEN seen ELSE @,
                        !.end = IF Reading(t) THEN "error" ELSE @])
    /\ UNCHANGED <<chats, born, msg>>

\* AddMessage with the answer, below its question.  A stream's steps are stored too.
StoreAnswer(t) ==
    LET u == turn[t]
        steps == IF u.stream THEN "answer" ELSE "" IN
    /\ At(t, "store")
    /\ \/ /\ u.chat \in chats
          /\ Insert(u.chat, "ai", u.question, u.text, steps)
          /\ Become(t, [u EXCEPT !.pc = "check", !.answer = NewRow])
       \/ /\ u.chat \in chats /\ Failing("ack")
          /\ Insert(u.chat, "ai", u.question, u.text, steps)
          /\ End(t, "error")
       \/ /\ u.chat \notin chats \/ Fails(t)
          /\ End(t, "error")
          /\ UNCHANGED msg
    /\ UNCHANGED <<chats, born>>

\* runPostResponseTasks finds nothing to correct, or fails to, and may not know that
\* its correction was written.
KeepAnswer(t) ==
    LET a == turn[t].answer IN
    /\ At(t, "check")
    /\ \/ UNCHANGED msg
       \/ Failing("ack") /\ msg[a].chat # 0 /\ msg' = [msg EXCEPT ![a].text = "refined"]
    /\ GoOn(t, "close")
    /\ UNCHANGED <<chats, born>>

\* Mutant of Refine: an answer that could not be written is shown all the same.
RefineAnyway(t) ==
    LET a == turn[t].answer IN
    /\ At(t, "check")
    /\ IF msg[a].chat # 0
       THEN \/ msg' = [msg EXCEPT ![a].text = "refined"]
            \/ Failing("store") /\ UNCHANGED msg
       ELSE UNCHANGED msg
    /\ Become(t, [turn[t] EXCEPT !.pc = "show", !.text = "refined"])
    /\ UNCHANGED <<chats, born>>

\* runRefineGate corrects the stored answer, whether or not the reader is still there;
\* an answer that is gone by now stays as it was.
Refine(t) ==
    LET a == turn[t].answer IN
    /\ At(t, "check") /\ msg[a].chat # 0
    /\ msg' = [msg EXCEPT ![a].text = "refined"]
    /\ Become(t, [turn[t] EXCEPT !.pc = "show", !.text = "refined"])
    /\ UNCHANGED <<chats, born>>

\* refine_complete: a stream shows the correction.
ShowRefined(t) ==
    LET u == turn[t] IN
    /\ At(t, "show")
    /\ Become(t, [u EXCEPT !.pc = IF u.stream THEN "steps" ELSE "close",
                           !.seen = IF u.stream /\ Reading(t) THEN "refined" ELSE @])
    /\ UNCHANGED <<chats, born, msg>>

\* persistLateTrajectory, best-effort, and for a request whose reader is there.
StoreSteps(t) ==
    LET a == turn[t].answer IN
    /\ At(t, "steps")
    /\ \/ /\ msg[a].chat # 0
          /\ msg' = [msg EXCEPT ![a].steps = "refined"]
       \/ /\ msg[a].chat = 0 \/ Fails(t)
          /\ UNCHANGED msg
    /\ GoOn(t, "close")
    /\ UNCHANGED <<chats, born>>

\* [DONE], or the JSON response.
Close(t) ==
    LET u == turn[t] IN
    /\ At(t, "close")
    /\ Become(t, [u EXCEPT !.pc = "done",
                           !.seen = IF ~u.stream /\ Reading(t) THEN u.text ELSE @,
                           !.end = IF Reading(t) THEN "ok" ELSE @])
    /\ UNCHANGED <<chats, born, msg>>

-----------------------------------------------------------------------------
(* What happens meanwhile.                                                 *)

Running(t) == turn[t].pc \notin {"idle", "done"}

ReaderLeaves(t) ==
    /\ Failing("client") /\ Running(t) /\ Reading(t)
    /\ Become(t, [turn[t] EXCEPT !.end = "cut"])
    /\ UNCHANGED <<chats, born, msg>>

ServerDies(t) ==
    /\ Failing("crash") /\ Running(t)
    /\ End(t, "cut")
    /\ UNCHANGED <<chats, born, msg>>

\* DeleteChat; its messages go with it.
DeleteChat(c) ==
    /\ c \in chats
    /\ chats' = chats \ {c}
    /\ msg' = [i \in DOMAIN msg |-> IF msg[i].chat = c THEN [msg[i] EXCEPT !.chat = 0] ELSE msg[i]]
    /\ UNCHANGED <<born, turn>>

Rank(S, i) == Cardinality({j \in S : j <= i})

\* Mutant of Copies: the copies keep their parents.
CopiesUnmapped(S) ==
    [n \in 1..Cardinality(S) |->
        LET i == CHOOSE j \in S : Rank(S, j) = n IN
        [msg[i] EXCEPT !.chat = born + 1, !.copyOf = i]]

\* The rows of S as rows of the next chat, their parents replaced by the copies.
Copies(S) ==
    [n \in 1..Cardinality(S) |->
        LET i == CHOOSE j \in S : Rank(S, j) = n
            p == msg[i].parent IN
        [msg[i] EXCEPT !.chat = born + 1, !.copyOf = i,
                       !.parent = IF p \in S THEN Len(msg) + Rank(S, p) ELSE 0]]

\* BranchChat: a new chat with a message and what is above it, or with nothing.
Branch(c, i) ==
    LET S == Thread(c, i) IN
    /\ c \in chats /\ ChatsLeft
    /\ i = 0 \/ S # {}
    /\ Room(Cardinality(S))
    /\ born' = born + 1
    /\ chats' = chats \cup {born'}
    /\ msg' = msg \o Copies(S)
    /\ UNCHANGED turn

-----------------------------------------------------------------------------

Step(t) ==
    \/ Resolve(t) \/ Anchor(t) \/ LoadHistory(t) \/ AnswerAgain(t) \/ TransformFollowUp(t)
    \/ Prepare(t) \/ StoreQuestion(t) \/ Generate(t) \/ GenerateFails(t) \/ StoreAnswer(t)
    \/ KeepAnswer(t) \/ Refine(t) \/ ShowRefined(t) \/ StoreSteps(t) \/ Close(t)

ChatNext ==
    \/ \E t \in Posts : Send(t) \/ Step(t) \/ ReaderLeaves(t) \/ ServerDies(t)
    \/ \E c \in chats : DeleteChat(c) \/ \E i \in 0..Len(msg) : Branch(c, i)

ChatSpec == ChatInit /\ [][ChatNext]_chatVars

\* A handler runs on until it returns: retrieval, models and statements have timeouts.
ChatFairness == \A t \in Posts : WF_chatVars(Step(t))
-----------------------------------------------------------------------------
(* Properties.                                                             *)

\* The rows of a chat are a forest: whatever parent a request names, a row follows an
\* older row of its own chat, an answer follows its question, and a branch has the
\* shape of what it was copied from.
ThreadsAreForests ==
    \A i \in DOMAIN msg :
        LET p == msg[i].parent
            o == msg[i].copyOf IN
        msg[i].chat # 0 =>
            /\ p # 0 => p < i /\ InChat(p, msg[i].chat)
            /\ msg[i].role = "ai" => p # 0 /\ msg[p].role = "user"
            /\ o # 0 => /\ msg[i].role = msg[o].role
                       /\ IF msg[o].parent = 0 THEN p = 0
                          ELSE p # 0 /\ msg[p].copyOf = msg[o].parent

\* A turn answers from the thread its question stands in: all that is above
\* the question, and neither the answer it replaces, nor a sibling, nor another chat.
\* A question without a place in the chat gets what is older; so does none whose
\* history could not be read.
FedTheThread ==
    \A t \in Posts :
        LET u == turn[t] IN
        At(t, "generate") /\ u.whole /\ InChat(u.question, u.chat) =>
            IF u.regen \/ u.anchor # 0
            THEN u.hist = Thread(u.chat, u.question) \ {u.question}
            ELSE u.hist \subseteq {i \in RowsOf(u.chat) : msg[i].at < msg[u.question].at}

\* A reader who is told that the turn is done has seen what is stored: one whole answer
\* below the question, with its correction if there was one (and if the store has said
\* so), and a stream's steps unless their update failed.
DoneMeansStored ==
    \A t \in Posts :
        LET u == turn[t]
            a == u.answer IN
        u.end = "ok" =>
            /\ a # 0
            /\ msg[a].chat # 0 =>
                  /\ InChat(a, u.chat) /\ msg[a].parent = u.question
                  /\ ~Failing("ack") => msg[a].text = u.seen
                  /\ u.stream /\ ChatFaults \cap {"store", "ack"} = {} => msg[a].steps = u.seen

\* Every reader who stays is told in the end that the turn is done or has failed.
EveryTurnIsTold == \A t \in Posts : Running(t) ~> turn[t].end # "open"
=============================================================================
